------------------------- MODULE EventParser_proofs -------------------------
(***************************************************************************)
(* For every set of tasks, list of CPUs and number of runs and traces:     *)
(* what a finished run of all the stages leaves is of the trace it read    *)
(* (ColumnsAreFresh), of all its tasks for which there is a place          *)
(* (TasksCountedAlways), each column the lengths of its task's runs        *)
(* (PeriodsAreRunsAlways), but for a last number that is reported          *)
(* (OddIsReportedAlways).                                                  *)
(*                                                                         *)
(* Three invariants carry this.  FreshInv says stage by stage what is      *)
(* already of this trace: StartSplit empties output/pertask with elapsed   *)
(* in it, so that the appends behind it start from nothing, and no task is *)
(* in `work` twice.  TraceInv says what the kernel can have recorded: a    *)
(* task has one CPU at a time, so that its events, which grep collects     *)
(* from all the CPUs and sort -n puts in the order of their time, give it  *)
(* a CPU on the odd lines and take that CPU away on the lines that follow. *)
(* NamesInv says which tasks each stage works on.                          *)
(***************************************************************************)
EXTENDS EventParser, FiniteSetTheorems, TLAPS

(* A first append makes the file, when there is anything to append.        *)
LEMMA AddFile ==
  ASSUME NEW dir, NEW x, NEW s, x \notin DOMAIN dir
  PROVE  /\ DOMAIN Add(dir, x, s) \subseteq DOMAIN dir \cup {x}
         /\ \A y \in DOMAIN Add(dir, x, s) :
              Add(dir, x, s)[y] = IF y = x THEN s ELSE dir[y]
<1>1. CASE s = <<>>
  BY <1>1 DEF Add
<1>2. CASE s # <<>>
  <2>1. Add(dir, x, s) = [y \in DOMAIN dir \cup {x} |-> IF y = x THEN s ELSE dir[y]]
    BY <1>2 DEF Add, Put
  <2> QED
    BY <2>1
<1> QED
  BY <1>1, <1>2

(* Nothing is in an empty directory.                                       *)
LEMMA EmptyDir == DOMAIN NoFiles = {}
  BY DEF NoFiles

(* `ls` names files of the directory, and elapsed.                         *)
LEMMA HeadsAreNames ==
  ASSUME NEW n, NEW withDir \in BOOLEAN, NEW S \in Heads(n, withDir)
  PROVE  S \ {Dir} \subseteq DOMAIN pertask
  BY DEF Heads, kSubset

(* There is no run when there are no files.                                *)
LEMMA FreshInit == Init => FreshInv
  BY DEF Init, FreshInv, RunFlow

(* The invariant is about these variables only.                            *)
LEMMA FreshStutter ==
  ASSUME FreshInv, UNCHANGED <<recording, stage, mode, trace, csv, pertask,
                               elapsed, tot, work>>
  PROVE  FreshInv'
  BY DEF FreshInv, RunFlow, FreshStage, Right

(* The machine, and a user who starts or stops the script: no finished run *)
(* of all the stages is there afterwards, or nothing it read has changed.  *)
LEMMA FreshUser ==
  ASSUME FreshInv, UserStep
  PROVE  FreshInv'
<1>1. ASSUME NEW c \in Cpu, NEW x \in Task, NEW gap \in Gap, Switch(c, x, gap)
      PROVE  FreshInv'
  BY <1>1 DEF FreshInv, RunFlow, Switch, files, runVars
<1>2. CASE NewTrace
  BY <1>2 DEF FreshInv, RunFlow, NewTrace
<1>3. CASE StartAll
  BY <1>3 DEF FreshInv, RunFlow, FreshStage, StartAll, Start, files
<1>4. CASE StartStage
  BY <1>4 DEF FreshInv, RunFlow, StartStage, Start, Stage
<1>5. CASE StartGcu
  BY <1>5 DEF FreshInv, RunFlow, StartGcu, Start
<1>6. CASE Interrupt
  BY <1>6 DEF FreshInv, RunFlow, Interrupt
<1>7. CASE EndOfInput
  BY <1>7 DEF FreshInv, RunFlow, FreshStage, Right, EndOfInput, Done, After,
              machineVars, files, runOpts
<1> QED
  BY <1>1, <1>2, <1>3, <1>4, <1>5, <1>6, <1>7 DEF UserStep

(* The stages and the steps of their loops.                                *)
LEMMA FreshParser ==
  ASSUME FreshInv, ParserStep
  PROVE  FreshInv'
<1>1. CASE TransToCsv
  BY <1>1 DEF FreshInv, RunFlow, FreshStage, TransToCsv, Done, After,
              machineVars, runOpts
<1>2. CASE FindTasks
  BY <1>2 DEF FreshInv, RunFlow, FreshStage, FindTasks, Done, After,
              machineVars, runOpts
<1>3. CASE UniqTasks
  BY <1>3 DEF FreshInv, RunFlow, FreshStage, UniqTasks, Done, After,
              machineVars, runOpts
<1>4. CASE StartSplit
  BY <1>4, EmptyDir DEF FreshInv, RunFlow, FreshStage, StartSplit, Loop,
              machineVars, runOpts
<1>5. ASSUME NEW x \in Task, SplitTask(x)
      PROVE  FreshInv'
  <2>1. mode' = mode /\ stage' = stage /\ stage = "splitting"
        /\ trace' = trace /\ csv' = csv /\ elapsed' = elapsed
        /\ recording' = recording
    BY <1>5 DEF SplitTask, machineVars, runOpts
  <2>2. RunFlow'
    BY <2>1 DEF FreshInv, RunFlow
  <2>3. ASSUME mode = "all"
        PROVE  \A y \in DOMAIN pertask' : pertask'[y] = EventsOf(trace, y)
    <3>1. pertask' = Put(pertask, x, EventsOf(trace, x))
      BY <1>5, <2>1, <2>3 DEF SplitTask, FreshInv, FreshStage
    <3>2. /\ DOMAIN pertask' = DOMAIN pertask \cup {x}
          /\ \A y \in DOMAIN pertask' :
               pertask'[y] = IF y = x THEN EventsOf(trace, x) ELSE pertask[y]
      BY <3>1 DEF Put
    <3>3. \A y \in DOMAIN pertask : pertask[y] = EventsOf(trace, y)
      BY <2>1, <2>3 DEF FreshInv, FreshStage
    <3> QED
      BY <3>2, <3>3
  <2> QED
    BY <2>1, <2>2, <2>3 DEF FreshInv, FreshStage
<1>6. CASE CheckNFix
  BY <1>6 DEF FreshInv, RunFlow, FreshStage, CheckNFix, Done, After,
              machineVars, files, runOpts
<1>7. CASE StartUsage
  <2>1. PICK S \in Heads(Total, TRUE) : Loop("counting", S \ {Dir})
    BY <1>7 DEF StartUsage
  <2>2. work' \subseteq DOMAIN pertask
    BY <2>1, HeadsAreNames DEF Loop
  <2> QED
    BY <1>7, <2>1, <2>2, EmptyDir DEF FreshInv, RunFlow, FreshStage, Right,
       StartUsage, Loop, machineVars, runOpts
<1>8. ASSUME NEW x \in Task, UsageTask(x)
      PROVE  FreshInv'
  <2>1. mode' = mode /\ stage' = stage /\ stage = "counting"
        /\ trace' = trace /\ csv' = csv /\ pertask' = pertask
        /\ recording' = recording /\ x \in work /\ work' = work \ {x}
    BY <1>8 DEF UsageTask, machineVars, runOpts
  <2>2. RunFlow'
    BY <2>1 DEF FreshInv, RunFlow
  <2>3. ASSUME mode = "all"
        PROVE  /\ \A y \in DOMAIN elapsed' : y \notin work'
               /\ Right(elapsed')
    <3> DEFINE old == IF debug THEN Restrict(elapsed, DOMAIN elapsed \ {x})
                               ELSE elapsed
               s == Periods(Get(pertask, x))
    <3>1. x \notin DOMAIN elapsed /\ work \subseteq DOMAIN pertask
          /\ \A y \in DOMAIN elapsed : y \notin work
      BY <2>1, <2>3 DEF FreshInv, FreshStage
    <3>2. x \notin DOMAIN old /\ DOMAIN old = DOMAIN elapsed
          /\ \A y \in DOMAIN old : old[y] = elapsed[y]
      BY <3>1 DEF Restrict
    <3>3. s = Periods(EventsOf(trace, x))
      <4>1. x \in DOMAIN pertask
        BY <2>1, <3>1
      <4>2. pertask[x] = EventsOf(trace, x)
        BY <2>1, <2>3, <4>1 DEF FreshInv, FreshStage
      <4> QED
        BY <4>1, <4>2 DEF Get
    <3>4. Right(elapsed)
      BY <2>1, <2>3 DEF FreshInv, FreshStage
    <3>5. elapsed' = Add(old, x, s) \/ elapsed' = elapsed
      BY <1>8 DEF UsageTask
    <3>6. CASE elapsed' = Add(old, x, s)
      <4> HIDE DEF old, s
      <4>1. DOMAIN elapsed' \subseteq DOMAIN elapsed \cup {x}
            /\ \A y \in DOMAIN elapsed' :
                 elapsed'[y] = IF y = x THEN s ELSE old[y]
        BY <3>2, <3>6, AddFile
      <4> QED
        BY <2>1, <3>1, <3>2, <3>3, <3>4, <4>1 DEF Right
    <3>7. CASE elapsed' = elapsed
      BY <2>1, <3>1, <3>4, <3>7
    <3> QED
      BY <3>5, <3>6, <3>7
  <2> QED
    BY <2>1, <2>2, <2>3 DEF FreshInv, FreshStage, Right
<1>9. CASE EndLoop
  BY <1>9 DEF FreshInv, RunFlow, FreshStage, Right, EndLoop, Done, After,
              machineVars, files, runOpts
<1>10. CASE Merge
  BY <1>10 DEF FreshInv, RunFlow, FreshStage, Right, Merge, Loop, Done, After,
               machineVars, runOpts
<1> QED
  BY <1>1, <1>2, <1>3, <1>4, <1>5, <1>6, <1>7, <1>8, <1>9, <1>10 DEF ParserStep

(* What has been made in a run of all the stages is of the trace it reads, *)
(* at every step of it.                                                    *)
THEOREM FreshInvariance == Spec => []FreshInv
<1>1. FreshInv /\ [Next]_vars => FreshInv'
  <2> SUFFICES ASSUME FreshInv, [Next]_vars
               PROVE  FreshInv'
    OBVIOUS
  <2>1. CASE UNCHANGED vars
    BY <2>1, FreshStutter DEF vars, machineVars, files, runVars
  <2> QED
    BY <2>1, FreshUser, FreshParser DEF Next
<1> QED
  BY <1>1, FreshInit, PTL DEF Spec

(* The columns of a finished run are the periods of the events of the      *)
(* trace: kevent_parser.sh may be run again over what it left.             *)
THEOREM ColumnsAreFresh == Spec => []FreshColumns
<1>1. FreshInv => FreshColumns
  BY DEF FreshInv, FreshStage, Right, FreshColumns, AllDone
<1> QED
  BY <1>1, FreshInvariance, PTL

-----------------------------------------------------------------------------
(* Logs and the events of a task in them.                                  *)

(* A sequence has finitely many elements.                                  *)
LEMMA ToSetFinite ==
  ASSUME NEW S, NEW s \in Seq(S)
  PROVE  IsFiniteSet(ToSet(s))
<1>1. s \in Surjection(1 .. Len(s), ToSet(s))
  BY DEF Surjection, ToSet
<1>2. IsFiniteSet(1 .. Len(s))
  BY FS_Interval
<1>. QED
  BY <1>1, <1>2, FS_Surjection

(* So are the CPUs, and what grep finds in their logs.                     *)
LEMMA CpusFinite == IsFiniteSet(Cpu)
BY FileListAssumption, ToSetFinite DEF Cpu

LEMMA GrepFinite ==
  ASSUME NEW log \in [Cpu -> Seq(Event)], NEW x
  PROVE  IsFiniteSet(Grep(log, x))
<1> DEFINE Sets == {ToSet(log[c]) : c \in Cpu}
           f == [c \in Cpu |-> ToSet(log[c])]
<1>1. f \in Surjection(Cpu, Sets)
  BY DEF Surjection
<1>2. IsFiniteSet(Sets)
  BY <1>1, CpusFinite, FS_Surjection
<1>3. \A T \in Sets : IsFiniteSet(T)
  BY ToSetFinite
<1>4. IsFiniteSet(UNION Sets)
  BY <1>2, <1>3, FS_UNION
<1>5. Grep(log, x) \in SUBSET UNION Sets
  BY DEF Grep
<1>. QED
  BY <1>4, <1>5, FS_Subset

LEMMA EventFields == \A e \in Event : e.t \in Nat /\ e.prev \in Task /\ e.next \in Task
BY DEF Event

(* What grep finds stands somewhere in a log.                              *)
LEMMA GrepEvents ==
  ASSUME NEW log \in [Cpu -> Seq(Event)], NEW x
  PROVE  /\ Grep(log, x) \subseteq Event
         /\ \A e \in Grep(log, x) :
              /\ x \in {e.prev, e.next}
              /\ \E c \in Cpu : \E i \in DOMAIN log[c] : e = log[c][i]
         /\ \A c \in Cpu : \A i \in DOMAIN log[c] :
              x \in {log[c][i].prev, log[c][i].next} => log[c][i] \in Grep(log, x)
<1>1. \A c \in Cpu : log[c] \in Seq(Event)
  OBVIOUS
<1>2. \A c \in Cpu : \A i \in DOMAIN log[c] : log[c][i] \in Event
  BY <1>1
<1>. QED
  BY <1>2 DEF Grep, ToSet

LEMMA GrepTimes ==
  ASSUME NEW log \in [Cpu -> Seq(Event)], LogOK(log), NEW x
  PROVE  /\ \A e \in Grep(log, x) : e.t \in Nat
         /\ \A d, e \in Grep(log, x) : d.t = e.t => d = e
<1>1. \A e \in Grep(log, x) : e.t \in Nat
  <2>1. Grep(log, x) \subseteq Event
    BY GrepEvents
  <2>. QED
    BY <2>1, EventFields
<1>2. ASSUME NEW d \in Grep(log, x), NEW e \in Grep(log, x), d.t = e.t
      PROVE  d = e
  <2>1. PICK c \in Cpu : \E i \in DOMAIN log[c] : d = log[c][i]
    BY GrepEvents
  <2>2. PICK b \in Cpu : \E j \in DOMAIN log[b] : e = log[b][j]
    BY GrepEvents
  <2>. QED
    BY <1>2, <2>1, <2>2 DEF LogOK
<1>. QED
  BY <1>1, <1>2

(* sort -n: every line of the file is an event, every event has a line of  *)
(* its own, and later events come further down.                            *)
LEMMA LineFacts ==
  ASSUME NEW E, IsFiniteSet(E), \A e \in E : e.t \in Nat,
         \A d, e \in E : d.t = e.t => d = e
  PROVE  /\ Cardinality(E) \in Nat
         /\ \A e \in E : Line(E, e) \in 1 .. Cardinality(E)
         /\ \A d, e \in E : d.t < e.t => Line(E, d) < Line(E, e)
<1> DEFINE upTo(e) == {d \in E : d.t <= e.t}
<1>1. Cardinality(E) \in Nat
  BY FS_CardinalityType
<1>2. ASSUME NEW e \in E
      PROVE  /\ upTo(e) \in SUBSET E /\ e \in upTo(e) /\ IsFiniteSet(upTo(e))
             /\ Cardinality(upTo(e)) \in 1 .. Cardinality(E)
  <2>1. upTo(e) \in SUBSET E /\ e \in upTo(e)
    OBVIOUS
  <2>2. IsFiniteSet(upTo(e)) /\ Cardinality(upTo(e)) <= Cardinality(E)
    BY <2>1, FS_Subset
  <2>3. Cardinality(upTo(e)) \in Nat
    BY <2>2, FS_CardinalityType
  <2>4. Cardinality(upTo(e)) # 0
    BY <2>1, <2>2, FS_EmptySet
  <2>. QED
    BY <1>1, <2>1, <2>2, <2>3, <2>4
<1>3. ASSUME NEW d \in E, NEW e \in E, d.t < e.t
      PROVE  Cardinality(upTo(d)) < Cardinality(upTo(e))
  <2>1. upTo(d) \in SUBSET upTo(e) /\ e \notin upTo(d)
    BY <1>3
  <2>2. /\ Cardinality(upTo(d)) <= Cardinality(upTo(e))
        /\ Cardinality(upTo(e)) = Cardinality(upTo(d)) => upTo(e) = upTo(d)
    BY <1>2, <2>1, FS_Subset
  <2>3. Cardinality(upTo(d)) \in Nat /\ Cardinality(upTo(e)) \in Nat
    BY <1>2, FS_CardinalityType
  <2>4. upTo(e) # upTo(d)
    BY <1>2, <2>1
  <2>. QED
    BY <2>2, <2>3, <2>4
<1>. QED
  BY <1>1, <1>2, <1>3 DEF Line

LEMMA SortedFacts ==
  ASSUME NEW E, IsFiniteSet(E), \A e \in E : e.t \in Nat,
         \A d, e \in E : d.t = e.t => d = e
  PROVE  /\ DOMAIN Sorted(E) = 1 .. Cardinality(E)
         /\ \A k \in 1 .. Cardinality(E) :
              Sorted(E)[k] \in E /\ Line(E, Sorted(E)[k]) = k
         /\ \A e \in E : Sorted(E)[Line(E, e)] = e
         /\ \A j, k \in 1 .. Cardinality(E) : j < k => Sorted(E)[j].t < Sorted(E)[k].t
<1> DEFINE n == Cardinality(E)
           f == [e \in E |-> Line(E, e)]
<1>1. /\ n \in Nat
      /\ \A e \in E : Line(E, e) \in 1 .. n
      /\ \A d, e \in E : d.t < e.t => Line(E, d) < Line(E, e)
  BY LineFacts
<1>2. \A d, e \in E : Line(E, d) = Line(E, e) => d = e
  <2> SUFFICES ASSUME NEW d \in E, NEW e \in E, Line(E, d) = Line(E, e), d # e
               PROVE  FALSE
    OBVIOUS
  <2>1. d.t \in Nat /\ e.t \in Nat /\ d.t # e.t
    OBVIOUS
  <2>2. d.t < e.t \/ e.t < d.t
    BY <2>1
  <2>3. Line(E, d) \in Nat /\ Line(E, e) \in Nat
    BY <1>1
  <2>. QED
    BY <1>1, <2>2, <2>3
<1>3. f \in Injection(E, 1 .. n)
  <2>1. f \in [E -> 1 .. n]
    BY <1>1
  <2>. QED
    BY <1>2, <2>1 DEF Injection, IsInjective
<1>4. IsFiniteSet(1 .. n) /\ Cardinality(1 .. n) = n
  BY <1>1, FS_Interval
<1>5. f \in Surjection(E, 1 .. n)
  BY <1>3, <1>4, FS_Injection
<1>6. \A k \in 1 .. n : \E e \in E : Line(E, e) = k
  BY <1>5 DEF Surjection
<1>7. \A k \in 1 .. n : Sorted(E)[k] \in E /\ Line(E, Sorted(E)[k]) = k
  BY <1>6 DEF Sorted
<1>8. \A e \in E : Sorted(E)[Line(E, e)] = e
  BY <1>1, <1>2, <1>7
<1>9. ASSUME NEW j \in 1 .. n, NEW k \in 1 .. n, j < k
      PROVE  Sorted(E)[j].t < Sorted(E)[k].t
  <2> DEFINE d == Sorted(E)[j]
             e == Sorted(E)[k]
  <2>1. d \in E /\ e \in E /\ Line(E, d) = j /\ Line(E, e) = k
    BY <1>7
  <2>2. d.t \in Nat /\ e.t \in Nat
    BY <2>1
  <2>3. d.t # e.t
    BY <1>9, <2>1
  <2>4. ~(e.t < d.t)
    BY <1>1, <1>9, <2>1
  <2>. QED
    BY <2>2, <2>3, <2>4
<1>. QED
  BY <1>7, <1>8, <1>9 DEF Sorted

(* The lines of output/pertask/<task>.                                     *)
LEMMA EventsOfType ==
  ASSUME NEW log \in [Cpu -> Seq(Event)], LogOK(log), NEW x
  PROVE  /\ EventsOf(log, x) \in Seq(Event)
         /\ Len(EventsOf(log, x)) = Cardinality(Grep(log, x))
         /\ Cardinality(Grep(log, x)) \in Nat
<1> DEFINE E == Grep(log, x)
           n == Cardinality(E)
<1>1. IsFiniteSet(E) /\ E \subseteq Event /\ n \in Nat
  BY GrepFinite, GrepEvents, FS_CardinalityType
<1>2. DOMAIN Sorted(E) = 1 .. n /\ \A k \in 1 .. n : Sorted(E)[k] \in E
  BY <1>1, GrepTimes, SortedFacts
<1>3. Sorted(E) \in [1 .. n -> Event]
  <2>1. Sorted(E) = [k \in DOMAIN Sorted(E) |-> Sorted(E)[k]]
    BY DEF Sorted
  <2>. QED
    BY <1>1, <1>2, <2>1
<1>. QED
  BY <1>1, <1>3 DEF EventsOf

-----------------------------------------------------------------------------
(* The types of the script's files and variables.                          *)

MachineTypes ==
  on \in [Cpu -> Task] /\ IsInjective(on) /\ clock \in Nat /\ trace \in [Cpu -> Seq(Event)]
FlagTypes == {recording, hasElapsed, debug} \subseteq BOOLEAN
ListTypes ==
  csv \in [Cpu -> Seq(Event)] /\ cpulist \in [Cpu -> SUBSET Task] /\ tasklist \subseteq Task
PertaskTypes ==
  DOMAIN pertask \subseteq Task /\ \A x \in DOMAIN pertask : pertask[x] \in Seq(Event)
Columns(dir) ==
  DOMAIN dir \subseteq Task /\ \A x \in DOMAIN dir : dir[x] \in Seq(Int)
PeriodTypes == Columns(elapsed) /\ Columns(tot) /\ (elapsed # NoFiles => hasElapsed)
RunTypes ==
  /\ mode \in Stage \cup {"none", "all", "gcu"}
  /\ stage \in Stage \cup {"none", "splitting", "counting", "reading"}
  /\ work \subseteq Task /\ odd \subseteq Task

LEMMA TypeParts ==
  EventTypeOK <=> /\ MachineTypes /\ FlagTypes /\ ListTypes
                  /\ PertaskTypes /\ PeriodTypes /\ RunTypes
BY Zenon DEF EventTypeOK, MachineTypes, FlagTypes, ListTypes, PertaskTypes, Columns,
   PeriodTypes, RunTypes

LEMMA TypePartsNext ==
  EventTypeOK' <=> /\ MachineTypes' /\ FlagTypes' /\ ListTypes'
                   /\ PertaskTypes' /\ PeriodTypes' /\ RunTypes'
BY Zenon DEF EventTypeOK, MachineTypes, FlagTypes, ListTypes, PertaskTypes, Columns,
   PeriodTypes, RunTypes

(* Each part is about a few variables.                                     *)
LEMMA TypeFrame ==
  /\ MachineTypes /\ UNCHANGED <<on, clock, trace>> => MachineTypes'
  /\ FlagTypes /\ UNCHANGED <<recording, hasElapsed, debug>> => FlagTypes'
  /\ ListTypes /\ UNCHANGED <<csv, cpulist, tasklist>> => ListTypes'
  /\ PertaskTypes /\ UNCHANGED pertask => PertaskTypes'
  /\ PeriodTypes /\ UNCHANGED <<elapsed, tot, hasElapsed>> => PeriodTypes'
  /\ RunTypes /\ UNCHANGED <<mode, stage, work, odd>> => RunTypes'
<1>1. MachineTypes /\ UNCHANGED <<on, clock, trace>> => MachineTypes'
  BY DEF MachineTypes
<1>2. FlagTypes /\ UNCHANGED <<recording, hasElapsed, debug>> => FlagTypes'
  BY DEF FlagTypes
<1>3. ListTypes /\ UNCHANGED <<csv, cpulist, tasklist>> => ListTypes'
  BY DEF ListTypes
<1>4. PertaskTypes /\ UNCHANGED pertask => PertaskTypes'
  BY DEF PertaskTypes
<1>5. PeriodTypes /\ UNCHANGED <<elapsed, tot, hasElapsed>> => PeriodTypes'
  BY DEF PeriodTypes
<1>6. RunTypes /\ UNCHANGED <<mode, stage, work, odd>> => RunTypes'
  BY DEF RunTypes
<1>. QED
  BY <1>1, <1>2, <1>3, <1>4, <1>5, <1>6, Zenon

(* A column has half as many numbers as the file has lines, and one more   *)
(* for a line that is left.                                                *)
LEMMA PeriodsType ==
  ASSUME NEW s \in Seq(Event)
  PROVE  Periods(s) \in Seq(Int) /\ Len(Periods(s)) = (Len(s) + 1) \div 2
<1> DEFINE time(i) == IF i \in DOMAIN s THEN s[i].t ELSE 0
           n == (Len(s) + 1) \div 2
<1>1. n \in Nat
  OBVIOUS
<1>2. \A i \in DOMAIN s : s[i].t \in Int
  BY EventFields
<1>3. \A i \in Int : time(i) \in Int
  BY <1>2
<1>4. \A k \in 1 .. n : time(2 * k) - time(2 * k - 1) \in Int
  BY <1>3
<1>5. Periods(s) = [k \in 1 .. n |-> time(2 * k) - time(2 * k - 1)]
  BY DEF Periods
<1> HIDE DEF time, n
<1>6. Periods(s) \in [1 .. n -> Int]
  BY <1>4, <1>5
<1>. QED
  BY <1>1, <1>6 DEF n

LEMMA GetType ==
  ASSUME PertaskTypes, NEW x
  PROVE  Get(pertask, x) \in Seq(Event)
BY DEF Get, PertaskTypes

(* Appending whole numbers to a column.                                    *)
LEMMA AddType ==
  ASSUME NEW dir, Columns(dir), NEW x \in Task, NEW s \in Seq(Int)
  PROVE  Columns(Add(dir, x, s))
<1>1. CASE s = <<>>
  BY <1>1 DEF Add
<1>2. CASE s # <<>>
  <2> DEFINE r == IF x \in DOMAIN dir THEN dir[x] \o s ELSE s
  <2>1. r \in Seq(Int)
    BY DEF Columns
  <2> HIDE DEF r
  <2>2. Add(dir, x, s) = [y \in DOMAIN dir \cup {x} |-> IF y = x THEN r ELSE dir[y]]
    BY <1>2 DEF Add, Put, r
  <2>. QED
    BY <2>1, <2>2 DEF Columns
<1>. QED
  BY <1>1, <1>2

LEMMA NoColumns == Columns(NoFiles)
BY DEF Columns, NoFiles

(* Where a stage leads to.                                                 *)
LEMMA AfterType ==
  /\ \A s \in Stage : After[s] \in Stage \cup {"none"}
  /\ {"csv", "tasklist", "tasklist_uniq", "split_event", "check_n_fix",
      "get_cpuusage", "merge_cpuusage"} = Stage
BY DEF After, Stage

LEMMA DoneType ==
  ASSUME FlagTypes, NEW s \in Stage, Done(s)
  PROVE  stage' \in Stage \cup {"none"} /\ work' \subseteq Task /\ debug' \in BOOLEAN
<1>1. stage' \in Stage \cup {"none"}
  BY AfterType DEF Done
<1>2. debug' \in BOOLEAN
  BY Zenon DEF Done, FlagTypes
<1>. QED
  BY <1>1, <1>2 DEF Done

(* The kernel's switch is an event.                                        *)
SwitchEvent(c, x, gap) == [t |-> clock + gap, prev |-> on[c], next |-> x]

LEMMA SwitchFacts ==
  ASSUME MachineTypes, NEW c \in Cpu, NEW x \in Task, NEW gap \in Gap, Switch(c, x, gap)
  PROVE  /\ SwitchEvent(c, x, gap) \in Event
         /\ clock' = clock + gap /\ clock' \in Nat /\ clock < clock' /\ clock' <= MaxTime
         /\ on' \in [Cpu -> Task] /\ IsInjective(on')
         /\ on'[c] = x /\ \A d \in Cpu \ {c} : on'[d] = on[d] /\ on[d] # on[c]
         /\ \A d \in Cpu : on[d] # x
         /\ trace' \in [Cpu -> Seq(Event)]
         /\ trace'[c] = Append(trace[c], SwitchEvent(c, x, gap))
         /\ \A d \in Cpu \ {c} : trace'[d] = trace[d]
<1>1. clock' = clock + gap /\ clock' \in Nat /\ clock < clock' /\ clock' <= MaxTime
  BY EventBoundAssumption DEF MachineTypes, Switch
<1>2. SwitchEvent(c, x, gap) \in Event
  BY <1>1 DEF SwitchEvent, Event, MachineTypes
<1>3. on' = [on EXCEPT ![c] = x] /\ \A d \in Cpu : on[d] # x
  BY DEF Switch
<1>4. on' \in [Cpu -> Task] /\ on'[c] = x /\ \A d \in Cpu \ {c} : on'[d] = on[d]
  BY <1>3 DEF MachineTypes
<1>5. \A d \in Cpu \ {c} : on[d] # on[c]
  BY DEF MachineTypes, IsInjective
<1>6. IsInjective(on')
  BY <1>3, <1>4 DEF MachineTypes, IsInjective
<1>7. trace' = [trace EXCEPT ![c] = Append(trace[c], SwitchEvent(c, x, gap))]
  BY DEF Switch, SwitchEvent
<1>8. trace[c] \in Seq(Event)
  BY DEF MachineTypes
<1>9. Append(trace[c], SwitchEvent(c, x, gap)) \in Seq(Event)
  BY <1>2, <1>8
<1>10. /\ trace' \in [Cpu -> Seq(Event)]
       /\ trace'[c] = Append(trace[c], SwitchEvent(c, x, gap))
       /\ \A d \in Cpu \ {c} : trace'[d] = trace[d]
  BY <1>7, <1>9 DEF MachineTypes
<1>. QED
  BY <1>1, <1>2, <1>3, <1>4, <1>5, <1>6, <1>10

LEMMA EventTypeUser ==
  ASSUME EventTypeOK, UserStep
  PROVE  EventTypeOK'
<1>0. /\ MachineTypes /\ FlagTypes /\ ListTypes
      /\ PertaskTypes /\ PeriodTypes /\ RunTypes
  BY TypeParts
<1> USE DEF files, machineVars, runVars, runOpts
<1>1. ASSUME NEW c \in Cpu, NEW x \in Task, NEW gap \in Gap, Switch(c, x, gap)
      PROVE  EventTypeOK'
  <2>1. MachineTypes'
    BY <1>0, <1>1, SwitchFacts DEF MachineTypes
  <2>. QED
    BY <1>0, <1>1, <2>1, TypeFrame, TypePartsNext DEF Switch
<1>2. CASE NewTrace
  <2>1. MachineTypes'
    BY <1>0, <1>2 DEF NewTrace, MachineTypes
  <2>2. FlagTypes'
    BY <1>0, <1>2 DEF NewTrace, FlagTypes
  <2>3. RunTypes'
    BY <1>0, <1>2 DEF NewTrace, RunTypes
  <2>. QED
    BY <1>0, <1>2, <2>1, <2>2, <2>3, TypeFrame, TypePartsNext DEF NewTrace
<1>3. ASSUME NEW m \in Stage \cup {"all", "gcu"}, NEW s \in Stage \cup {"counting"},
             NEW W \in SUBSET Task, Start(m, s, W)
      PROVE  EventTypeOK'
  <2>1. RunTypes'
    BY <1>3 DEF Start, RunTypes
  <2>2. recording' = FALSE /\ hasElapsed' = hasElapsed /\ debug' \in BOOLEAN
    BY <1>3 DEF Start
  <2>3. FlagTypes'
    BY <1>0, <2>2 DEF FlagTypes
  <2>. QED
    BY <1>0, <1>3, <2>1, <2>3, TypeFrame, TypePartsNext DEF Start
<1>4. CASE StartAll \/ StartStage \/ StartGcu
  <2>1. {} \in SUBSET Task /\ "csv" \in Stage
    BY DEF Stage
  <2>2. CASE StartAll
    BY <1>3, <2>1, <2>2 DEF StartAll
  <2>3. CASE StartStage
    BY <1>3, <2>1, <2>3 DEF StartStage
  <2>4. CASE StartGcu
    BY <1>3, <2>4 DEF StartGcu
  <2>. QED
    BY <1>4, <2>2, <2>3, <2>4
<1>5. CASE Interrupt
  <2>1. RunTypes'
    BY <1>0, <1>5 DEF Interrupt, RunTypes
  <2>2. FlagTypes'
    BY <1>0, <1>5 DEF Interrupt, FlagTypes
  <2>. QED
    BY <1>0, <1>5, <2>1, <2>2, TypeFrame, TypePartsNext DEF Interrupt
<1>6. CASE EndOfInput
  <2>1. stage' \in Stage \cup {"none"} /\ work' \subseteq Task /\ debug' \in BOOLEAN
    BY <1>0, <1>6, AfterType, DoneType DEF EndOfInput
  <2>2. RunTypes'
    BY <1>0, <1>6, <2>1 DEF EndOfInput, RunTypes
  <2>3. FlagTypes'
    BY <1>0, <1>6, <2>1 DEF EndOfInput, FlagTypes
  <2>. QED
    BY <1>0, <1>6, <2>2, <2>3, TypeFrame, TypePartsNext DEF EndOfInput
<1>. QED
  BY <1>1, <1>2, <1>4, <1>5, <1>6 DEF UserStep

LEMMA EventTypeParser ==
  ASSUME EventTypeOK, LogOK(csv), ParserStep
  PROVE  EventTypeOK'
<1>0. /\ MachineTypes /\ FlagTypes /\ ListTypes
      /\ PertaskTypes /\ PeriodTypes /\ RunTypes
  BY TypeParts
<1> USE DEF files, machineVars, runVars, runOpts
<1>1. CASE TransToCsv \/ FindTasks \/ UniqTasks \/ CheckNFix \/ EndLoop
  <2>1. \E s \in Stage : Done(s)
    BY <1>1, AfterType DEF TransToCsv, FindTasks, UniqTasks, CheckNFix, EndLoop
  <2>2. stage' \in Stage \cup {"none"} /\ work' \subseteq Task /\ debug' \in BOOLEAN
    BY <1>0, <2>1, DoneType
  <2>3. odd' \subseteq Task
    <3>1. CASE CheckNFix
      BY <1>0, <3>1, HeadsAreNames, Zenon DEF CheckNFix, FlagTypes, PertaskTypes
    <3>. QED
      BY <1>0, <1>1, <3>1
         DEF TransToCsv, FindTasks, UniqTasks, EndLoop, RunTypes
  <2>4. UNCHANGED <<machineVars, pertask, elapsed, tot, hasElapsed, mode>>
    BY <1>1 DEF TransToCsv, FindTasks, UniqTasks, CheckNFix, EndLoop
  <2>5. RunTypes'
    BY <1>0, <2>2, <2>3, <2>4 DEF RunTypes
  <2>6. FlagTypes'
    BY <1>0, <2>2, <2>4 DEF FlagTypes
  <2>7. ListTypes'
    <3>1. CASE TransToCsv
      BY <1>0, <3>1 DEF TransToCsv, MachineTypes, ListTypes
    <3>2. CASE FindTasks
      <4>1. \A c \in Cpu : {e.prev : e \in ToSet(csv[c])} \subseteq Task
        BY <1>0, EventFields DEF ListTypes, ToSet
      <4>. QED
        BY <1>0, <3>2, <4>1 DEF FindTasks, ListTypes
    <3>3. CASE UniqTasks
      BY <1>0, <3>3 DEF UniqTasks, ListTypes
    <3>. QED
      BY <1>0, <1>1, <3>1, <3>2, <3>3, TypeFrame DEF CheckNFix, EndLoop
  <2>. QED
    BY <1>0, <2>4, <2>5, <2>6, <2>7, TypeFrame, TypePartsNext
<1>2. CASE StartSplit
  <2>1. PertaskTypes' /\ PeriodTypes'
    BY <1>0, <1>2, NoColumns, EmptyDir DEF StartSplit, PertaskTypes, PeriodTypes
  <2>2. FlagTypes'
    BY <1>0, <1>2 DEF StartSplit, Loop, FlagTypes
  <2>3. RunTypes'
    BY <1>0, <1>2 DEF StartSplit, Loop, RunTypes, ListTypes
  <2>. QED
    BY <1>0, <1>2, <2>1, <2>2, <2>3, TypeFrame, TypePartsNext DEF StartSplit
<1>3. ASSUME NEW x \in Task, SplitTask(x)
      PROVE  EventTypeOK'
  <2>1. EventsOf(csv, x) \in Seq(Event)
    BY <1>0, EventsOfType DEF ListTypes
  <2>2. PertaskTypes'
    BY <1>0, <1>3, <2>1 DEF SplitTask, Put, PertaskTypes
  <2>3. RunTypes'
    BY <1>0, <1>3 DEF SplitTask, RunTypes
  <2>. QED
    BY <1>0, <1>3, <2>2, <2>3, TypeFrame, TypePartsNext DEF SplitTask
<1>4. CASE StartUsage
  <2>1. PICK S \in Heads(Total, TRUE) : Loop("counting", S \ {Dir})
    BY <1>4 DEF StartUsage
  <2>2. work' \subseteq Task
    BY <1>0, <2>1, HeadsAreNames DEF Loop, PertaskTypes
  <2>3. RunTypes'
    BY <1>0, <1>4, <2>1, <2>2 DEF StartUsage, Loop, RunTypes
  <2>4. FlagTypes'
    BY <1>0, <1>4, <2>1 DEF StartUsage, Loop, FlagTypes
  <2>5. PeriodTypes'
    BY <1>0, <1>4 DEF StartUsage, PeriodTypes
  <2>. QED
    BY <1>0, <1>4, <2>3, <2>4, <2>5, TypeFrame, TypePartsNext DEF StartUsage
<1>5. ASSUME NEW x \in Task, UsageTask(x)
      PROVE  EventTypeOK'
  <2> DEFINE old == IF debug THEN Restrict(elapsed, DOMAIN elapsed \ {x}) ELSE elapsed
             s == Periods(Get(pertask, x))
  <2>1. s \in Seq(Int)
    BY <1>0, GetType, PeriodsType
  <2>2. Columns(old)
    BY <1>0 DEF PeriodTypes, Columns, Restrict
  <2>3. elapsed' = IF hasElapsed THEN Add(old, x, s) ELSE elapsed
    BY <1>5 DEF UsageTask
  <2> HIDE DEF old, s
  <2>4. Columns(Add(old, x, s))
    BY <2>1, <2>2, AddType
  <2>5. PeriodTypes'
    BY <1>0, <1>5, <2>3, <2>4 DEF UsageTask, PeriodTypes
  <2>6. RunTypes'
    BY <1>0, <1>5 DEF UsageTask, RunTypes
  <2>. QED
    BY <1>0, <1>5, <2>5, <2>6, TypeFrame, TypePartsNext DEF UsageTask
<1>6. CASE Merge
  <2>1. PeriodTypes'
    BY <1>0, <1>6 DEF Merge, PeriodTypes
  <2>2. stage' \in Stage \cup {"none", "reading"} /\ work' \subseteq Task
        /\ debug' \in BOOLEAN
    <3>1. CASE elapsed = NoFiles
      <4>1. debug' = debug
        BY <1>6, <3>1 DEF Merge, Loop
      <4>2. debug' \in BOOLEAN
        BY <1>0, <4>1, Zenon DEF FlagTypes
      <4>. QED
        BY <1>6, <3>1, <4>2 DEF Merge, Loop
    <3>. QED
      BY <1>0, <1>6, <3>1, AfterType, DoneType DEF Merge
  <2>3. RunTypes'
    BY <1>0, <1>6, <2>2 DEF Merge, RunTypes
  <2>4. FlagTypes'
    BY <1>0, <1>6, <2>2 DEF Merge, FlagTypes
  <2>. QED
    BY <1>0, <1>6, <2>1, <2>3, <2>4, TypeFrame, TypePartsNext DEF Merge
<1>. QED
  BY <1>1, <1>2, <1>3, <1>4, <1>5, <1>6 DEF ParserStep

-----------------------------------------------------------------------------
(* What the kernel records.                                                *)

(* The events of x in a trace: of some time until now.                     *)
LEMMA TraceTimes ==
  ASSUME MachineTypes, Recorded, NEW y
  PROVE  \A e \in Grep(trace, y) : e.t \in Nat /\ 0 < e.t /\ e.t <= clock
<1>1. trace \in [Cpu -> Seq(Event)]
  BY DEF MachineTypes
<1>2. ASSUME NEW e \in Grep(trace, y)
      PROVE  e.t \in Nat /\ 0 < e.t /\ e.t <= clock
  <2>1. PICK c \in Cpu : \E i \in DOMAIN trace[c] : e = trace[c][i]
    BY <1>1, GrepEvents
  <2>2. e \in Event
    BY <1>1, GrepEvents
  <2>. QED
    BY <2>1, <2>2, EventFields DEF Recorded
<1>. QED
  BY <1>2

(* A switch adds one event, later than all the others.                     *)
LEMMA SwitchLog ==
  ASSUME MachineTypes, NEW c \in Cpu, NEW x \in Task, NEW gap \in Gap, Switch(c, x, gap)
  PROVE  LET n == Len(trace[c])
             new == SwitchEvent(c, x, gap)
         IN /\ n \in Nat /\ trace'[c] # <<>>
            /\ DOMAIN trace[c] = 1 .. n /\ DOMAIN trace'[c] = 1 .. n + 1
            /\ Len(trace'[c]) = n + 1 /\ Last(trace'[c]) = new
            /\ trace'[c][n + 1] = new
            /\ \A i \in 1 .. n : trace'[c][i] = trace[c][i]
<1>1. trace[c] \in Seq(Event) /\ trace'[c] = Append(trace[c], SwitchEvent(c, x, gap))
  BY SwitchFacts DEF MachineTypes
<1>. QED
  BY <1>1 DEF Last

LEMMA SwitchGrep ==
  ASSUME MachineTypes, NEW c \in Cpu, NEW x \in Task, NEW gap \in Gap, Switch(c, x, gap),
         NEW y
  PROVE  Grep(trace', y) = Grep(trace, y) \cup
           (IF y \in {on[c], x} THEN {SwitchEvent(c, x, gap)} ELSE {})
<1> DEFINE n == Len(trace[c])
           new == SwitchEvent(c, x, gap)
<1>0. /\ DOMAIN trace[c] = 1 .. n /\ DOMAIN trace'[c] = 1 .. n + 1 /\ n \in Nat
      /\ trace'[c][n + 1] = new
      /\ \A i \in 1 .. n : trace'[c][i] = trace[c][i]
  BY SwitchLog
<1>1. \A d \in Cpu \ {c} : trace'[d] = trace[d]
  BY SwitchFacts
<1>2. ToSet(trace'[c]) = ToSet(trace[c]) \cup {new}
  BY <1>0 DEF ToSet
<1>3. UNION {ToSet(trace'[d]) : d \in Cpu}
      = (UNION {ToSet(trace[d]) : d \in Cpu}) \cup {new}
  <2>1. \A d \in Cpu : ToSet(trace'[d]) =
          IF d = c THEN ToSet(trace[d]) \cup {new} ELSE ToSet(trace[d])
    BY <1>1, <1>2
  <2> HIDE DEF new
  <2>2. \A e : (\E d \in Cpu : e \in ToSet(trace'[d])) <=>
               (\E d \in Cpu : e \in ToSet(trace[d])) \/ e = new
    BY <2>1
  <2>. QED
    BY <2>2
<1>4. new.prev = on[c] /\ new.next = x
  BY DEF SwitchEvent
<1> HIDE DEF new
<1> DEFINE U == UNION {ToSet(trace[d]) : d \in Cpu}
<1>5. Grep(trace, y) = {e \in U : y \in {e.prev, e.next}}
      /\ Grep(trace', y) = {e \in U \cup {new} : y \in {e.prev, e.next}}
  BY <1>3 DEF Grep
<1> HIDE DEF U
<1>6. CASE y \in {on[c], x}
  <2>1. Grep(trace', y) = Grep(trace, y) \cup {new}
    BY <1>4, <1>5, <1>6
  <2>. QED
    BY <1>6, <2>1 DEF new
<1>7. CASE y \notin {on[c], x}
  <2>1. Grep(trace', y) = Grep(trace, y)
    BY <1>4, <1>5, <1>7
  <2>. QED
    BY <1>7, <2>1
<1>. QED
  BY <1>6, <1>7

(* An event later than the others comes on the last line.                  *)
LEMMA LineAdd ==
  ASSUME NEW E, IsFiniteSet(E), NEW new, new.t \in Nat,
         \A e \in E : e.t \in Nat /\ e.t < new.t
  PROVE  /\ Cardinality(E) \in Nat
         /\ Cardinality(E \cup {new}) = Cardinality(E) + 1
         /\ Line(E \cup {new}, new) = Cardinality(E) + 1
         /\ \A e \in E : Line(E \cup {new}, e) = Line(E, e)
<1>1. new \notin E
  OBVIOUS
<1>2. Cardinality(E) \in Nat /\ Cardinality(E \cup {new}) = Cardinality(E) + 1
  BY <1>1, FS_CardinalityType, FS_AddElement
<1>3. {d \in E \cup {new} : d.t <= new.t} = E \cup {new}
  OBVIOUS
<1>4. \A e \in E : {d \in E \cup {new} : d.t <= e.t} = {d \in E : d.t <= e.t}
  OBVIOUS
<1>. QED
  BY <1>2, <1>3, <1>4 DEF Line

LEMMA LogSwitch ==
  ASSUME MachineTypes, LogOK(trace), Recorded,
         NEW c \in Cpu, NEW x \in Task, NEW gap \in Gap, Switch(c, x, gap)
  PROVE  LogOK(trace')
<1> DEFINE n == Len(trace[c])
           new == SwitchEvent(c, x, gap)
<1>0. /\ DOMAIN trace[c] = 1 .. n /\ DOMAIN trace'[c] = 1 .. n + 1 /\ n \in Nat
      /\ trace'[c][n + 1] = new
      /\ \A i \in 1 .. n : trace'[c][i] = trace[c][i]
  BY SwitchLog
<1>1. /\ \A d \in Cpu \ {c} : trace'[d] = trace[d]
      /\ clock \in Nat /\ clock' \in Nat /\ clock < clock' /\ clock' = clock + gap
      /\ trace \in [Cpu -> Seq(Event)]
  BY SwitchFacts DEF MachineTypes
<1>2. new.t = clock'
  BY <1>1 DEF SwitchEvent
<1>3. \A d \in Cpu : \A i \in DOMAIN trace[d] : trace[d][i].t \in Nat /\ trace[d][i].t < clock'
  BY <1>1, EventFields DEF Recorded
<1>4. \A d \in Cpu : \A i \in DOMAIN trace'[d] :
        \/ d = c /\ i = n + 1 /\ trace'[d][i].t = clock'
        \/ i \in DOMAIN trace[d] /\ trace'[d][i] = trace[d][i]
  BY <1>0, <1>1, <1>2
<1>. QED
  BY <1>3, <1>4 DEF LogOK

LEMMA RecordedSwitch ==
  ASSUME MachineTypes, Recorded,
         NEW c \in Cpu, NEW x \in Task, NEW gap \in Gap, Switch(c, x, gap)
  PROVE  Recorded'
<1> DEFINE n == Len(trace[c])
           new == SwitchEvent(c, x, gap)
<1>0. /\ DOMAIN trace[c] = 1 .. n /\ DOMAIN trace'[c] = 1 .. n + 1 /\ n \in Nat
      /\ Len(trace'[c]) = n + 1 /\ Last(trace'[c]) = new
      /\ trace'[c][n + 1] = new
      /\ \A i \in 1 .. n : trace'[c][i] = trace[c][i]
  BY SwitchLog
<1>1. /\ \A d \in Cpu \ {c} : trace'[d] = trace[d] /\ on'[d] = on[d]
      /\ clock \in Nat /\ clock' \in Nat /\ clock < clock' /\ clock' = clock + gap
      /\ clock' <= MaxTime /\ MaxTime \in Nat
      /\ on'[c] = x /\ on[c] # x
      /\ trace \in [Cpu -> Seq(Event)]
  BY SwitchFacts, EventBoundAssumption DEF MachineTypes
<1>2. new.t = clock' /\ new.prev = on[c] /\ new.next = x
  BY <1>1 DEF SwitchEvent
<1>3. \A d \in Cpu : Len(trace[d]) \in Nat /\ Len(trace[d]) < clock
  BY <1>1 DEF Recorded
<1>4. \A i \in 1 .. n :
        /\ trace[c][i].t \in Nat /\ 0 < trace[c][i].t /\ trace[c][i].t <= clock
        /\ trace[c][i].prev # trace[c][i].next
        /\ \A j \in 1 .. i - 1 : trace[c][j].t < trace[c][i].t
        /\ i > 1 => trace[c][i - 1].next = trace[c][i].prev
  <2>1. \A i \in 1 .. n : trace[c][i].t \in Nat
    BY <1>0, <1>1, EventFields
  <2>. QED
    BY <1>0, <2>1 DEF Recorded
<1>5. n > 0 => trace[c][n].next = on[c]
  <2>1. trace[c] \in Seq(Event)
    BY <1>1
  <2>2. n > 0 => trace[c] # <<>>
    BY <2>1
  <2>. QED
    BY <2>2 DEF Recorded, Last
<1> DEFINE Good(d, i) ==
      LET e == trace'[d][i]
      IN /\ 0 < e.t /\ e.t <= clock' /\ e.prev # e.next
         /\ \A j \in 1 .. i - 1 : trace'[d][j].t < e.t
         /\ i > 1 => trace'[d][i - 1].next = e.prev
<1>6. ASSUME NEW d \in Cpu \ {c}, NEW i \in DOMAIN trace[d]
      PROVE  Good(d, i)
  <2>1. trace[d][i].t \in Nat /\ trace[d][i].t <= clock
    BY <1>1, EventFields DEF Recorded
  <2>. QED
    BY <1>1, <2>1 DEF Recorded
<1>7. ASSUME NEW i \in 1 .. n
      PROVE  Good(c, i)
  <2>1. trace'[c][i] = trace[c][i] /\ \A j \in 1 .. i - 1 : trace'[c][j] = trace[c][j]
        /\ (i > 1 => trace'[c][i - 1] = trace[c][i - 1])
    BY <1>0
  <2>2. trace[c][i].t <= clock'
    BY <1>1, <1>4
  <2>3. \A j \in 1 .. i - 1 : trace'[c][j].t < trace'[c][i].t
    BY <1>4, <2>1
  <2>4. i > 1 => trace'[c][i - 1].next = trace'[c][i].prev
    BY <1>4, <2>1
  <2>. QED
    BY <1>4, <2>1, <2>2, <2>3, <2>4
<1>8. Good(c, n + 1)
  <2>1. \A j \in 1 .. n : trace'[c][j].t < clock'
    BY <1>0, <1>1, <1>4
  <2>2. n + 1 > 1 => trace'[c][n].next = on[c]
    BY <1>0, <1>5
  <2>. QED
    BY <1>0, <1>1, <1>2, <2>1, <2>2
<1>9. \A d \in Cpu : \A i \in DOMAIN trace'[d] : Good(d, i)
  <2> HIDE DEF Good
  <2>1. ASSUME NEW d \in Cpu, NEW i \in DOMAIN trace'[d], d # c PROVE Good(d, i)
    BY <1>1, <1>6, <2>1
  <2>2. ASSUME NEW i \in 1 .. n + 1 PROVE Good(c, i)
    BY <1>0, <1>7, <1>8
  <2>. QED
    BY <1>0, <2>1, <2>2
<1> HIDE DEF Good, new
<1>10. \A d \in Cpu : trace'[d] # <<>> => Last(trace'[d]).next = on'[d]
  BY <1>0, <1>1, <1>2 DEF Recorded
<1>11. \A d \in Cpu : Len(trace'[d]) < clock'
  <2>1. ASSUME NEW d \in Cpu, d # c PROVE Len(trace'[d]) < clock'
    BY <1>1, <1>3, <2>1
  <2>2. Len(trace'[c]) < clock'
    BY <1>0, <1>1, <1>3
  <2>. QED
    BY <2>1, <2>2
<1>. QED
  BY <1>1, <1>9, <1>10, <1>11 DEF Recorded, Good

(* The facts about a switch the next two lemmas rest on.                   *)
LEMMA SwitchTimes ==
  ASSUME MachineTypes, Recorded,
         NEW c \in Cpu, NEW x \in Task, NEW gap \in Gap, Switch(c, x, gap)
  PROVE  LET new == SwitchEvent(c, x, gap)
         IN /\ new.t = clock' /\ new.t \in Nat /\ new.prev = on[c] /\ new.next = x
            /\ \A y : \A e \in Grep(trace, y) : e.t \in Nat /\ e.t < new.t
            /\ \A d \in Cpu : \A i \in 1 .. Len(trace'[d]) :
                 trace'[d][i].t \in Nat /\ trace'[d][i].t <= new.t
<1>1. /\ clock \in Nat /\ clock' \in Nat /\ clock < clock' /\ clock' = clock + gap
      /\ trace' \in [Cpu -> Seq(Event)]
  BY SwitchFacts DEF MachineTypes
<1>2. SwitchEvent(c, x, gap).t = clock'
  BY <1>1 DEF SwitchEvent
<1>3. \A y : \A e \in Grep(trace, y) : e.t \in Nat /\ e.t < clock'
  BY <1>1, TraceTimes
<1>4. Recorded'
  BY RecordedSwitch
<1>5. ASSUME NEW d \in Cpu, NEW i \in 1 .. Len(trace'[d])
      PROVE  trace'[d][i].t \in Nat /\ trace'[d][i].t <= clock'
  <2>1. trace'[d] \in Seq(Event)
    BY <1>1
  <2>2. i \in DOMAIN trace'[d] /\ trace'[d][i] \in Event
    BY <2>1
  <2>. QED
    BY <1>4, <2>2, EventFields DEF Recorded
<1>. QED
  BY <1>1, <1>2, <1>3, <1>5 DEF SwitchEvent

(* Who runs where after a switch, and on a CPU without events.             *)
LEMMA SwitchOn ==
  ASSUME MachineTypes, NEW c \in Cpu, NEW x \in Task, NEW gap \in Gap, Switch(c, x, gap),
         NEW y
  PROVE  /\ (\E d \in Cpu : on'[d] = y) <=>
              y = x \/ (y # on[c] /\ \E d \in Cpu : on[d] = y)
         /\ Untouched(y)' => Untouched(y) /\ y \notin {on[c], x}
         /\ Untouched(y) => Untouched(y)' \/ RanBefore(y)'
         /\ RanBefore(y) => RanBefore(y)'
<1> DEFINE n == Len(trace[c])
           new == SwitchEvent(c, x, gap)
<1>1. /\ \A d \in Cpu \ {c} : trace'[d] = trace[d] /\ on'[d] = on[d] /\ on[d] # on[c]
      /\ \A d \in Cpu : on[d] # x
      /\ on'[c] = x
  BY SwitchFacts
<1>2. /\ n \in Nat /\ trace'[c] # <<>> /\ trace'[c][n + 1] = new
      /\ \A i \in 1 .. n : trace'[c][i] = trace[c][i]
  BY SwitchLog
<1>3. trace[c] \in Seq(Event)
  BY DEF MachineTypes
<1>4. trace[c] = <<>> => trace'[c][1].prev = on[c]
  BY <1>2, <1>3 DEF SwitchEvent
<1>5. trace[c] # <<>> => trace'[c][1] = trace[c][1]
  BY <1>2, <1>3
<1>. QED
  BY <1>1, <1>2, <1>4, <1>5 DEF Untouched, RanBefore

LEMMA OneCpuSwitch ==
  ASSUME MachineTypes, Recorded,
         NEW c \in Cpu, NEW x \in Task, NEW gap \in Gap, Switch(c, x, gap),
         NEW y, OneCpu(y)
  PROVE  OneCpu(y)'
<1> DEFINE n == Len(trace[c])
           new == SwitchEvent(c, x, gap)
           E == Grep(trace, y)
<1>0. /\ n \in Nat /\ trace'[c] # <<>> /\ Last(trace'[c]) = new
      /\ DOMAIN trace[c] = 1 .. n /\ DOMAIN trace'[c] = 1 .. n + 1
      /\ Len(trace'[c]) = n + 1 /\ trace'[c][n + 1] = new
      /\ \A i \in 1 .. n : trace'[c][i] = trace[c][i]
  BY SwitchLog
<1>1. /\ \A d \in Cpu \ {c} : trace'[d] = trace[d] /\ on'[d] = on[d] /\ on[d] # on[c]
      /\ \A d \in Cpu : on[d] # x
      /\ on'[c] = x
      /\ trace[c] \in Seq(Event)
  BY SwitchFacts DEF MachineTypes
<1>2. /\ new.t \in Nat
      /\ \A e \in E : e.t \in Nat /\ e.t < new.t
      /\ \A d \in Cpu : \A i \in 1 .. Len(trace'[d]) :
           trace'[d][i].t \in Nat /\ trace'[d][i].t <= new.t
  BY SwitchTimes
<1>3. /\ \A e \in Grep(trace', y) : e \in E \/ e = new
      /\ y \notin {on[c], x} => Grep(trace', y) = E
  BY SwitchGrep
<1>4. Untouched(y)' => Grep(trace', y) = {}
  BY <1>3, SwitchOn DEF OneCpu
<1>5. ASSUME NEW d \in Cpu, NEW e \in Grep(trace', y), on'[d] = y, trace'[d] # <<>>
      PROVE  e.t <= Last(trace'[d]).t
  <2>1. CASE d = c
    BY <1>0, <1>2, <1>3, <2>1
  <2>2. CASE d # c
    <3>1. on[d] = y /\ trace[d] # <<>> /\ e \in E
      BY <1>1, <1>3, <1>5, <2>2
    <3>. QED
      BY <1>1, <2>2, <3>1 DEF OneCpu
  <2>. QED
    BY <2>1, <2>2
<1>6. ASSUME NEW d \in Cpu, NEW e \in Grep(trace', y),
             NEW i \in 1 .. Len(trace'[d]) - 1, trace'[d][i].next = y
      PROVE  e.t <= trace'[d][i].t \/ e.t >= trace'[d][i + 1].t
  <2>0. Len(trace'[d]) \in Nat
    BY SwitchFacts
  <2>1. CASE e = new
    BY <1>2, <2>0, <2>1
  <2>2. CASE e \in E /\ d # c
    BY <1>1, <1>6, <2>2 DEF OneCpu
  <2>3. CASE e \in E /\ d = c /\ i < n
    <3>1. i \in 1 .. n - 1 /\ trace'[c][i] = trace[c][i] /\ trace'[c][i + 1] = trace[c][i + 1]
      BY <1>0, <2>0, <2>3
    <3>. QED
      BY <1>6, <2>3, <3>1 DEF OneCpu
  <2>4. CASE e \in E /\ d = c /\ i = n
    <3>1. trace'[c][n] = trace[c][n] /\ trace[c] # <<>> /\ Last(trace[c]) = trace[c][n]
      BY <1>0, <1>1, <2>4 DEF Last
    <3>2. on[c] = y
      BY <1>6, <2>4, <3>1 DEF Recorded
    <3>. QED
      BY <2>4, <3>1, <3>2 DEF OneCpu
  <2>. QED
    BY <1>0, <1>3, <2>0, <2>1, <2>2, <2>3, <2>4
<1>. QED
  BY <1>4, <1>5, <1>6 DEF OneCpu

LEMMA InTurnSwitch ==
  ASSUME MachineTypes, Recorded,
         NEW c \in Cpu, NEW x \in Task, NEW gap \in Gap, Switch(c, x, gap),
         NEW y, InTurn(y)
  PROVE  InTurn(y)'
<1> DEFINE new == SwitchEvent(c, x, gap)
           E == Grep(trace, y)
           F == Grep(trace', y)
<1>1. SUFFICES ASSUME ~RanBefore(y)', ~Untouched(y)'
               PROVE  /\ (\E d \in Cpu : on'[d] = y) <=> Cardinality(F) % 2 = 1
                      /\ \A e \in F : e.next = y <=> Line(F, e) % 2 = 1
  BY DEF InTurn
<1>2. /\ (\E d \in Cpu : on[d] = y) <=> Cardinality(E) % 2 = 1
      /\ \A e \in E : e.next = y <=> Line(E, e) % 2 = 1
  BY <1>1, SwitchOn DEF InTurn
<1>3. (\E d \in Cpu : on'[d] = y) <=> y = x \/ (y # on[c] /\ \E d \in Cpu : on[d] = y)
  BY SwitchOn
<1>4. on[c] # x /\ \A d \in Cpu : on[d] # x
  BY SwitchFacts
<1>5. IsFiniteSet(E)
  BY GrepFinite DEF MachineTypes
<1>6. new.t \in Nat /\ new.next = x /\ \A e \in E : e.t \in Nat /\ e.t < new.t
  BY SwitchTimes
<1>7. /\ Cardinality(E) \in Nat
      /\ Cardinality(E \cup {new}) = Cardinality(E) + 1
      /\ Line(E \cup {new}, new) = Cardinality(E) + 1
      /\ \A e \in E : Line(E \cup {new}, e) = Line(E, e)
  BY <1>5, <1>6, LineAdd
<1>8. F = E \cup (IF y \in {on[c], x} THEN {new} ELSE {})
  BY SwitchGrep
<1> HIDE DEF E, F, new
<1>9. CASE y \notin {on[c], x}
  <2>1. F = E
    BY <1>8, <1>9
  <2>. QED
    BY <1>2, <1>3, <1>9, <2>1
<1>10. CASE y \in {on[c], x}
  <2>1. F = E \cup {new}
    BY <1>8, <1>10
  <2>2. y = x <=> ~(\E d \in Cpu : on[d] = y)
    BY <1>4, <1>10
  <2>3. y = x <=> (Cardinality(E) + 1) % 2 = 1
    BY <1>2, <1>7, <2>2
  <2>4. (\E d \in Cpu : on'[d] = y) <=> y = x
    BY <1>3, <1>4, <1>10
  <2>5. \A e \in F : e.next = y <=> Line(F, e) % 2 = 1
    BY <1>2, <1>6, <1>7, <2>1, <2>3
  <2>. QED
    BY <1>7, <2>1, <2>3, <2>4, <2>5
<1>. QED
  BY <1>9, <1>10

(* What is recorded is in order, of one task or another.                   *)
LogsInv == LogOK(trace) /\ Recorded /\ \A x \in Task : OneCpu(x) /\ InTurn(x)

(* A trace that has just begun.                                            *)
LogsEmpty == clock \in Nat /\ 0 < clock /\ trace = [c \in Cpu |-> <<>>]

LEMMA EmptyLogs == LogsEmpty => LogsInv
<1> SUFFICES ASSUME LogsEmpty PROVE LogsInv
  OBVIOUS
<1>1. \A c \in Cpu : trace[c] = <<>> /\ Len(trace[c]) = 0 /\ DOMAIN trace[c] = {}
                     /\ ToSet(trace[c]) = {}
  BY DEF LogsEmpty, ToSet
<1>2. \A y : Grep(trace, y) = {}
  BY <1>1 DEF Grep
<1>3. LogOK(trace) /\ Recorded
  BY <1>1 DEF LogsEmpty, LogOK, Recorded
<1>4. ASSUME NEW y \in Task
      PROVE  OneCpu(y) /\ InTurn(y)
  <2>1. OneCpu(y)
    BY <1>1, <1>2 DEF OneCpu
  <2>2. InTurn(y)
    BY <1>1, <1>2, FS_EmptySet DEF InTurn, Untouched
  <2>. QED
    BY <2>1, <2>2
<1>. QED
  BY <1>3, <1>4 DEF LogsInv

LEMMA LogsFrame ==
  ASSUME LogsInv, UNCHANGED <<on, clock, trace>>
  PROVE  LogsInv'
<1>1. LogOK(trace') /\ Recorded'
  BY DEF LogsInv, LogOK, Recorded
<1>2. \A y \in Task : OneCpu(y)'
  BY DEF LogsInv, OneCpu, Untouched
<1>3. \A y \in Task : InTurn(y)'
  BY DEF LogsInv, InTurn, Untouched, RanBefore
<1>. QED
  BY <1>1, <1>2, <1>3 DEF LogsInv

LEMMA LogsSwitch ==
  ASSUME MachineTypes, LogsInv,
         NEW c \in Cpu, NEW x \in Task, NEW gap \in Gap, Switch(c, x, gap)
  PROVE  LogsInv'
<1>1. LogOK(trace') /\ Recorded'
  BY LogSwitch, RecordedSwitch DEF LogsInv
<1>2. ASSUME NEW y \in Task PROVE OneCpu(y)' /\ InTurn(y)'
  BY OneCpuSwitch, InTurnSwitch DEF LogsInv
<1>. QED
  BY <1>1, <1>2 DEF LogsInv

(* The files the script works on are those of a trace.                     *)
LEMMA CsvStep ==
  ASSUME TraceInv, Next
  PROVE  LogOK(csv)'
<1>1. CASE csv' = csv
  BY <1>1 DEF TraceInv, LogOK
<1>2. CASE csv' = trace
  BY <1>2 DEF TraceInv, LogOK
<1>3. csv' = csv \/ csv' = trace
  BY DEF Next, ParserStep, UserStep, files, TransToCsv, FindTasks, UniqTasks,
     StartSplit, SplitTask, CheckNFix, StartUsage, UsageTask, EndLoop, Merge,
     EndOfInput, NewTrace, StartAll, StartStage, StartGcu, Start, Interrupt, Switch
<1>. QED
  BY <1>1, <1>2, <1>3

(* What the kernel records, and what the script copies of it, at every     *)
(* moment: each task has one CPU at a time and gains and loses it in turn. *)
THEOREM TraceInvariance == Spec => []TraceInv
<1>1. Init => TraceInv
  <2> SUFFICES ASSUME Init PROVE TraceInv
    OBVIOUS
  <2>1. LogsEmpty
    BY DEF Init, LogsEmpty
  <2>2. LogsInv
    BY <2>1, EmptyLogs
  <2>3. LogOK(csv)
    <3>1. \A c \in Cpu : DOMAIN csv[c] = {}
      BY DEF Init
    <3>. QED
      BY <3>1 DEF LogOK
  <2>4. MachineTypes /\ ListTypes
    <3>1. [c \in Cpu |-> <<>>] \in [Cpu -> Seq(Event)]
      OBVIOUS
    <3>2. [c \in Cpu |-> {}] \in [Cpu -> SUBSET Task]
      OBVIOUS
    <3>. QED
      BY <3>1, <3>2 DEF Init, MachineTypes, ListTypes
  <2>5. FlagTypes /\ PertaskTypes /\ PeriodTypes
    BY NoColumns, EmptyDir DEF Init, FlagTypes, PertaskTypes, PeriodTypes
  <2>6. RunTypes
    BY DEF Init, RunTypes
  <2>. QED
    BY <2>2, <2>3, <2>4, <2>5, <2>6, TypeParts DEF TraceInv, LogsInv
<1>2. TraceInv /\ [Next]_vars => TraceInv'
  <2> SUFFICES ASSUME TraceInv, [Next]_vars PROVE TraceInv'
    OBVIOUS
  <2>0. EventTypeOK /\ MachineTypes /\ LogsInv
    BY TypeParts DEF TraceInv, LogsInv
  <2>1. CASE UNCHANGED vars
    <3>1. LogsInv'
      BY <2>0, <2>1, LogsFrame DEF vars, machineVars
    <3>2. EventTypeOK'
      BY <2>0, <2>1, TypeParts, TypePartsNext, TypeFrame
         DEF vars, machineVars, files, runVars
    <3>3. LogOK(csv)'
      BY <2>1 DEF vars, files, TraceInv, LogOK
    <3>. QED
      BY <3>1, <3>2, <3>3 DEF TraceInv, LogsInv
  <2>2. CASE Next
    <3>1. EventTypeOK'
      BY <2>2, EventTypeUser, EventTypeParser DEF Next, TraceInv
    <3>2. LogOK(csv)'
      BY <2>2, CsvStep
    <3>3. LogsInv'
      <4>1. ASSUME NEW c \in Cpu, NEW x \in Task, NEW gap \in Gap, Switch(c, x, gap)
            PROVE  LogsInv'
        BY <2>0, <4>1, LogsSwitch
      <4>2. CASE NewTrace
        <5>1. 0 < clock
          <6>1. PICK c : c \in Cpu
            BY FileListAssumption DEF Cpu, ToSet
          <6>2. Len(trace[c]) \in Nat /\ Len(trace[c]) < clock
            BY <2>0, <6>1 DEF MachineTypes, LogsInv, Recorded
          <6>. QED
            BY <2>0, <6>2 DEF MachineTypes
        <5>2. LogsEmpty'
          BY <2>0, <4>2, <5>1 DEF NewTrace, LogsEmpty, MachineTypes
        <5>. QED
          BY <5>2, EmptyLogs, PTL
      <4>3. CASE UNCHANGED <<on, clock, trace>>
        BY <2>0, <4>3, LogsFrame
      <4>. QED
        BY <2>2, <4>1, <4>2, <4>3
           DEF Next, ParserStep, UserStep, machineVars, TransToCsv, FindTasks,
               UniqTasks, StartSplit, SplitTask, CheckNFix, StartUsage, UsageTask,
               EndLoop, Merge, EndOfInput, StartAll, StartStage, StartGcu, Start,
               Interrupt
    <3>. QED
      BY <3>1, <3>2, <3>3 DEF TraceInv, LogsInv
  <2>. QED
    BY <2>1, <2>2
<1>. QED
  BY <1>1, <1>2, PTL DEF Spec

(* The script's files and variables keep their types, and no task has two  *)
(* CPUs.                                                                   *)
THEOREM EventTypeOKAlways == Spec => []EventTypeOK
<1>1. TraceInv => EventTypeOK
  BY DEF TraceInv
<1>. QED
  BY <1>1, TraceInvariance, PTL

-----------------------------------------------------------------------------
(* The periods of a task.                                                  *)

(* The file output/pertask/<x>, of a trace.                                *)
LEMMA SortedLog ==
  ASSUME TraceInv, NEW x
  PROVE  LET E == Grep(trace, x)
             s == EventsOf(trace, x)
             n == Cardinality(E)
         IN /\ s \in Seq(Event) /\ n \in Nat /\ Len(s) = n /\ DOMAIN s = 1 .. n
            /\ IsFiniteSet(E)
            /\ \A k \in 1 .. n : s[k] \in E /\ s[k].t \in Nat /\ Line(E, s[k]) = k
            /\ \A j, k \in 1 .. n : j < k => s[j].t < s[k].t
            /\ \A e \in E : e.t \in Nat /\ Line(E, e) \in 1 .. n /\ s[Line(E, e)] = e
            /\ \A d, e \in E : d.t < e.t => Line(E, d) < Line(E, e)
<1> DEFINE E == Grep(trace, x)
<1>1. trace \in [Cpu -> Seq(Event)] /\ LogOK(trace)
  BY TypeParts DEF TraceInv, MachineTypes
<1>2. /\ IsFiniteSet(E)
      /\ \A e \in E : e.t \in Nat
      /\ \A d, e \in E : d.t = e.t => d = e
  BY <1>1, GrepFinite, GrepTimes
<1>3. EventsOf(trace, x) \in Seq(Event) /\ Len(EventsOf(trace, x)) = Cardinality(E)
  BY <1>1, EventsOfType
<1> HIDE DEF E
<1>4. /\ Cardinality(E) \in Nat
      /\ \A e \in E : Line(E, e) \in 1 .. Cardinality(E)
      /\ \A d, e \in E : d.t < e.t => Line(E, d) < Line(E, e)
  BY <1>2, LineFacts
<1>5. /\ DOMAIN Sorted(E) = 1 .. Cardinality(E)
      /\ \A k \in 1 .. Cardinality(E) :
           Sorted(E)[k] \in E /\ Line(E, Sorted(E)[k]) = k
      /\ \A e \in E : Sorted(E)[Line(E, e)] = e
      /\ \A j, k \in 1 .. Cardinality(E) : j < k => Sorted(E)[j].t < Sorted(E)[k].t
  BY <1>2, SortedFacts
<1>6. EventsOf(trace, x) = Sorted(E)
  BY DEF EventsOf, E
<1>. QED
  BY <1>2, <1>3, <1>4, <1>5, <1>6 DEF E

(* A task that is on no untouched CPU still runs when a CPU is its own.    *)
LEMMA StillOn ==
  ASSUME TraceInv, NEW x, ~Untouched(x)
  PROVE  StillRuns(x) <=> \E c \in Cpu : on[c] = x
BY DEF TraceInv, Recorded, Untouched, StillRuns

(* The task gains a CPU on the odd lines, and loses it on the even ones.   *)
LEMMA TurnLines ==
  ASSUME TraceInv, NEW x \in Task, ~RanBefore(x), ~Untouched(x)
  PROVE  LET s == EventsOf(trace, x)
         IN /\ StillRuns(x) <=> Len(s) % 2 = 1
            /\ \A k \in DOMAIN s : s[k].next = x <=> k % 2 = 1
<1> DEFINE E == Grep(trace, x)
           s == EventsOf(trace, x)
<1>1. /\ (\E c \in Cpu : on[c] = x) <=> Cardinality(E) % 2 = 1
      /\ \A e \in E : e.next = x <=> Line(E, e) % 2 = 1
  BY DEF TraceInv, InTurn
<1>2. /\ Len(s) = Cardinality(E) /\ DOMAIN s = 1 .. Cardinality(E)
      /\ \A k \in 1 .. Cardinality(E) : s[k] \in E /\ Line(E, s[k]) = k
  BY SortedLog
<1>. QED
  BY <1>1, <1>2, StillOn

(* A run begins with an odd line, and ends with the next, which is the     *)
(* next event on its CPU.                                                  *)
LEMMA RunOfLines ==
  ASSUME TraceInv, NEW x \in Task, ~RanBefore(x), ~Untouched(x),
         NEW k \in Nat, 1 <= k, 2 * k <= Len(EventsOf(trace, x))
  PROVE  LET s == EventsOf(trace, x)
         IN \E c \in Cpu : \E i \in 1 .. Len(trace[c]) - 1 :
              trace[c][i] = s[2 * k - 1] /\ trace[c][i + 1] = s[2 * k]
<1> DEFINE E == Grep(trace, x)
           s == EventsOf(trace, x)
           n == Cardinality(E)
           a == s[2 * k - 1]
           b == s[2 * k]
<1>1. trace \in [Cpu -> Seq(Event)] /\ LogOK(trace) /\ Recorded /\ OneCpu(x)
  BY TypeParts DEF TraceInv, MachineTypes
<1>2. /\ n \in Nat /\ Len(s) = n /\ DOMAIN s = 1 .. n
      /\ \A j \in 1 .. n : s[j] \in E /\ s[j].t \in Nat /\ Line(E, s[j]) = j
      /\ \A i, j \in 1 .. n : i < j => s[i].t < s[j].t
      /\ \A e \in E : e.t \in Nat /\ Line(E, e) \in 1 .. n /\ s[Line(E, e)] = e
      /\ \A d, e \in E : d.t < e.t => Line(E, d) < Line(E, e)
  BY SortedLog
<1>3. 2 * k - 1 \in 1 .. n /\ 2 * k \in 1 .. n /\ (2 * k - 1) % 2 = 1
  BY <1>2
<1>4. /\ a \in E /\ b \in E /\ a.t \in Nat /\ b.t \in Nat /\ a.t < b.t
      /\ Line(E, a) = 2 * k - 1 /\ Line(E, b) = 2 * k
  BY <1>2, <1>3
<1>5. a.next = x
  BY <1>2, <1>3, TurnLines
<1>6. PICK c \in Cpu : \E i \in DOMAIN trace[c] : a = trace[c][i]
  BY <1>1, <1>4, GrepEvents
<1>7. PICK i \in DOMAIN trace[c] : a = trace[c][i]
  BY <1>6
<1>8. trace[c] \in Seq(Event) /\ i \in 1 .. Len(trace[c]) /\ trace[c] # <<>>
  BY <1>1
<1> HIDE DEF E, s, n, a, b
<1>9. i # Len(trace[c])
  <2>1. SUFFICES ASSUME i = Len(trace[c]) PROVE FALSE
    OBVIOUS
  <2>2. Last(trace[c]) = a
    BY <1>7, <2>1 DEF Last
  <2>3. on[c] = x
    BY <1>1, <1>5, <1>8, <2>2 DEF Recorded
  <2>4. b.t <= a.t
    BY <1>1, <1>4, <1>8, <2>2, <2>3 DEF OneCpu, E
  <2>. QED
    BY <1>4, <2>4
<1>10. i \in 1 .. Len(trace[c]) - 1 /\ i + 1 \in DOMAIN trace[c] /\ i + 1 > 1
  BY <1>8, <1>9
<1> DEFINE e == trace[c][i + 1]
<1>11. e.prev = x /\ a.t < e.t
  <2>1. i \in 1 .. (i + 1) - 1 /\ (i + 1) - 1 = i
    BY <1>8
  <2>. QED
    BY <1>1, <1>5, <1>7, <1>10, <2>1 DEF Recorded
<1>12. e \in E
  BY <1>1, <1>10, <1>11, GrepEvents DEF E
<1>13. b.t <= a.t \/ b.t >= e.t
  BY <1>1, <1>4, <1>5, <1>7, <1>10 DEF OneCpu, E
<1> HIDE DEF e
<1>14. e.t \in Nat /\ Line(E, e) \in 1 .. n /\ s[Line(E, e)] = e
  BY <1>2, <1>12
<1>15. Line(E, e) > 2 * k - 1
  BY <1>2, <1>4, <1>11, <1>12
<1>16. ~(Line(E, e) > 2 * k)
  <2>1. SUFFICES ASSUME 2 * k < Line(E, e) PROVE FALSE
    BY <1>14
  <2>2. b.t < s[Line(E, e)].t
    BY <1>2, <1>3, <1>14, <2>1 DEF b
  <2>. QED
    BY <1>4, <1>13, <1>14, <2>2
<1>17. Line(E, e) = 2 * k
  BY <1>14, <1>15, <1>16
<1>18. e = b
  BY <1>14, <1>17 DEF b
<1>. QED
  BY <1>7, <1>10, <1>18 DEF a, b, e, s

(* Each run has its line.                                                  *)
LEMMA LinesOfRun ==
  ASSUME TraceInv, NEW x \in Task, ~RanBefore(x), ~Untouched(x),
         NEW c \in Cpu, NEW i \in 1 .. Len(trace[c]) - 1, trace[c][i].next = x
  PROVE  LET s == EventsOf(trace, x)
         IN \E k \in Nat : /\ 1 <= k /\ 2 * k <= Len(s)
                           /\ trace[c][i] = s[2 * k - 1] /\ trace[c][i + 1] = s[2 * k]
<1> DEFINE E == Grep(trace, x)
           s == EventsOf(trace, x)
           n == Cardinality(E)
           a == trace[c][i]
           e == trace[c][i + 1]
<1>1. trace \in [Cpu -> Seq(Event)] /\ LogOK(trace) /\ Recorded
  BY TypeParts DEF TraceInv, MachineTypes
<1>2. /\ n \in Nat /\ Len(s) = n /\ DOMAIN s = 1 .. n
      /\ \A j \in 1 .. n : s[j] \in E /\ Line(E, s[j]) = j
      /\ \A d \in E : d.t \in Nat /\ Line(E, d) \in 1 .. n /\ s[Line(E, d)] = d
      /\ \A d, f \in E : d.t < f.t => Line(E, d) < Line(E, f)
  BY SortedLog
<1>3. \A k \in 1 .. n : s[k].next = x <=> k % 2 = 1
  BY <1>2, TurnLines
<1>4. trace[c] \in Seq(Event) /\ i \in DOMAIN trace[c] /\ i + 1 \in DOMAIN trace[c]
      /\ i + 1 > 1 /\ (i + 1) - 1 = i /\ i \in 1 .. (i + 1) - 1
  BY <1>1
<1>5. e.prev = x /\ e.prev # e.next /\ a.t < e.t
  BY <1>1, <1>4 DEF Recorded
<1>6. a \in E /\ e \in E
  BY <1>1, <1>4, <1>5, GrepEvents
<1> DEFINE l == Line(E, a)
           m == Line(E, e)
<1> HIDE DEF E, s, n, a, e
<1>7. l \in 1 .. n /\ m \in 1 .. n /\ l < m /\ s[l] = a
  BY <1>2, <1>5, <1>6
<1>8. l % 2 = 1
  BY <1>3, <1>7 DEF a
<1> HIDE DEF l, m
<1>9. PICK k \in Nat : 1 <= k /\ l = 2 * k - 1
  <2>1. l = 2 * ((l + 1) \div 2) - 1 /\ (l + 1) \div 2 \in Nat /\ 1 <= (l + 1) \div 2
    BY <1>2, <1>7, <1>8
  <2>. QED
    BY <2>1
<1>10. 2 * k <= Len(s)
  BY <1>2, <1>7, <1>9
<1>11. PICK d \in Cpu : \E j \in 1 .. Len(trace[d]) - 1 :
         trace[d][j] = s[2 * k - 1] /\ trace[d][j + 1] = s[2 * k]
  BY <1>9, <1>10, RunOfLines DEF s
<1>12. PICK j \in 1 .. Len(trace[d]) - 1 :
         trace[d][j] = s[2 * k - 1] /\ trace[d][j + 1] = s[2 * k]
  BY <1>11
<1>13. trace[d][j] = trace[c][i]
  BY <1>7, <1>9, <1>12 DEF a
<1>14. j \in DOMAIN trace[d]
  BY <1>1
<1>15. d = c /\ j = i
  BY <1>1, <1>4, <1>13, <1>14 DEF LogOK
<1>. QED
  BY <1>9, <1>10, <1>12, <1>15 DEF s

(* The lines that are complete are as many as the runs, length by length.  *)
LEMMA RunsCounted ==
  ASSUME TraceInv, NEW x \in Task, ~RanBefore(x), ~Untouched(x), NEW d
  PROVE  LET s == EventsOf(trace, x)
             K == {k \in 1 .. Len(s) : 2 * k <= Len(s) /\ s[2 * k].t - s[2 * k - 1].t = d}
         IN Cardinality(K) = Cardinality(RunsOf(x, d))
<1> DEFINE s == EventsOf(trace, x)
           n == Len(s)
           K == {k \in 1 .. n : 2 * k <= n /\ s[2 * k].t - s[2 * k - 1].t = d}
           R == RunsOf(x, d)
           Starts(r, k) == /\ r[2] < Len(trace[r[1]])
                           /\ trace[r[1]][r[2]] = s[2 * k - 1]
                           /\ trace[r[1]][r[2] + 1] = s[2 * k]
           f == [k \in K |-> CHOOSE r \in R : Starts(r, k)]
<1>1. trace \in [Cpu -> Seq(Event)] /\ LogOK(trace) /\ Recorded /\ MaxTime \in Nat
      /\ clock \in Nat
  BY TypeParts, EventBoundAssumption DEF TraceInv, MachineTypes
<1>2. /\ n \in Nat /\ DOMAIN s = 1 .. n
      /\ \A j, k \in 1 .. n : j < k => s[j].t < s[k].t
      /\ \A k \in 1 .. n : s[k].t \in Nat
  BY SortedLog
<1>3. \A k \in 1 .. n : s[k].next = x <=> k % 2 = 1
  BY <1>2, TurnLines
<1>4. \A c \in Cpu : \A i \in 1 .. Len(trace[c]) - 1 :
        /\ i \in 1 .. MaxTime /\ i < Len(trace[c])
        /\ i \in DOMAIN trace[c]
  <2>1. SUFFICES ASSUME NEW c \in Cpu, NEW i \in 1 .. Len(trace[c]) - 1
                 PROVE  /\ i \in 1 .. MaxTime /\ i < Len(trace[c])
                        /\ i \in DOMAIN trace[c]
    OBVIOUS
  <2>2. trace[c] \in Seq(Event) /\ Len(trace[c]) \in Nat /\ trace[c] # <<>>
    BY <1>1
  <2>3. Len(trace[c]) < clock /\ clock <= MaxTime
    BY <1>1, <2>2 DEF Recorded
  <2>. QED
    BY <1>1, <2>2, <2>3
<1>5. ASSUME NEW k \in K
      PROVE  \E r \in R : Starts(r, k)
  <2>1. k \in Nat /\ 1 <= k /\ 2 * k <= n
    BY <1>2
  <2>2. PICK c \in Cpu : \E i \in 1 .. Len(trace[c]) - 1 :
          trace[c][i] = s[2 * k - 1] /\ trace[c][i + 1] = s[2 * k]
    BY <2>1, RunOfLines
  <2>3. PICK i \in 1 .. Len(trace[c]) - 1 :
          trace[c][i] = s[2 * k - 1] /\ trace[c][i + 1] = s[2 * k]
    BY <2>2
  <2>4. s[2 * k - 1].next = x
    <3>1. 2 * k - 1 \in 1 .. n /\ (2 * k - 1) % 2 = 1
      BY <1>2, <2>1
    <3>. QED
      BY <1>3, <3>1
  <2>5. s[2 * k].t - s[2 * k - 1].t = d
    OBVIOUS
  <2> HIDE DEF s, n, K
  <2>6. <<c, i>> \in R
    BY <1>4, <2>3, <2>4, <2>5 DEF RunsOf
  <2>7. Starts(<<c, i>>, k)
    BY <1>4, <2>3
  <2>. QED
    BY <2>6, <2>7
<1>6. \A r \in R : /\ r[1] \in Cpu /\ r[2] \in 1 .. Len(trace[r[1]]) - 1
                   /\ r = <<r[1], r[2]>> /\ trace[r[1]][r[2]].next = x
                   /\ trace[r[1]][r[2] + 1].t - trace[r[1]][r[2]].t = d
  <2>1. SUFFICES ASSUME NEW r \in R
                 PROVE  /\ r[1] \in Cpu /\ r[2] \in 1 .. Len(trace[r[1]]) - 1
                        /\ r = <<r[1], r[2]>> /\ trace[r[1]][r[2]].next = x
                        /\ trace[r[1]][r[2] + 1].t - trace[r[1]][r[2]].t = d
    OBVIOUS
  <2>2. /\ r \in Cpu \X (1 .. MaxTime) /\ r[2] < Len(trace[r[1]])
        /\ trace[r[1]][r[2]].next = x
        /\ trace[r[1]][r[2] + 1].t - trace[r[1]][r[2]].t = d
    BY DEF RunsOf
  <2>3. r[1] \in Cpu /\ r[2] \in 1 .. MaxTime /\ r = <<r[1], r[2]>>
    BY <2>2
  <2>4. trace[r[1]] \in Seq(Event)
    BY <1>1, <2>3
  <2>. QED
    BY <1>1, <2>2, <2>3, <2>4
<1>7. \A k \in K : f[k] \in R /\ Starts(f[k], k)
  BY <1>5
<1>8. ASSUME NEW j \in K, NEW k \in K, f[j] = f[k]
      PROVE  j = k
  <2>1. s[2 * j - 1] = s[2 * k - 1]
    BY <1>7, <1>8
  <2>2. 2 * j - 1 \in 1 .. n /\ 2 * k - 1 \in 1 .. n
    BY <1>2
  <2>3. s[2 * j - 1].t \in Nat /\ s[2 * k - 1].t \in Nat
    BY <1>2, <2>2
  <2>4. ~(2 * j - 1 < 2 * k - 1) /\ ~(2 * k - 1 < 2 * j - 1)
    BY <1>2, <2>1, <2>2, <2>3
  <2>. QED
    BY <1>2, <2>4
<1>9. ASSUME NEW r \in R
      PROVE  \E k \in K : f[k] = r
  <2>1. /\ r[1] \in Cpu /\ r[2] \in 1 .. Len(trace[r[1]]) - 1
        /\ trace[r[1]][r[2]].next = x
        /\ trace[r[1]][r[2] + 1].t - trace[r[1]][r[2]].t = d
    BY <1>6
  <2>2. PICK k \in Nat : /\ 1 <= k /\ 2 * k <= n
                         /\ trace[r[1]][r[2]] = s[2 * k - 1]
                         /\ trace[r[1]][r[2] + 1] = s[2 * k]
    BY <2>1, LinesOfRun
  <2>3. k \in K
    BY <1>2, <2>1, <2>2
  <2> DEFINE q == f[k]
  <2>4. q \in R /\ trace[q[1]][q[2]] = s[2 * k - 1]
    BY <1>7, <2>3
  <2>5. /\ q[1] \in Cpu /\ q[2] \in 1 .. Len(trace[q[1]]) - 1
        /\ q = <<q[1], q[2]>> /\ r = <<r[1], r[2]>>
    BY <1>6, <2>4
  <2> HIDE DEF q
  <2>6. q[2] \in DOMAIN trace[q[1]] /\ r[2] \in DOMAIN trace[r[1]]
    BY <1>4, <2>1, <2>5
  <2>7. q[1] = r[1] /\ q[2] = r[2]
    <3>1. trace[q[1]][q[2]].t = trace[r[1]][r[2]].t
      BY <2>2, <2>4
    <3>. QED
      BY <1>1, <2>1, <2>5, <2>6, <3>1 DEF LogOK
  <2>. QED
    BY <2>3, <2>5, <2>7 DEF q
<1> HIDE DEF R, Starts
<1>10. f \in [K -> R]
  BY <1>7
<1>11. f \in Bijection(K, R)
  BY <1>8, <1>9, <1>10 DEF Bijection, Injection, Surjection, IsInjective
<1>12. IsFiniteSet(K)
  <2>1. IsFiniteSet(1 .. n) /\ K \in SUBSET (1 .. n)
    BY <1>2, FS_Interval
  <2>. QED
    BY <2>1, FS_Subset
<1> HIDE DEF f, K
<1>13. ExistsBijection(K, R)
  BY <1>11 DEF ExistsBijection
<1>14. Cardinality(R) = Cardinality(K)
  BY <1>12, <1>13, FS_Bijection
<1>. QED
  BY <1>14 DEF R, K, n, s

(* The column of a task, by the lines it is made of.                       *)
LEMMA PeriodsFacts ==
  ASSUME NEW s \in Seq(Event)
  PROVE  LET p == Periods(s)
             m == (Len(s) + 1) \div 2
         IN /\ m \in Nat /\ Len(p) = m /\ DOMAIN p = 1 .. m
            /\ \A k \in 1 .. m : 2 * k <= Len(s) => p[k] = s[2 * k].t - s[2 * k - 1].t
            /\ Len(s) % 2 = 1 => p[m] = 0 - s[Len(s)].t
<1> DEFINE time(i) == IF i \in DOMAIN s THEN s[i].t ELSE 0
           m == (Len(s) + 1) \div 2
<1>1. Len(s) \in Nat /\ DOMAIN s = 1 .. Len(s) /\ m \in Nat
  OBVIOUS
<1>2. Periods(s) = [k \in 1 .. m |-> time(2 * k) - time(2 * k - 1)]
  BY DEF Periods
<1>3. Len(Periods(s)) = m
  BY PeriodsType
<1>4. ASSUME NEW k \in 1 .. m, 2 * k <= Len(s)
      PROVE  time(2 * k) = s[2 * k].t /\ time(2 * k - 1) = s[2 * k - 1].t
  BY <1>1, <1>4
<1>5. ASSUME Len(s) % 2 = 1
      PROVE  /\ m \in 1 .. m /\ 2 * m - 1 = Len(s)
             /\ time(2 * m) = 0 /\ time(2 * m - 1) = s[Len(s)].t
  <2>1. m \in 1 .. m /\ 2 * m - 1 = Len(s)
    BY <1>1, <1>5
  <2>2. 2 * m \notin DOMAIN s /\ 2 * m - 1 \in DOMAIN s
    BY <1>1, <2>1
  <2>. QED
    BY <2>1, <2>2
<1> HIDE DEF time, m
<1>6. DOMAIN Periods(s) = 1 .. m
  BY <1>2
<1>7. \A k \in 1 .. m : Periods(s)[k] = time(2 * k) - time(2 * k - 1)
  BY <1>2
<1>. QED
  BY <1>1, <1>3, <1>4, <1>5, <1>6, <1>7 DEF m

LEMMA PeriodsMatch ==
  ASSUME TraceInv, NEW x \in Task, ~RanBefore(x), NEW d, NEW p,
         p = Periods(EventsOf(trace, x))
  PROVE  LET complete == {k \in DOMAIN p : k < Len(p) \/ ~StillRuns(x)}
         IN Cardinality({k \in complete : p[k] = d}) = Cardinality(RunsOf(x, d))
<1> DEFINE s == EventsOf(trace, x)
           n == Len(s)
           m == (n + 1) \div 2
           C == {k \in DOMAIN p : k < Len(p) \/ ~StillRuns(x)}
<1>1. /\ s \in Seq(Event) /\ n \in Nat /\ n = Cardinality(Grep(trace, x))
      /\ IsFiniteSet(Grep(trace, x))
  BY SortedLog
<1>2. /\ m \in Nat /\ Len(p) = m /\ DOMAIN p = 1 .. m
      /\ \A k \in 1 .. m : 2 * k <= n => p[k] = s[2 * k].t - s[2 * k - 1].t
  BY <1>1, PeriodsFacts
<1>3. CASE Untouched(x)
  <2>1. Grep(trace, x) = {}
    BY <1>3 DEF TraceInv, OneCpu
  <2>2. n = 0
    BY <1>1, <2>1, FS_EmptySet
  <2>3. {k \in C : p[k] = d} = {}
    BY <1>2, <2>2
  <2>4. RunsOf(x, d) = {}
    <3>1. trace \in [Cpu -> Seq(Event)] /\ MaxTime \in Nat
      BY TypeParts, EventBoundAssumption DEF TraceInv, MachineTypes
    <3>2. ASSUME NEW c \in Cpu, NEW i \in 1 .. MaxTime, i < Len(trace[c]), trace[c][i].next = x
          PROVE  FALSE
      <4>1. trace[c] \in Seq(Event)
        BY <3>1
      <4>2. i \in DOMAIN trace[c]
        BY <3>1, <3>2, <4>1
      <4>. QED
        BY <2>1, <3>1, <3>2, <4>2, GrepEvents
    <3>. QED
      BY <3>2 DEF RunsOf
  <2>. QED
    BY <2>3, <2>4, Zenon
<1>4. CASE ~Untouched(x)
  <2> DEFINE K == {k \in 1 .. n : 2 * k <= n /\ s[2 * k].t - s[2 * k - 1].t = d}
  <2>1. StillRuns(x) <=> n % 2 = 1
    BY <1>4, TurnLines
  <2>2. Cardinality(K) = Cardinality(RunsOf(x, d))
    BY <1>4, RunsCounted
  <2> HIDE DEF n, s
  <2>3. \A k \in 1 .. m : (k < m \/ ~StillRuns(x)) <=> 2 * k <= n
    BY <1>1, <2>1
  <2>4. ASSUME NEW k
        PROVE  (k \in C /\ p[k] = d) <=> k \in K
    <3>1. k \in C <=> k \in 1 .. m /\ 2 * k <= n
      BY <1>2, <2>3
    <3>2. k \in 1 .. m /\ 2 * k <= n <=> k \in 1 .. n /\ 2 * k <= n
      BY <1>1
    <3>. QED
      BY <1>2, <3>1, <3>2
  <2>5. {k \in C : p[k] = d} = K
    BY <2>4
  <2>. QED
    BY <2>2, <2>5
<1>. QED
  BY <1>3, <1>4

(* For a task without a CPU when the trace begins, the column has the      *)
(* length of each of its runs, as often as there are runs of that length,  *)
(* on whatever CPUs they were.                                             *)
THEOREM PeriodsAreRunsAlways == Spec => []PeriodsAreRuns
<1>1. FreshInv /\ TraceInv => PeriodsAreRuns
  <2>1. SUFFICES ASSUME FreshInv, TraceInv, AllDone, NEW x \in DOMAIN tot,
                        ~RanBefore(x), NEW d
                 PROVE  LET complete == {k \in DOMAIN tot[x] :
                                           k < Len(tot[x]) \/ ~StillRuns(x)}
                        IN Cardinality({k \in complete : tot[x][k] = d}) =
                             Cardinality(RunsOf(x, d))
    BY DEF PeriodsAreRuns
  <2>2. tot[x] = Periods(EventsOf(trace, x))
    BY <2>1 DEF FreshInv, FreshStage, Right, AllDone
  <2>3. x \in Task
    BY <2>1, TypeParts DEF TraceInv, PeriodTypes, Columns
  <2>. QED
    BY <2>1, <2>2, <2>3, PeriodsMatch
<1>. QED
  BY <1>1, FreshInvariance, TraceInvariance, PTL

-----------------------------------------------------------------------------
(* The tasks a run of all the stages takes.                                *)

LEMMA MinTwo ==
  ASSUME NEW a \in Nat, NEW b \in Nat
  PROVE  Min({a, b}) = IF a <= b THEN a ELSE b
BY DEF Min

(* `head` takes everything when there is no more, and else it takes files  *)
(* with something in them first.                                           *)
LEMMA HeadsTake ==
  ASSUME NEW n \in Nat, NEW withDir \in BOOLEAN, NEW S \in Heads(n, withDir),
         IsFiniteSet(DOMAIN pertask)
  PROVE  LET Names == DOMAIN pertask \cup (IF withDir THEN {Dir} ELSE {})
             Empty(x) == x # Dir /\ pertask[x] = <<>>
         IN /\ S \subseteq Names /\ IsFiniteSet(Names)
            /\ Cardinality(Names) <= n => S = Names
            /\ Cardinality(Names) > n => Cardinality(S) = n
            /\ \A x \in S, y \in Names \ S : Empty(x) => Empty(y)
<1> DEFINE Names == DOMAIN pertask \cup (IF withDir THEN {Dir} ELSE {})
           Empty(x) == x # Dir /\ pertask[x] = <<>>
<1>1. IsFiniteSet(Names)
  <2>1. IsFiniteSet(DOMAIN pertask \cup {Dir})
    BY FS_AddElement
  <2>2. Names \in SUBSET (DOMAIN pertask \cup {Dir})
    OBVIOUS
  <2>. QED
    BY <2>1, <2>2, FS_Subset
<1>2. Cardinality(Names) \in Nat
  BY <1>1, FS_CardinalityType
<1>3. /\ S \in kSubset(Min({n, Cardinality(Names)}), Names)
      /\ \A x \in S, y \in Names \ S : Empty(x) => Empty(y)
  BY DEF Heads
<1> HIDE DEF Names, Empty
<1>4. S \in SUBSET Names /\ Cardinality(S) = IF n <= Cardinality(Names) THEN n
                                             ELSE Cardinality(Names)
  BY <1>2, <1>3, MinTwo DEF kSubset
<1>5. Cardinality(Names) <= n => S = Names
  BY <1>1, <1>2, <1>4, FS_Subset
<1>. QED
  BY <1>1, <1>2, <1>3, <1>4, <1>5 DEF Names, Empty

(* A task's column is empty when no event is of it.                        *)
LEMMA NoEventsNoPeriods ==
  ASSUME TraceInv, NEW x
  PROVE  /\ EventsOf(trace, x) = <<>> <=> Grep(trace, x) = {}
         /\ Periods(EventsOf(trace, x)) = <<>> <=> Grep(trace, x) = {}
<1> DEFINE s == EventsOf(trace, x)
           E == Grep(trace, x)
<1>1. s \in Seq(Event) /\ Len(s) = Cardinality(E) /\ Cardinality(E) \in Nat /\ IsFiniteSet(E)
  BY SortedLog
<1>2. Cardinality(E) = 0 <=> E = {}
  BY <1>1, FS_EmptySet
<1>3. Periods(s) \in Seq(Int) /\ Len(Periods(s)) = (Len(s) + 1) \div 2
  BY <1>1, PeriodsType
<1> HIDE DEF s, E
<1>4. s = <<>> <=> Len(s) = 0
  BY <1>1
<1>5. Periods(s) = <<>> <=> Len(Periods(s)) = 0
  BY <1>3
<1>. QED
  BY <1>1, <1>2, <1>3, <1>4, <1>5 DEF s, E

(* The lists of tasks are finite.                                          *)
LEMMA ListsFinite ==
  ASSUME EventTypeOK
  PROVE  /\ \A S \in SUBSET Task : IsFiniteSet(S) /\ Cardinality(S) \in Nat
         /\ tasklist \in SUBSET Task /\ DOMAIN pertask \in SUBSET Task
         /\ Dir \notin Task
<1>1. \A S \in SUBSET Task : IsFiniteSet(S) /\ Cardinality(S) \in Nat
  BY TaskAssumption, FS_Subset, FS_CardinalityType
<1>. QED
  BY <1>1, TypeParts, NameAssumption DEF ListTypes, PertaskTypes

(* Among the heads are all the tasks with events, or Total - 1 of them.    *)
LEMMA HeadsCounted ==
  ASSUME TraceInv, DOMAIN pertask = tasklist,
         \A x \in DOMAIN pertask : pertask[x] = EventsOf(trace, x),
         NEW S \in Heads(Total, TRUE)
  PROVE  Counted((S \ {Dir}) \cap Seen)
<1> DEFINE T == Cardinality(tasklist)
           W == S \ {Dir}
<1>1. /\ \A R \in SUBSET Task : IsFiniteSet(R) /\ Cardinality(R) \in Nat
      /\ tasklist \in SUBSET Task /\ Dir \notin tasklist
  BY ListsFinite DEF TraceInv
<1>2. Total \in Nat /\ Total > 1 /\ T \in Nat /\ Seen \subseteq tasklist
  BY <1>1, HeadAssumption DEF Seen
<1>3. Cardinality(tasklist \cup {Dir}) = T + 1 /\ IsFiniteSet(tasklist)
  BY <1>1, FS_AddElement
<1>4. /\ S \subseteq tasklist \cup {Dir}
      /\ T + 1 <= Total => S = tasklist \cup {Dir}
      /\ T + 1 > Total => Cardinality(S) = Total
      /\ \A x \in S, y \in (tasklist \cup {Dir}) \ S :
           x # Dir /\ pertask[x] = <<>> => y # Dir /\ pertask[y] = <<>>
  <2> DEFINE N == tasklist \cup {Dir}
  <2>1. /\ S \subseteq N
        /\ Cardinality(N) <= Total => S = N
        /\ Cardinality(N) > Total => Cardinality(S) = Total
        /\ \A x \in S, y \in N \ S :
             x # Dir /\ pertask[x] = <<>> => y # Dir /\ pertask[y] = <<>>
    BY <1>2, <1>3, HeadsTake
  <2>. QED
    BY <1>3, <2>1
<1>5. \A x \in tasklist : pertask[x] = <<>> <=> x \notin Seen
  BY NoEventsNoPeriods DEF Seen
<1> HIDE DEF T
<1>6. T < Total => W \cap Seen = Seen
  BY <1>1, <1>2, <1>4
<1>7. ASSUME T >= Total, W \cap Seen # Seen
      PROVE  Cardinality(W \cap Seen) >= Total - 1
  <2>1. PICK y \in Seen : y \notin S
    BY <1>1, <1>2, <1>7
  <2>2. \A x \in W : x \in Seen
    <3>1. SUFFICES ASSUME NEW x \in W, x \notin Seen PROVE FALSE
      OBVIOUS
    <3>2. x \in tasklist /\ x \in S /\ x # Dir
      BY <1>4
    <3>3. pertask[x] = <<>>
      BY <1>5, <3>1, <3>2
    <3>4. y \in (tasklist \cup {Dir}) \ S /\ y \in tasklist
      BY <1>2, <2>1
    <3>5. pertask[y] = <<>>
      BY <1>4, <3>2, <3>3, <3>4
    <3>. QED
      BY <1>5, <2>1, <3>4, <3>5
  <2>3. W \cap Seen = W
    BY <2>2
  <2>4. Cardinality(S) = Total
    BY <1>2, <1>4, <1>7
  <2>5. IsFiniteSet(S)
    <3>1. IsFiniteSet(tasklist \cup {Dir})
      BY <1>3, FS_AddElement
    <3>. QED
      BY <1>4, <3>1, FS_Subset
  <2>6. Cardinality(W) >= Total - 1
    <3>1. Cardinality(W) = IF Dir \in S THEN Cardinality(S) - 1 ELSE Cardinality(S)
      BY <2>5, FS_RemoveElement
    <3>. QED
      BY <1>2, <2>4, <3>1
  <2>. QED
    BY <2>3, <2>6
<1> HIDE DEF W
<1>8. T < Total \/ T >= Total
  BY <1>2
<1>9. W \cap Seen = Seen \/ Cardinality(W \cap Seen) >= Total - 1
  BY <1>6, <1>7, <1>8
<1>. QED
  BY <1>6, <1>9 DEF Counted, T, W

(* check_n_fix sees all the files when there are no more than it takes.    *)
LEMMA HeadsChecked ==
  ASSUME TraceInv, DOMAIN pertask = tasklist, ~hasElapsed,
         \A x \in DOMAIN pertask : pertask[x] = EventsOf(trace, x),
         NEW S \in Heads(CheckNr, hasElapsed), Cardinality(tasklist) <= CheckNr
  PROVE  {x \in S \ {Dir} : Len(pertask[x]) % 2 # 0} =
           {x \in tasklist : Cardinality(Grep(trace, x)) % 2 # 0}
<1>1. IsFiniteSet(tasklist) /\ Dir \notin tasklist
  BY ListsFinite DEF TraceInv
<1>2. hasElapsed \in BOOLEAN
  BY TypeParts, Zenon DEF TraceInv, FlagTypes
<1>3. S = tasklist
  <2>1. DOMAIN pertask \cup (IF hasElapsed THEN {Dir} ELSE {}) = tasklist
    OBVIOUS
  <2>2. CheckNr \in Nat
    BY HeadAssumption
  <2>. QED
    BY <1>1, <1>2, <2>1, <2>2, HeadsTake
<1>4. \A x \in tasklist : Len(pertask[x]) = Cardinality(Grep(trace, x))
  BY SortedLog
<1>. QED
  BY <1>1, <1>3, <1>4

(* The user's steps: a run of all the stages begins, or ends with the      *)
(* terminal's end of input.                                                *)
LEMMA NamesUser ==
  ASSUME NamesInv, UserStep, mode' = "all"
  PROVE  NamesStage'
<1>1. ASSUME NEW c \in Cpu, NEW x \in Task, NEW gap \in Gap, Switch(c, x, gap)
      PROVE  FALSE
  BY <1>1 DEF NamesInv, FreshInv, RunFlow, Switch, runVars
<1>2. CASE NewTrace \/ StartStage \/ StartGcu \/ Interrupt
  BY <1>2 DEF NewTrace, StartStage, StartGcu, Start, Interrupt, Stage
<1>3. CASE StartAll
  <2>1. stage' = "csv"
    BY <1>3 DEF StartAll, Start
  <2>. QED
    BY <2>1 DEF NamesStage
<1>4. CASE EndOfInput
  <2>1. /\ mode = "all" /\ stage = "reading" /\ stage' = "none"
        /\ trace' = trace /\ tasklist' = tasklist /\ tot' = tot /\ odd' = odd
    BY <1>4 DEF EndOfInput, Done, After, machineVars, files, runOpts
  <2>2. Seen' = Seen /\ Away' = Away /\ \A x : Grep(trace', x) = Grep(trace, x)
    BY <2>1 DEF Seen, Away, Events
  <2>3. Counted(DOMAIN tot)'
    BY <2>1, <2>2 DEF NamesInv, NamesStage, Counted
  <2>. QED
    BY <2>1, <2>2, <2>3 DEF NamesInv, NamesStage
<1>. QED
  BY <1>1, <1>2, <1>3, <1>4 DEF UserStep

(* The script's steps.                                                     *)
LEMMA NamesParser ==
  ASSUME NamesInv, TraceInv, ParserStep, mode' = "all"
  PROVE  NamesStage'
<1>0. /\ mode = "all" /\ FreshStage /\ NamesStage
      /\ trace' = trace /\ hasElapsed \in BOOLEAN
  <2>1. mode' = mode /\ trace' = trace
    BY DEF ParserStep, TransToCsv, FindTasks, UniqTasks, StartSplit, SplitTask,
       CheckNFix, StartUsage, UsageTask, EndLoop, Merge, machineVars, runOpts
  <2>2. hasElapsed \in BOOLEAN
    BY TypeParts, Zenon DEF TraceInv, FlagTypes
  <2>. QED
    BY <2>1, <2>2 DEF NamesInv, FreshInv
<1>1. Away' = Away /\ Events' = Events /\ \A x : Grep(trace', x) = Grep(trace, x)
  BY <1>0 DEF Away, Events
<1>2. tasklist' = tasklist => Seen' = Seen
  BY <1>0 DEF Seen
<1>3. CASE TransToCsv
  <2>1. stage' = "tasklist"
    BY <1>0, <1>3 DEF TransToCsv, Done, After
  <2>. QED
    BY <2>1 DEF NamesStage
<1>4. CASE FindTasks
  <2>1. /\ stage' = "tasklist_uniq" /\ stage = "tasklist"
        /\ \A c \in Cpu : cpulist'[c] = cpulist[c] \cup {e.prev : e \in ToSet(csv[c])}
    BY <1>0, <1>4 DEF FindTasks, Done, After
  <2>2. csv = trace
    BY <1>0, <2>1 DEF FreshStage
  <2>3. \A c \in Cpu : {e.prev : e \in ToSet(trace'[c])} \subseteq cpulist'[c]
    BY <1>0, <2>1, <2>2
  <2>. QED
    BY <2>1, <2>3 DEF NamesStage
<1>5. CASE UniqTasks
  <2>1. /\ stage' = "split_event" /\ stage = "tasklist_uniq"
        /\ tasklist' = tasklist \cup UNION {cpulist[c] : c \in Cpu}
    BY <1>0, <1>5 DEF UniqTasks, Done, After
  <2>2. \A c \in Cpu : {e.prev : e \in ToSet(trace[c])} \subseteq cpulist[c]
    BY <1>0, <2>1 DEF NamesStage
  <2>3. Away \subseteq tasklist'
    BY <2>1, <2>2 DEF Away, Events
  <2>. QED
    BY <1>1, <2>1, <2>3 DEF NamesStage
<1>6. CASE StartSplit
  <2>1. /\ stage' = "splitting" /\ stage = "split_event"
        /\ tasklist' = tasklist /\ work' = tasklist /\ DOMAIN pertask' = {}
        /\ hasElapsed' = FALSE
    BY <1>6, EmptyDir DEF StartSplit, Loop
  <2>. QED
    BY <1>0, <1>1, <2>1 DEF NamesStage
<1>7. ASSUME NEW x \in Task, SplitTask(x)
      PROVE  NamesStage'
  <2>1. /\ stage' = "splitting" /\ stage = "splitting" /\ x \in work
        /\ tasklist' = tasklist /\ work' = work \ {x}
        /\ DOMAIN pertask' = DOMAIN pertask \cup {x}
        /\ hasElapsed' = hasElapsed
    BY <1>7 DEF SplitTask, Put
  <2>. QED
    BY <1>0, <1>1, <2>1 DEF NamesStage
<1>8. CASE CheckNFix
  <2>1. /\ stage' = "get_cpuusage" /\ stage = "check_n_fix"
        /\ tasklist' = tasklist /\ pertask' = pertask
    BY <1>0, <1>8 DEF CheckNFix, Done, After, files
  <2>2. /\ DOMAIN pertask = tasklist /\ ~hasElapsed
        /\ \A x \in DOMAIN pertask : pertask[x] = EventsOf(trace, x)
    BY <1>0, <2>1 DEF NamesStage, FreshStage
  <2>3. PICK S \in Heads(CheckNr, hasElapsed) :
          odd' = {x \in S \ {Dir} : Len(pertask[x]) % 2 # 0}
    BY <1>8 DEF CheckNFix
  <2>4. Cardinality(tasklist) <= CheckNr =>
          odd' = {x \in tasklist : Cardinality(Grep(trace, x)) % 2 # 0}
    BY <2>2, <2>3, HeadsChecked
  <2>. QED
    BY <1>0, <1>1, <2>1, <2>2, <2>4 DEF NamesStage
<1>9. CASE StartUsage
  <2>1. PICK S \in Heads(Total, TRUE) : Loop("counting", S \ {Dir})
    BY <1>9 DEF StartUsage
  <2>2. /\ stage' = "counting" /\ stage = "get_cpuusage" /\ work' = S \ {Dir}
        /\ tasklist' = tasklist /\ pertask' = pertask /\ elapsed' = elapsed
        /\ hasElapsed' = TRUE /\ odd' = odd
    BY <1>9, <2>1 DEF StartUsage, Loop
  <2>3. /\ DOMAIN pertask = tasklist /\ elapsed = NoFiles
        /\ \A x \in DOMAIN pertask : pertask[x] = EventsOf(trace, x)
    BY <1>0, <2>2 DEF NamesStage, FreshStage
  <2>4. Counted((S \ {Dir}) \cap Seen)
    BY <2>3, HeadsCounted
  <2>5. DOMAIN elapsed' \cup (work' \cap Seen') = (S \ {Dir}) \cap Seen
    BY <1>2, <2>2, <2>3, EmptyDir
  <2>6. Counted(DOMAIN elapsed \cup (work \cap Seen))'
    BY <1>2, <2>2, <2>4, <2>5 DEF Counted
  <2>. QED
    BY <1>0, <1>1, <2>2, <2>3, <2>6 DEF NamesStage
<1>10. ASSUME NEW x \in Task, UsageTask(x)
       PROVE  NamesStage'
  <2> DEFINE s == Periods(Get(pertask, x))
             old == IF debug THEN Restrict(elapsed, DOMAIN elapsed \ {x}) ELSE elapsed
  <2>1. /\ stage' = "counting" /\ stage = "counting" /\ x \in work
        /\ work' = work \ {x}
        /\ tasklist' = tasklist /\ pertask' = pertask /\ hasElapsed' = hasElapsed
        /\ odd' = odd
        /\ elapsed' = IF hasElapsed THEN Add(old, x, s) ELSE elapsed
    BY <1>10 DEF UsageTask
  <2>2. /\ DOMAIN pertask = tasklist /\ hasElapsed
        /\ Counted(DOMAIN elapsed \cup (work \cap Seen))
    BY <1>0, <2>1 DEF NamesStage
  <2>3. /\ x \in DOMAIN pertask /\ x \notin DOMAIN elapsed
        /\ pertask[x] = EventsOf(trace, x)
    BY <1>0, <2>1 DEF FreshStage
  <2>4. s = <<>> <=> x \notin Seen
    BY <2>2, <2>3, NoEventsNoPeriods DEF Get, Seen
  <2>5. DOMAIN old = DOMAIN elapsed
    BY <2>3 DEF Restrict
  <2> HIDE DEF s, old
  <2>6. DOMAIN elapsed' = DOMAIN elapsed \cup ({x} \cap Seen)
    <3>1. CASE s = <<>>
      BY <2>1, <2>2, <2>4, <2>5, <3>1 DEF Add
    <3>2. CASE s # <<>>
      <4>1. DOMAIN elapsed' = DOMAIN elapsed \cup {x}
        BY <2>1, <2>2, <2>5, <3>2 DEF Add, Put
      <4>. QED
        BY <2>4, <3>2, <4>1
    <3>. QED
      BY <3>1, <3>2
  <2>7. DOMAIN elapsed' \cup (work' \cap Seen') = DOMAIN elapsed \cup (work \cap Seen)
    BY <1>2, <2>1, <2>6
  <2>8. Counted(DOMAIN elapsed \cup (work \cap Seen))'
    BY <1>2, <2>1, <2>2, <2>7 DEF Counted
  <2>. QED
    BY <1>0, <1>1, <2>1, <2>2, <2>8 DEF NamesStage
<1>11. CASE EndLoop
  <2>1. /\ work = {} /\ tasklist' = tasklist /\ pertask' = pertask
        /\ elapsed' = elapsed /\ hasElapsed' = hasElapsed /\ odd' = odd
    BY <1>11 DEF EndLoop, files
  <2>2. CASE stage = "splitting"
    <3>1. stage' = "check_n_fix"
      BY <1>0, <1>11, <2>2 DEF EndLoop, Done, After
    <3>. QED
      BY <1>0, <1>1, <2>1, <2>2, <3>1 DEF NamesStage
  <2>3. CASE stage = "counting"
    <3>1. stage' = "merge_cpuusage"
      BY <1>0, <1>11, <2>3 DEF EndLoop, Done, After
    <3>2. Counted(DOMAIN elapsed \cup (work \cap Seen))
      BY <1>0, <2>3 DEF NamesStage
    <3>3. DOMAIN elapsed \cup (work \cap Seen) = DOMAIN elapsed
      BY <2>1
    <3>4. Counted(DOMAIN elapsed)'
      BY <1>2, <2>1, <3>2, <3>3 DEF Counted
    <3>. QED
      BY <1>0, <1>1, <2>1, <2>3, <3>1, <3>4 DEF NamesStage
  <2>. QED
    BY <1>11, <2>2, <2>3 DEF EndLoop
<1>12. CASE Merge
  <2>1. /\ stage = "merge_cpuusage" /\ stage' \in {"reading", "none"}
        /\ tasklist' = tasklist /\ tot' = elapsed /\ odd' = odd
    BY <1>0, <1>12 DEF Merge, Loop, Done, After
  <2>2. Counted(DOMAIN tot)'
    BY <1>0, <1>2, <2>1 DEF NamesStage, Counted
  <2>. QED
    BY <1>0, <1>1, <2>1, <2>2 DEF NamesStage
<1>. QED
  BY <1>3, <1>4, <1>5, <1>6, <1>7, <1>8, <1>9, <1>10, <1>11, <1>12 DEF ParserStep

LEMMA NamesStutter ==
  ASSUME NamesInv, UNCHANGED vars, mode' = "all"
  PROVE  NamesStage'
<1>1. mode = "all" /\ NamesStage
  BY DEF NamesInv, vars, runVars
<1>2. /\ Seen' = Seen /\ Away' = Away /\ trace' = trace
      /\ \A x : Grep(trace', x) = Grep(trace, x)
  BY DEF Seen, Away, Events, vars, machineVars, files
<1>3. Counted(DOMAIN elapsed \cup (work \cap Seen))' =
        Counted(DOMAIN elapsed \cup (work \cap Seen))
      /\ Counted(DOMAIN elapsed)' = Counted(DOMAIN elapsed)
      /\ Counted(DOMAIN tot)' = Counted(DOMAIN tot)
  BY <1>2 DEF Counted, vars, files, runVars
<1>. QED
  BY <1>1, <1>2, <1>3 DEF NamesStage, vars, machineVars, files, runVars

(* The tasks each stage works on, and those check_n_fix reports.           *)
THEOREM NamesInvariance == Spec => []NamesInv
<1>1. Init => NamesInv
  BY FreshInit DEF Init, NamesInv
<1>2. NamesInv /\ TraceInv /\ FreshInv' /\ [Next]_vars => NamesInv'
  <2>1. SUFFICES ASSUME NamesInv, TraceInv, [Next]_vars, mode' = "all"
                 PROVE  NamesStage'
    BY DEF NamesInv
  <2>. QED
    BY <2>1, NamesUser, NamesParser, NamesStutter DEF Next
<1>. QED
  BY <1>1, <1>2, FreshInvariance, TraceInvariance, PTL DEF Spec

(* No task that lost a CPU is forgotten while there is a place for it.     *)
THEOREM TasksCountedAlways == Spec => []TasksCounted
<1>1. NamesInv /\ TraceInv => TasksCounted
  <2>1. SUFFICES ASSUME NamesInv, TraceInv, AllDone
                 PROVE  /\ Cardinality(tasklist) < Total => Away \subseteq DOMAIN tot
                        /\ Cardinality(DOMAIN tot) >= Min({Total - 1, Cardinality(Away)})
    BY DEF TasksCounted
  <2>2. Away \subseteq tasklist /\ Counted(DOMAIN tot)
    BY <2>1 DEF AllDone, NamesInv, NamesStage
  <2>3. Away \subseteq Seen
    <3>1. \A x \in Away : Grep(trace, x) # {}
      BY DEF Away, Events, Grep
    <3>. QED
      BY <2>2, <3>1 DEF Seen
  <2>4. /\ IsFiniteSet(Seen) /\ Cardinality(Away) \in Nat /\ Cardinality(Seen) \in Nat
        /\ Cardinality(DOMAIN tot) \in Nat
        /\ Cardinality(Away) <= Cardinality(Seen)
        /\ Total - 1 \in Nat
    <3>1. /\ Seen \in SUBSET Task /\ Away \in SUBSET Task /\ DOMAIN tot \in SUBSET Task
          /\ Away \in SUBSET Seen
      BY <2>1, <2>2, <2>3, ListsFinite DEF TraceInv, Seen, Counted
    <3>. QED
      BY <2>1, <3>1, ListsFinite, FS_Subset, HeadAssumption DEF TraceInv
  <2>5. Min({Total - 1, Cardinality(Away)}) =
          IF Total - 1 <= Cardinality(Away) THEN Total - 1 ELSE Cardinality(Away)
    BY <2>4, MinTwo
  <2>6. Cardinality(DOMAIN tot) >= Min({Total - 1, Cardinality(Away)})
    <3>1. CASE DOMAIN tot = Seen
      BY <2>4, <2>5, <3>1
    <3>2. CASE Cardinality(DOMAIN tot) >= Total - 1
      BY <2>4, <2>5, <3>2
    <3>. QED
      BY <2>2, <3>1, <3>2 DEF Counted
  <2>. QED
    BY <2>2, <2>3, <2>6 DEF Counted
<1>. QED
  BY <1>1, NamesInvariance, TraceInvariance, PTL

(* check_n_fix reports the tasks whose column ends with a negative number, *)
(* and no others, when it sees all the files.                              *)
THEOREM OddIsReportedAlways == Spec => []OddIsReported
<1>1. NamesInv /\ TraceInv => OddIsReported
  <2>1. SUFFICES ASSUME NamesInv, TraceInv, AllDone, Cardinality(tasklist) <= CheckNr,
                        NEW x \in DOMAIN tot
                 PROVE  x \in odd <=> Last(tot[x]) < 0
    BY DEF OddIsReported
  <2> DEFINE s == EventsOf(trace, x)
             n == Len(s)
             m == (n + 1) \div 2
  <2>2. /\ Counted(DOMAIN tot) /\ tot[x] = Periods(s)
        /\ odd = {y \in tasklist : Cardinality(Grep(trace, y)) % 2 # 0}
    BY <2>1 DEF AllDone, NamesInv, NamesStage, FreshInv, FreshStage, Right
  <2>3. x \in tasklist /\ Grep(trace, x) # {}
    BY <2>2 DEF Counted, Seen
  <2>4. /\ s \in Seq(Event) /\ n \in Nat /\ n = Cardinality(Grep(trace, x))
        /\ IsFiniteSet(Grep(trace, x))
        /\ \A k \in 1 .. n : s[k] \in Grep(trace, x) /\ s[k].t \in Nat
        /\ \A j, k \in 1 .. n : j < k => s[j].t < s[k].t
    BY <2>1, SortedLog
  <2>5. n # 0
    BY <2>3, <2>4, FS_EmptySet
  <2>6. x \in odd <=> n % 2 = 1
    <3>1. n % 2 # 0 <=> n % 2 = 1
      BY <2>4
    <3>. QED
      BY <2>2, <2>3, <2>4, <3>1
  <2>7. /\ m \in Nat /\ Len(tot[x]) = m /\ DOMAIN tot[x] = 1 .. m
        /\ \A k \in 1 .. m : 2 * k <= n => tot[x][k] = s[2 * k].t - s[2 * k - 1].t
        /\ n % 2 = 1 => tot[x][m] = 0 - s[n].t
    BY <2>2, <2>4, PeriodsFacts
  <2>8. n \in 1 .. n /\ s[n].t \in Nat /\ 0 < s[n].t
    <3>1. n \in 1 .. n /\ s[n] \in Grep(trace, x)
      BY <2>4, <2>5
    <3>2. MachineTypes /\ Recorded
      BY <2>1, TypeParts DEF TraceInv
    <3>. QED
      BY <3>1, <3>2, TraceTimes
  <2>9. Last(tot[x]) = tot[x][m]
    BY <2>7 DEF Last
  <2> HIDE DEF s, n
  <2>10. CASE n % 2 = 1
    BY <2>6, <2>7, <2>8, <2>9, <2>10
  <2>11. CASE n % 2 # 1
    <3>0. n \in Nat /\ n # 0
      BY <2>4, <2>5
    <3>1. m \in 1 .. m /\ 2 * m = n /\ n - 1 \in 1 .. n /\ n - 1 < n
      BY <2>11, <3>0
    <3>2. tot[x][m] = s[n].t - s[n - 1].t
      BY <2>7, <3>1
    <3>3. s[n - 1].t \in Nat /\ s[n - 1].t < s[n].t
      <4>1. n - 1 \in 1 .. n /\ n \in 1 .. n /\ n - 1 < n
        BY <2>8, <3>1
      <4>. QED
        BY <2>4, <4>1
    <3>. QED
      BY <2>6, <2>8, <2>9, <2>11, <3>2, <3>3
  <2>. QED
    BY <2>10, <2>11
<1>. QED
  BY <1>1, NamesInvariance, TraceInvariance, PTL
=============================================================================

---------------------------- MODULE EventParser ----------------------------
(***************************************************************************)
(* tool/sched_event_parser/kevent_parser.sh: from the sched_switch events  *)
(* the kernel traced on each CPU (files cpu0 ... cpu3) to the periods each *)
(* task ran for, one column a task.                                        *)
(*                                                                         *)
(* Every stage reads what earlier ones left in output/ and writes or       *)
(* appends there.  `--mode all` runs the seven stages one after another,   *)
(* the other modes one of them, in any order a user likes; Ctrl-C may stop *)
(* a run between any two commands, and a new trace may be recorded between *)
(* two runs.  An events file is a sequence of [t, prev, next]: task prev   *)
(* leaves the CPU to task next at time t.                                  *)
(***************************************************************************)
EXTENDS Integers, SequencesExt

CONSTANTS
  Task,         \* what the kernel runs, its idle tasks too
  FileList,     \* the sequence of CPUs in $FILELIST; all the CPUs there are
  Total,        \* `total`: files get_cpuusage takes (40)
  CheckNr,      \* files check_n_fix takes (20)
  Gap,          \* bound: the times between two events
  MaxTime,      \* bound: time events are recorded for
  MaxTrace,     \* bound: traces recorded
  MaxRun        \* bound: runs of the script

ASSUME FileListAssumption ==
  FileList \in Seq(ToSet(FileList)) /\ FileList # <<>> /\ IsInjective(FileList)
ASSUME HeadAssumption == Total \in Nat \ {0, 1} /\ CheckNr \in Nat
ASSUME EventBoundAssumption ==
  Gap \subseteq Nat \ {0} /\ {MaxTime, MaxTrace, MaxRun} \subseteq Nat

Cpu == ToSet(FileList)

ASSUME TaskAssumption ==
  IsFiniteSet(Task) /\ Cardinality(Task) >= Cardinality(Cpu)

(* The names `ls` finds in output/pertask: a task's is <comm>.<pid>, which *)
(* no directory is called.                                                 *)
Dir == "elapsed"

ASSUME NameAssumption == Dir \notin Task

VARIABLES
  on,           \* the task each CPU runs
  clock,        \* the time of the last event
  trace,        \* the files cpu0 ... as recorded
  recording,    \* the trace is still being recorded
  csv,          \* output/<cpu>.only_switch.csv
  cpulist,      \* output/<cpu>.tasklist, as a set
  tasklist,     \* output/tasklist, as a set
  pertask,      \* output/pertask/<task>: its events in the order of their time
  elapsed,      \* output/pertask/elapsed/<task>: its periods
  hasElapsed,   \* is there a directory output/pertask/elapsed?
  tot,          \* output/tot_cpuusage_pertask: a column of periods a task
  mode,         \* $OP_MODE of the last run, "none" when it was stopped or
                \* there was none since the trace was recorded
  debug,        \* $DEBUG
  stage,        \* the stage this run is at, "none" when none runs
  work,         \* the files its loop has left
  odd,          \* the tasks check_n_fix has called odd in this run
  traces, runs  \* counters of the bounds

machineVars == <<on, clock, trace, recording, traces>>
files == <<csv, cpulist, tasklist, pertask, elapsed, hasElapsed, tot>>
runVars == <<mode, debug, stage, work, odd, runs>>
vars == <<machineVars, files, runVars>>

Stage == {"csv", "tasklist", "tasklist_uniq", "split_event", "check_n_fix",
          "get_cpuusage", "merge_cpuusage"}

(* Mutants: the check once the directory elapsed is there; uniq too early. *)
AfterCheckLast ==
  [csv |-> "tasklist", tasklist |-> "tasklist_uniq",
   tasklist_uniq |-> "split_event", split_event |-> "get_cpuusage",
   get_cpuusage |-> "check_n_fix", check_n_fix |-> "merge_cpuusage",
   merge_cpuusage |-> "none"]
AfterUniqFirst ==
  [csv |-> "tasklist_uniq", tasklist_uniq |-> "tasklist",
   tasklist |-> "split_event", split_event |-> "check_n_fix",
   check_n_fix |-> "get_cpuusage", get_cpuusage |-> "merge_cpuusage",
   merge_cpuusage |-> "none"]

(* do_all_stage: what follows what.                                        *)
After ==
  [csv |-> "tasklist", tasklist |-> "tasklist_uniq",
   tasklist_uniq |-> "split_event", split_event |-> "check_n_fix",
   check_n_fix |-> "get_cpuusage", get_cpuusage |-> "merge_cpuusage",
   merge_cpuusage |-> "none"]

Event == [t : Nat, prev : Task, next : Task]

NoFiles == [x \in {} |-> <<>>]

(* `>` and `>>` of the lines s to the file of x in a directory.            *)
Put(dir, x, s) == [y \in DOMAIN dir \cup {x} |-> IF y = x THEN s ELSE dir[y]]
Get(dir, x) == IF x \in DOMAIN dir THEN dir[x] ELSE <<>>
Add(dir, x, s) ==
  IF s = <<>> THEN dir
  ELSE Put(dir, x, IF x \in DOMAIN dir THEN dir[x] \o s ELSE s)

EventTypeOK ==
  /\ on \in [Cpu -> Task] /\ IsInjective(on)
  /\ clock \in Nat
  /\ {recording, hasElapsed, debug} \subseteq BOOLEAN
  /\ {trace, csv} \subseteq [Cpu -> Seq(Event)]
  /\ cpulist \in [Cpu -> SUBSET Task]
  /\ tasklist \subseteq Task
  /\ DOMAIN pertask \subseteq Task
  /\ \A x \in DOMAIN pertask : pertask[x] \in Seq(Event)
  /\ \A dir \in {elapsed, tot} :
       DOMAIN dir \subseteq Task /\ \A x \in DOMAIN dir : dir[x] \in Seq(Int)
  /\ elapsed # NoFiles => hasElapsed
  /\ mode \in Stage \cup {"none", "all", "gcu"}
  /\ stage \in Stage \cup {"none", "splitting", "counting", "reading"}
  /\ work \subseteq Task /\ odd \subseteq Task

Init ==
  /\ on \in [Cpu -> Task] /\ IsInjective(on)
  /\ clock = 1 /\ trace = [c \in Cpu |-> <<>>] /\ recording = TRUE
  /\ csv = [c \in Cpu |-> <<>>] /\ cpulist = [c \in Cpu |-> {}]
  /\ tasklist = {} /\ pertask = NoFiles /\ elapsed = NoFiles /\ hasElapsed = FALSE
  /\ tot = NoFiles
  /\ mode = "none" /\ debug = FALSE /\ stage = "none" /\ work = {} /\ odd = {}
  /\ traces = 1 /\ runs = 0

-----------------------------------------------------------------------------
(* The machine and its user.                                               *)

Events == UNION {ToSet(trace[c]) : c \in Cpu}

(* The kernel gives a CPU to another task.                                 *)
Switch(c, x, gap) ==
  /\ recording /\ clock + gap <= MaxTime
  /\ x \notin {on[d] : d \in Cpu}
  /\ clock' = clock + gap
  /\ on' = [on EXCEPT ![c] = x]
  /\ trace' = [trace EXCEPT ![c] =
                 Append(@, [t |-> clock + gap, prev |-> on[c], next |-> x])]
  /\ UNCHANGED <<recording, traces, files, runVars>>

(* The user records another trace over the old one.                        *)
NewTrace ==
  /\ stage = "none" /\ ~recording /\ traces < MaxTrace
  /\ trace' = [c \in Cpu |-> <<>>] /\ recording' = TRUE /\ traces' = traces + 1
  /\ mode' = "none" /\ odd' = {}
  /\ UNCHANGED <<on, clock, files, debug, stage, work, runs>>

(* ... or runs the script; an unknown mode is "all".                       *)
Start(m, first, inputs) ==
  /\ stage = "none" /\ runs < MaxRun
  /\ recording' = FALSE
  /\ mode' = m /\ stage' = first /\ work' = inputs
  /\ debug' \in IF m \in {"all", "gcu", "get_cpuusage"} THEN BOOLEAN
                 ELSE {FALSE}      \* no other mode depends on it
  /\ odd' = {} /\ runs' = runs + 1
  /\ UNCHANGED <<on, clock, trace, traces, files>>

StartAll == Start("all", "csv", {})
StartStage == \E m \in Stage : Start(m, m, {})
StartGcu == \E x \in Task : Start("gcu", "counting", {x})   \* --input x

Interrupt ==
  /\ stage # "none"
  /\ stage' = "none" /\ work' = {} /\ mode' = "none" /\ debug' = FALSE /\ odd' = {}
  /\ UNCHANGED <<machineVars, files, runs>>

-----------------------------------------------------------------------------
(* The script's stages.  A loop over the CPUs is one step, a loop over the *)
(* tasks takes a step each.                                                *)

(* The stage s is over.                                                    *)
Done(s) ==
  /\ stage' = IF mode = "all" THEN After[s] ELSE "none"
  /\ work' = {}
  /\ debug' = (debug /\ stage' # "none")      \* $DEBUG is gone with the script
Loop(s, S) == stage' = s /\ work' = S /\ UNCHANGED debug
runOpts == <<mode, runs>>

(* trans_to_csv also removes the tasks found for each CPU, but neither     *)
(* output/tasklist nor output/pertask.                                     *)
TransToCsv ==
  /\ stage = "csv" /\ Done("csv")
  /\ csv' = trace /\ cpulist' = [c \in Cpu |-> {}]
  /\ UNCHANGED <<machineVars, tasklist, pertask, elapsed, hasElapsed, tot,
                 runOpts, odd>>

(* The tasks that were switched away from.                                 *)
FindTasks ==
  /\ stage = "tasklist" /\ Done("tasklist")
  /\ cpulist' = [c \in Cpu |-> cpulist[c] \cup {e.prev : e \in ToSet(csv[c])}]
  /\ UNCHANGED <<machineVars, csv, tasklist, pertask, elapsed, hasElapsed, tot,
                 runOpts, odd>>

UniqTasks ==
  /\ stage = "tasklist_uniq" /\ Done("tasklist_uniq")
  /\ tasklist' = tasklist \cup UNION {cpulist[c] : c \in Cpu}
  /\ UNCHANGED <<machineVars, csv, cpulist, pertask, elapsed, hasElapsed, tot,
                 runOpts, odd>>

(* Mutant: rm of the files in output/pertask, not of the directory.        *)
StartSplitKeepsPeriods ==
  /\ stage = "split_event" /\ Loop("splitting", tasklist)
  /\ pertask' = NoFiles
  /\ UNCHANGED <<machineVars, csv, cpulist, tasklist, elapsed, hasElapsed, tot,
                 runOpts, odd>>

(* output/pertask goes, with the directory elapsed in it.                  *)
StartSplit ==
  /\ stage = "split_event" /\ Loop("splitting", tasklist)
  /\ pertask' = NoFiles /\ elapsed' = NoFiles /\ hasElapsed' = FALSE
  /\ UNCHANGED <<machineVars, csv, cpulist, tasklist, tot, runOpts, odd>>

(* grep in the files of all the CPUs.                                      *)
Grep(log, x) == {e \in UNION {ToSet(log[c]) : c \in Cpu} : x \in {e.prev, e.next}}

(* Mutant of EventsOf: no sort -n.                                         *)
EventsUnsorted(log, x) == FlattenSeq([i \in DOMAIN FileList |->
  SelectSeq(log[FileList[i]], LAMBDA e : x \in {e.prev, e.next})])

(* The line sort -n puts e on: no two events are of the same time.         *)
Line(E, e) == Cardinality({d \in E : d.t <= e.t})

Sorted(E) == [k \in 1 .. Cardinality(E) |-> CHOOSE e \in E : Line(E, e) = k]

EventsOf(log, x) == Sorted(Grep(log, x))

SplitTask(x) ==
  /\ stage = "splitting" /\ x \in work
  /\ pertask' = Put(pertask, x, EventsOf(csv, x))
  /\ work' = work \ {x}
  /\ UNCHANGED <<machineVars, csv, cpulist, tasklist, elapsed, hasElapsed, tot,
                 runOpts, debug, stage, odd>>

(* Mutant: ls without -S.                                                  *)
HeadsByName(n, withDir) ==
  LET Names == DOMAIN pertask \cup (IF withDir THEN {Dir} ELSE {})
  IN kSubset(Min({n, Cardinality(Names)}), Names)

(* What `ls -S output/pertask | head -n` may print: empty files come last; *)
(* how long the others are depends on the tasks' names as well.            *)
Heads(n, withDir) ==
  LET Names == DOMAIN pertask \cup (IF withDir THEN {Dir} ELSE {})
      Empty(x) == x # Dir /\ pertask[x] = <<>>
  IN {S \in kSubset(Min({n, Cardinality(Names)}), Names) :
        \A x \in S, y \in Names \ S : Empty(x) => Empty(y)}

(* An odd number of lines is reported, and left as it is.                  *)
CheckNFix ==
  /\ stage = "check_n_fix" /\ Done("check_n_fix")
  /\ \E S \in Heads(CheckNr, hasElapsed) :
       odd' = {x \in S \ {Dir} : Len(pertask[x]) % 2 # 0}
  /\ UNCHANGED <<machineVars, files, runOpts>>

(* The directory elapsed is made first, so it is among the names listed.   *)
StartUsage ==
  /\ stage = "get_cpuusage"
  /\ hasElapsed' = TRUE
  /\ \E S \in Heads(Total, TRUE) : Loop("counting", S \ {Dir})
  /\ UNCHANGED <<machineVars, csv, cpulist, tasklist, pertask, elapsed, tot,
                 runOpts, odd>>

(* Two lines at a time (xargs -n2), the second's time less the first's; a  *)
(* last line without a second counts as if that were 0.                    *)
Periods(s) ==
  LET time(i) == IF i \in DOMAIN s THEN s[i].t ELSE 0
  IN [k \in 1 .. (Len(s) + 1) \div 2 |-> time(2 * k) - time(2 * k - 1)]

(* Mutant: the file is made wherever the directory is.                     *)
UsageAnywhere(x) ==
  /\ stage = "counting" /\ x \in work
  /\ elapsed' = Add(elapsed, x, Periods(Get(pertask, x)))
  /\ work' = work \ {x}
  /\ UNCHANGED <<machineVars, csv, cpulist, tasklist, pertask, hasElapsed, tot,
                 runOpts, debug, stage, odd>>

(* Appends, unless --debug 1 had the file removed.                         *)
UsageTask(x) ==
  /\ stage = "counting" /\ x \in work
  /\ LET old == IF debug THEN Restrict(elapsed, DOMAIN elapsed \ {x}) ELSE elapsed
     IN elapsed' = IF hasElapsed THEN Add(old, x, Periods(Get(pertask, x)))
                                 ELSE elapsed
  /\ work' = work \ {x}
  /\ UNCHANGED <<machineVars, csv, cpulist, tasklist, pertask, hasElapsed, tot,
                 runOpts, debug, stage, odd>>

EndLoop ==
  /\ work = {}
  /\ \/ stage = "splitting" /\ Done("split_event")
     \/ stage = "counting" /\ Done("get_cpuusage")
  /\ UNCHANGED <<machineVars, files, runOpts, odd>>

(* One column for every file; without any, paste reads the terminal.       *)
Merge ==
  /\ stage = "merge_cpuusage"
  /\ tot' = elapsed
  /\ IF elapsed = NoFiles THEN Loop("reading", {}) ELSE Done("merge_cpuusage")
  /\ UNCHANGED <<machineVars, csv, cpulist, tasklist, pertask, elapsed,
                 hasElapsed, runOpts, odd>>

EndOfInput ==
  /\ stage = "reading" /\ Done("merge_cpuusage")
  /\ UNCHANGED <<machineVars, files, runOpts, odd>>

ParserStep ==
  \/ TransToCsv \/ FindTasks \/ UniqTasks \/ StartSplit \/ CheckNFix
  \/ StartUsage \/ EndLoop \/ Merge
  \/ \E x \in Task : SplitTask(x) \/ UsageTask(x)

UserStep ==
  \/ NewTrace \/ StartAll \/ StartStage \/ StartGcu \/ Interrupt \/ EndOfInput
  \/ \E c \in Cpu, x \in Task, gap \in Gap : Switch(c, x, gap)

Next == ParserStep \/ UserStep

Spec == Init /\ [][Next]_vars

(* A script that runs is scheduled; nobody need start or stop one.         *)
FairSpec == Spec /\ WF_vars(ParserStep)

-----------------------------------------------------------------------------
(* Properties.  They are about a run of all the stages that was not        *)
(* stopped, on the trace it read, whatever was done in output/ before.     *)

AllDone == stage = "none" /\ mode = "all"

Away == {e.prev : e \in Events}      \* the tasks some CPU was taken from

(* x had a CPU when the trace began and lost it; it has one at the end.    *)
RanBefore(x) == \E c \in Cpu : trace[c] # <<>> /\ trace[c][1].prev = x
StillRuns(x) == \E c \in Cpu : trace[c] # <<>> /\ Last(trace[c]).next = x

(* The times x was given a CPU and lost it d later: between two events     *)
(* that follow each other on one CPU.                                      *)
RunsOf(x, d) ==
  {r \in Cpu \X (1 .. MaxTime) :
     LET c == r[1] i == r[2]
     IN /\ i < Len(trace[c]) /\ trace[c][i].next = x
        /\ trace[c][i + 1].t - trace[c][i].t = d}

(* For a task that did not run when the trace began, the column has the    *)
(* length of each of its runs, on whatever CPUs they were, and only the    *)
(* last number is something else when it still runs at the end.           *)
PeriodsAreRuns ==
  AllDone => \A x \in DOMAIN tot : ~RanBefore(x) =>
    LET complete == {k \in DOMAIN tot[x] : k < Len(tot[x]) \/ ~StillRuns(x)}
    IN \A d \in -clock .. clock :
         Cardinality({k \in complete : tot[x][k] = d}) = Cardinality(RunsOf(x, d))

(* The columns are those of the trace, each the periods of all the events  *)
(* of its task and nothing else, whatever output/ held before.             *)
FreshColumns ==
  AllDone => \A x \in DOMAIN tot : tot[x] = Periods(EventsOf(trace, x))

(* No task is forgotten while there are fewer than Total (the directory    *)
(* elapsed takes one of the places), and the places are not wasted on      *)
(* tasks of older traces, which output/tasklist still names.               *)
TasksCounted ==
  AllDone =>
    /\ Cardinality(tasklist) < Total => Away \subseteq DOMAIN tot
    /\ Cardinality(DOMAIN tot) >= Min({Total - 1, Cardinality(Away)})

(* A task whose time comes out negative, from a line without a second, is  *)
(* reported, as is nothing else, while check_n_fix sees all the files.     *)
OddIsReported ==
  AllDone /\ Cardinality(tasklist) <= CheckNr =>
    \A x \in DOMAIN tot : x \in odd <=> Last(tot[x]) < 0

(* All the stages come to their end when there is an event in the trace.   *)
AllEnds == (stage # "none" /\ mode = "all" /\ Events # {}) ~> stage = "none"

-----------------------------------------------------------------------------
(* The inductive invariant FreshColumns rests on: what a run of all the    *)
(* stages has made so far is of this trace, and nothing else is left where *)
(* it goes on.                                                             *)

RunFlow ==
  /\ recording => stage = "none"
  /\ stage = "none" => mode # "all" \/ ~recording
  /\ mode = "none" => stage = "none"

Right(dir) == \A x \in DOMAIN dir : dir[x] = Periods(EventsOf(trace, x))

FreshStage ==
  /\ stage # "csv" => csv = trace
  /\ stage \in {"splitting", "check_n_fix", "get_cpuusage", "counting"} =>
       \A x \in DOMAIN pertask : pertask[x] = EventsOf(trace, x)
  /\ stage \in {"splitting", "check_n_fix", "get_cpuusage"} => elapsed = NoFiles
  /\ stage = "counting" =>
       /\ work \subseteq DOMAIN pertask
       /\ \A x \in DOMAIN elapsed : x \notin work
  /\ stage \in {"counting", "merge_cpuusage"} => Right(elapsed)
  /\ stage \in {"reading", "none"} => Right(tot)

FreshInv == RunFlow /\ (mode = "all" => FreshStage)

-----------------------------------------------------------------------------
(* The inductive invariants of what the kernel records.                    *)

(* No two events of a log are of the same time.                            *)
LogOK(log) ==
  \A c, d \in Cpu : \A i \in DOMAIN log[c], j \in DOMAIN log[d] :
    log[c][i].t = log[d][j].t => c = d /\ i = j

(* A CPU's events are in the order of their time, each takes it from the   *)
(* task the one before has given it to.                                    *)
Recorded ==
  \A c \in Cpu :
    /\ trace[c] # <<>> => Last(trace[c]).next = on[c]
    /\ Len(trace[c]) < clock /\ (trace[c] # <<>> => clock <= MaxTime)
    /\ \A i \in DOMAIN trace[c] :
         LET e == trace[c][i]
         IN /\ 0 < e.t /\ e.t <= clock /\ e.prev # e.next
            /\ \A j \in 1 .. i - 1 : trace[c][j].t < e.t
            /\ i > 1 => trace[c][i - 1].next = e.prev

(* x runs on a CPU that has not been given to another since the trace      *)
(* began.                                                                  *)
Untouched(x) == \E c \in Cpu : on[c] = x /\ trace[c] = <<>>

(* A task has one CPU at a time: between two events that follow each other *)
(* there, or after the last one, it is not in the events of any other.     *)
OneCpu(x) ==
  /\ Untouched(x) => Grep(trace, x) = {}
  /\ \A c \in Cpu, e \in Grep(trace, x) :
       /\ on[c] = x /\ trace[c] # <<>> => e.t <= Last(trace[c]).t
       /\ \A i \in 1 .. Len(trace[c]) - 1 : trace[c][i].next = x =>
            e.t <= trace[c][i].t \/ e.t >= trace[c][i + 1].t

(* Of a task that had none when the trace began, the first event gives it  *)
(* a CPU, the second takes it away, and so on.                             *)
InTurn(x) ==
  ~RanBefore(x) /\ ~Untouched(x) =>
    LET E == Grep(trace, x)
    IN /\ (\E c \in Cpu : on[c] = x) <=> Cardinality(E) % 2 = 1
       /\ \A e \in E : e.next = x <=> Line(E, e) % 2 = 1

TraceInv ==
  /\ EventTypeOK /\ LogOK(trace) /\ LogOK(csv) /\ Recorded
  /\ \A x \in Task : OneCpu(x) /\ InTurn(x)

-----------------------------------------------------------------------------
(* The inductive invariant of the tasks a run of all the stages takes.     *)

(* The files of pertask that are not empty.                                *)
Seen == {x \in tasklist : Grep(trace, x) # {}}

(* Everybody is counted, or Total - 1 tasks of the trace are.              *)
Counted(S) ==
  /\ S \subseteq Seen
  /\ Cardinality(tasklist) < Total => S = Seen
  /\ S = Seen \/ Cardinality(S) >= Total - 1

NamesStage ==
  /\ stage = "tasklist_uniq" =>
       \A c \in Cpu : {e.prev : e \in ToSet(trace[c])} \subseteq cpulist[c]
  /\ stage \notin {"csv", "tasklist", "tasklist_uniq"} => Away \subseteq tasklist
  /\ stage = "splitting" => DOMAIN pertask = tasklist \ work /\ work \subseteq tasklist
  /\ stage \in {"splitting", "check_n_fix"} => ~hasElapsed
  /\ stage \in {"check_n_fix", "get_cpuusage", "counting"} => DOMAIN pertask = tasklist
  /\ stage = "counting" => hasElapsed /\ Counted(DOMAIN elapsed \cup (work \cap Seen))
  /\ stage = "merge_cpuusage" => Counted(DOMAIN elapsed)
  /\ stage \in {"reading", "none"} => Counted(DOMAIN tot)
  /\ stage \in {"get_cpuusage", "counting", "merge_cpuusage", "reading", "none"} =>
       (Cardinality(tasklist) <= CheckNr =>
          odd = {x \in tasklist : Cardinality(Grep(trace, x)) % 2 # 0})

NamesInv == FreshInv /\ (mode = "all" => NamesStage)
=============================================================================

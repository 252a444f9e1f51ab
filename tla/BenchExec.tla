------------------------------ MODULE BenchExec ------------------------------
(***************************************************************************)
(* tool/bench_exec.sh: runs sysbench on each board `adb devices` lists, in *)
(* parallel, and prints what the boards answered.                          *)
(*                                                                         *)
(* A session is one run of the script without arguments (bench).  Its main *)
(* shell is sequential; `pc` is where it stands.  Two kinds of process run *)
(* beside it and may outlive it:                                           *)
(*   - the subshell of the `while read id` loop of start_bench (`starter`); *)
(*   - one background job per listed board (run_bench_tool ... &).         *)
(* All of them meet in the directory ./log, which the sessions share:      *)
(* log/id_list names the boards, log/result/<id> holds a board's answer.   *)
(*                                                                         *)
(* A session may be cut short: by Ctrl-C, which takes the main shell and   *)
(* the loop but not the background jobs (asynchronous lists of a           *)
(* non-interactive shell ignore SIGINT), or by a SIGKILL of the main shell *)
(* alone, which is what the Qt front end does when it gives up on it.      *)
(***************************************************************************)
EXTENDS Naturals, Sequences, FiniteSets

CONSTANTS
  Board,        \* the serial numbers adb may report
  MaxLine,      \* bound: boards listed by one `adb devices`
  MaxSession,   \* bound: runs of the script one after the other
  Reported      \* bound: the listings `adb devices` may print

ASSUME BoardAssumption == IsFiniteSet(Board)
ASSUME MaxLineAssumption == MaxLine \in Nat
ASSUME MaxSessionAssumption == MaxSession \in Nat

Session == 1 .. MaxSession
Line == 1 .. MaxLine
Job == Session \X Line   \* the job of a session for a line of its listing

VARIABLES
  session,    \* runs of the script begun so far; the last one may be running
  pc,         \* where its main shell stands, "idle" when none runs
  id_cnt,     \* its $id_cnt
  todo,       \* lines of id_list its current `while read id` has yet to read
  outcome,    \* how each session ended
  listing,    \* the serials each session was given, in the order of adb's lines
  starter,    \* the loop subshell of each session's start_bench
  line,       \* the line of its listing that loop is at
  job,        \* the background jobs
  dir,        \* ./log: "none", "log" without log/result, or "full"
  id_list,    \* lines of log/id_list
  present,    \* the ids that name a regular file in log/result
  lines,      \* for each of them, whose answer that file holds, if any
  printed,    \* what each session's print_result went through
  shown       \* ... and the answer it found there

shellVars == <<session, pc, id_cnt, todo, outcome>>
startVars == <<listing, starter, line>>
fileVars == <<dir, id_list, present, lines>>
printVars == <<printed, shown>>
vars == <<shellVars, startVars, job, fileVars, printVars>>

Alive == {"rm", "mklog", "mkresult", "devices", "starting", "count", "compare",
          "gather", "polling", "sleep", "printing"}

Ended == {"measured", "failed"}
JobState == {"none", "forked", "open", "unlinked"} \cup Ended

(* What `adb devices | grep device -w | cut -f1` may print: a serial in    *)
(* each line.  Boards that were flashed with one serial number are listed  *)
(* once each.                                                              *)
Listing == UNION {[1 .. n -> Board] : n \in 0 .. MaxLine}

ASSUME ReportedAssumption == Reported \subseteq Listing

Serial(j) == listing[j[1]][j[2]]

TypeOK ==
  /\ session \in 0 .. MaxSession
  /\ pc \in Alive \cup {"idle"}
  /\ id_cnt \in Nat
  /\ todo \in Seq(Board)
  /\ outcome \in [Session -> {"none", "noboard", "done", "stopped", "killed"}]
  /\ listing \in [Session -> Listing]
  /\ starter \in [Session -> {"idle", "read", "note", "end"}]
  /\ line \in [Session -> Nat \ {0}]
  /\ \A s \in Session : line[s] <= Len(listing[s]) + 1
  /\ job \in [Job -> JobState]
  /\ dir \in {"none", "log", "full"}
  /\ id_list \in Seq(Board)
  /\ present \in SUBSET Board
  /\ lines \in [Board -> SUBSET Job]
  /\ printed \in [Session -> SUBSET Board]
  /\ shown \in [Session -> [Board -> SUBSET Job]]

Init ==
  /\ session = 0
  /\ pc = "idle"
  /\ id_cnt = 0
  /\ todo = << >>
  /\ outcome = [s \in Session |-> "none"]
  /\ listing = [s \in Session |-> << >>]
  /\ starter = [s \in Session |-> "idle"]
  /\ line = [s \in Session |-> 1]
  /\ job = [j \in Job |-> "none"]
  /\ dir = "none"
  /\ id_list = << >>
  /\ present = {}
  /\ lines = [b \in Board |-> {}]
  /\ printed = [s \in Session |-> {}]
  /\ shown = [s \in Session |-> [b \in Board |-> {}]]

-----------------------------------------------------------------------------
(* The main shell.                                                         *)

(* The script is run again once its previous run is over.                  *)
Begin ==
  /\ pc = "idle"
  /\ session < MaxSession
  /\ session' = session + 1
  /\ pc' = "rm"
  /\ UNCHANGED <<id_cnt, todo, outcome, startVars, job, fileVars, printVars>>

(* Mutant of RemoveWorkDir: the results of the run before stay.            *)
RemoveWorkDirButResults ==
  /\ pc = "rm"
  /\ pc' = "mklog"
  /\ id_list' = << >>
  /\ UNCHANGED <<session, id_cnt, todo, outcome, startVars, job, dir, present,
                 lines, printVars>>

(* bench: rm -rf $work_dir.  Jobs that had their result file open go on    *)
(* writing to a file that has no name any more.                            *)
RemoveWorkDir ==
  /\ pc = "rm"
  /\ pc' = "mklog"
  /\ dir' = "none"
  /\ id_list' = << >>
  /\ present' = {}
  /\ lines' = [b \in Board |-> {}]
  /\ job' = [j \in Job |-> IF job[j] = "open" THEN "unlinked" ELSE job[j]]
  /\ UNCHANGED <<session, id_cnt, todo, outcome, startVars, printVars>>

(* bench: mkdir $work_dir                                                  *)
MakeWorkDir ==
  /\ pc = "mklog"
  /\ pc' = "mkresult"
  /\ dir' = "log"
  /\ UNCHANGED <<session, id_cnt, todo, outcome, startVars, job, id_list,
                 present, lines, printVars>>

(* bench: mkdir $work_dir/result                                           *)
MakeResultDir ==
  /\ pc = "mkresult"
  /\ pc' = "devices"
  /\ dir' = "full"
  /\ UNCHANGED <<session, id_cnt, todo, outcome, startVars, job, id_list,
                 present, lines, printVars>>

(* start_bench: `adb devices`, the count of its lines, and either `exit`   *)
(* or the loop over them, in a subshell of its own.                        *)
AdbDevices ==
  /\ pc = "devices"
  /\ \E l \in Reported :
       /\ listing' = [listing EXCEPT ![session] = l]
       /\ \/ /\ l = << >>
             /\ pc' = "idle"
             /\ outcome' = [outcome EXCEPT ![session] = "noboard"]
             /\ UNCHANGED starter
          \/ /\ l # << >>
             /\ pc' = "starting"
             /\ starter' = [starter EXCEPT ![session] = "read"]
             /\ UNCHANGED outcome
  /\ UNCHANGED <<session, id_cnt, todo, line, job, fileVars, printVars>>

(* wait_done: id_cnt=`cat $work_dir/id_list | wc -l`                       *)
CountIds ==
  /\ pc = "count"
  /\ pc' = "compare"
  /\ id_cnt' = Len(id_list)
  /\ UNCHANGED <<session, todo, outcome, startVars, job, fileVars, printVars>>

(* Mutants of TooFew: no first wait at all; -ne for -lt.                   *)
TooFewNever(log_cnt) == FALSE
TooFewUnequal(log_cnt) == log_cnt # id_cnt

(* [ $log_cnt -lt $id_cnt ], the condition on which wait_done loops        *)
TooFew(log_cnt) == log_cnt < id_cnt

(* wait_done: log_cnt=`ls -l log/result/ | grep ^- | wc -l`, and the test  *)
(* that takes the loop round again or ends it.                             *)
CompareCounts ==
  /\ pc = "compare"
  /\ pc' = IF TooFew(Cardinality(present)) THEN "count" ELSE "gather"
  /\ UNCHANGED <<session, id_cnt, todo, outcome, startVars, job, fileVars,
                 printVars>>

(* wait_done: cat $work_dir/id_list | while read id, the second wait       *)
GatherIds ==
  /\ pc = "gather"
  /\ pc' = "polling"
  /\ todo' = id_list
  /\ UNCHANGED <<session, id_cnt, outcome, startVars, job, fileVars, printVars>>

(* Mutant of Answered: -ge for -gt.                                        *)
AnsweredOrEmpty(b) == Cardinality(lines[b]) >= 0

(* [ $log_line_num -gt 0 ]                                                 *)
Answered(b) == lines[b] # {}

(* wait_done: while true, until the board's result file holds a line.  An  *)
(* unsuccessful look at it (sleep 1) changes nothing.                      *)
PollResult ==
  /\ pc = "polling"
  /\ todo # << >>
  /\ Answered(Head(todo))
  /\ todo' = Tail(todo)
  /\ UNCHANGED <<session, pc, id_cnt, outcome, startVars, job, fileVars,
                 printVars>>

PollEnd ==
  /\ pc = "polling"
  /\ todo = << >>
  /\ pc' = "sleep"
  /\ UNCHANGED <<session, id_cnt, todo, outcome, startVars, job, fileVars,
                 printVars>>

(* bench: sleep 3, and the `cat $work_dir/id_list` of print_result         *)
StartPrinting ==
  /\ pc = "sleep"
  /\ pc' = "printing"
  /\ todo' = id_list
  /\ UNCHANGED <<session, id_cnt, outcome, startVars, job, fileVars, printVars>>

(* print_result: cat $work_dir/result/$id                                  *)
PrintResult ==
  /\ pc = "printing"
  /\ todo # << >>
  /\ LET b == Head(todo) IN
       /\ printed' = [printed EXCEPT ![session] = @ \cup {b}]
       /\ shown' = [shown EXCEPT ![session][b] = lines[b]]
  /\ todo' = Tail(todo)
  /\ UNCHANGED <<session, pc, id_cnt, outcome, startVars, job, fileVars>>

PrintEnd ==
  /\ pc = "printing"
  /\ todo = << >>
  /\ pc' = "idle"
  /\ outcome' = [outcome EXCEPT ![session] = "done"]
  /\ UNCHANGED <<session, id_cnt, todo, startVars, job, fileVars, printVars>>

MainStep ==
  \/ RemoveWorkDir \/ MakeWorkDir \/ MakeResultDir \/ AdbDevices
  \/ CountIds \/ CompareCounts \/ GatherIds \/ PollResult \/ PollEnd
  \/ StartPrinting \/ PrintResult \/ PrintEnd

-----------------------------------------------------------------------------
(* The loop of start_bench.                                                *)

(* ./bench_exec.sh run $id, which leaves run_bench_tool in the background  *)
ForkJob(s) ==
  /\ starter[s] = "read"
  /\ line[s] <= Len(listing[s])
  /\ job' = [job EXCEPT ![<<s, line[s]>>] = "forked"]
  /\ starter' = [starter EXCEPT ![s] = "note"]
  /\ UNCHANGED <<shellVars, listing, line, fileVars, printVars>>

(* Mutants of NextLine: the job shares the loop's stdin (no & at the end   *)
(* of the script) and `adb shell` swallows the rest of the pipe, or a line *)
(* of it.                                                                  *)
NextLineSwallowed(s) == Len(listing[s]) + 1
NextLineSkipped(s) == line[s] + 2

(* The line the next `read id` gets.  The job is an asynchronous list, so  *)
(* its stdin is /dev/null and `adb shell` leaves the rest of the pipe to   *)
(* the loop.                                                               *)
NextLine(s) == line[s] + 1

(* echo $id >> $work_dir/id_list, which fails when ./log is missing        *)
NoteId(s) ==
  /\ starter[s] = "note"
  /\ id_list' = IF dir = "none" THEN id_list
                ELSE Append(id_list, listing[s][line[s]])
  /\ line' = [line EXCEPT ![s] = NextLine(s)]
  /\ starter' = [starter EXCEPT ![s] = "read"]
  /\ UNCHANGED <<shellVars, listing, job, dir, present, lines, printVars>>

(* `read id` finds no more lines; the main shell, if there is still one,   *)
(* goes on to wait_done.                                                   *)
StarterEnd(s) ==
  /\ starter[s] = "read"
  /\ line[s] > Len(listing[s])
  /\ starter' = [starter EXCEPT ![s] = "end"]
  /\ pc' = IF s = session /\ pc = "starting" THEN "count" ELSE pc
  /\ UNCHANGED <<session, id_cnt, todo, outcome, listing, line, job, fileVars,
                 printVars>>

StarterStep(s) == ForkJob(s) \/ NoteId(s) \/ StarterEnd(s)

-----------------------------------------------------------------------------
(* The background jobs: adb -s $device_id shell sysbench ... | grep "total *)
(* time" > $work_dir/result/$device_id                                     *)

(* The shell opens the redirection, truncating a file that is there.       *)
OpenResult(j) ==
  /\ job[j] = "forked"
  /\ dir = "full"
  /\ job' = [job EXCEPT ![j] = "open"]
  /\ present' = present \cup {Serial(j)}
  /\ lines' = [lines EXCEPT ![Serial(j)] = {}]
  /\ UNCHANGED <<shellVars, startVars, dir, id_list, printVars>>

(* log/result is missing: the redirection fails and grep is not run.       *)
CannotOpenResult(j) ==
  /\ job[j] = "forked"
  /\ dir # "full"
  /\ job' = [job EXCEPT ![j] = "failed"]
  /\ UNCHANGED <<shellVars, startVars, fileVars, printVars>>

(* The board answers; grep writes the line at the start of the file.       *)
WriteResult(j) ==
  /\ job[j] \in {"open", "unlinked"}
  /\ job' = [job EXCEPT ![j] = "measured"]
  /\ lines' = IF job[j] = "open" THEN [lines EXCEPT ![Serial(j)] = {j}]
              ELSE lines
  /\ UNCHANGED <<shellVars, startVars, dir, id_list, present, printVars>>

(* adb or sysbench gives up (board unplugged, serial not unique, no        *)
(* sysbench): grep matches nothing and writes nothing.                     *)
NoResult(j) ==
  /\ job[j] \in {"open", "unlinked"}
  /\ job' = [job EXCEPT ![j] = "failed"]
  /\ UNCHANGED <<shellVars, startVars, fileVars, printVars>>

JobStep(j) ==
  OpenResult(j) \/ CannotOpenResult(j) \/ WriteResult(j) \/ NoResult(j)

-----------------------------------------------------------------------------
(* A session cut short.                                                    *)

(* Ctrl-C reaches the main shell and the loop of start_bench.              *)
Interrupt ==
  /\ pc \in Alive
  /\ pc' = "idle"
  /\ outcome' = [outcome EXCEPT ![session] = "stopped"]
  /\ starter' = [starter EXCEPT ![session] = IF @ = "idle" THEN @ ELSE "end"]
  /\ UNCHANGED <<session, id_cnt, todo, listing, line, job, fileVars, printVars>>

(* SIGKILL reaches the main shell only.                                    *)
Kill ==
  /\ pc \in Alive
  /\ pc' = "idle"
  /\ outcome' = [outcome EXCEPT ![session] = "killed"]
  /\ UNCHANGED <<session, id_cnt, todo, startVars, job, fileVars, printVars>>

Next ==
  \/ Begin
  \/ MainStep
  \/ \E s \in Session : StarterStep(s)
  \/ \E j \in Job : JobStep(j)
  \/ Interrupt
  \/ Kill

Spec == Init /\ [][Next]_vars

(* The processes of a session are scheduled by the system, and adb returns *)
(* in the end, with a result or without.  Nobody has to run the script     *)
(* again, to press Ctrl-C or to kill it.                                   *)
FairSpec ==
  /\ Spec
  /\ WF_vars(MainStep)
  /\ \A s \in Session : WF_vars(StarterStep(s))
  /\ \A j \in Job : WF_vars(JobStep(j))

-----------------------------------------------------------------------------
(* Properties.                                                             *)

CutShort(r) == outcome[r] \in {"stopped", "killed"}

(* No session before s was cut short.                                      *)
Undisturbed(s) == \A r \in Session : r < s => ~CutShort(r)

Listed(s) == {listing[s][n] : n \in DOMAIN listing[s]}

Twins(s) ==
  \E m, n \in DOMAIN listing[s] : m # n /\ listing[s][m] = listing[s][n]

Opened(n) == job[<<session, n>>] \in {"open"} \cup Ended

PastBarrier == pc \in {"gather", "polling", "sleep", "printing"}

(* A session that got to its end has gone through every board adb listed,  *)
(* even if the loop of a killed session appended to its id_list meanwhile. *)
NothingMissing ==
  \A s \in Session : outcome[s] = "done" => Listed(s) \subseteq printed[s]

(* What is printed under a serial was measured on a board of that serial,  *)
(* in this session or before it.  As long as no session was cut short it   *)
(* is there, and it is the session's own.                                  *)
OwnResults ==
  \A s \in Session : \A b \in printed[s] :
    /\ \A j \in shown[s][b] :
         Serial(j) = b /\ job[j] = "measured" /\ j[1] <= s
    /\ Undisturbed(s) =>
         \E n \in DOMAIN listing[s] : shown[s][b] = {<<s, n>>}

(* Counting files against ids is a barrier: behind it, every job of the    *)
(* session has truncated its file already, and no two boards share one.    *)
BarrierHolds ==
  PastBarrier /\ Undisturbed(session) =>
    /\ ~Twins(session)
    /\ \A n \in DOMAIN listing[session] : Opened(n)

(* As long as no session was cut short, the results do not change from the *)
(* end of the second wait to the next rm: print_result reads what          *)
(* wait_done saw, and a finished script leaves nobody writing in ./log.    *)
SettledResults ==
  [][(pc \in {"sleep", "printing", "idle"} /\ Undisturbed(session + 1))
       => UNCHANGED <<id_list, present, lines>>]_vars

(* A session comes to an end, unless a board failed to answer it or an     *)
(* earlier one, adb listed one serial twice, or an earlier session was     *)
(* killed and not its loop.  Ctrl-C on an earlier session does no harm.    *)
Completes ==
  \A s \in Session :
    session >= s ~> \/ outcome[s] # "none"
                    \/ \E j \in Job : j[1] <= s /\ job[j] = "failed"
                    \/ Twins(s)
                    \/ \E r \in Session : r < s /\ outcome[r] = "killed"

(* The report BenchReport speaks of: a session's output once it is whole.  *)
ended ==
  [s \in Session |-> IF CutShort(s) THEN "cut" ELSE outcome[s]]
report ==
  [s \in Session |-> [b \in Board |->
     IF outcome[s] = "done" THEN {j[1] : j \in shown[s][b]} ELSE {}]]

Report == INSTANCE BenchReport WITH begun <- session

(* The script with its jobs, loops and files delivers what BenchReport     *)
(* promises.                                                               *)
Reports == Report!Spec

-----------------------------------------------------------------------------
(* The inductive invariant the properties rest on, in parts.               *)

NotBegun == {"rm", "mklog", "mkresult", "devices"}
Waiting == {"count", "compare"} \cup {"gather", "polling", "sleep", "printing"}

In(x, q) == \E i \in 1 .. Len(q) : q[i] = x

(* A session that has yet to list its boards has left no trace.            *)
Fresh(r) ==
  /\ starter[r] = "idle" /\ listing[r] = << >> /\ line[r] = 1
  /\ printed[r] = {}
  /\ \A n \in Line : job[<<r, n>>] = "none"

SessionFlow ==
  /\ pc # "idle" => session \in Session /\ outcome[session] = "none"
  /\ \A r \in Session :
       /\ r > session => outcome[r] = "none"
       /\ (r < session \/ (r = session /\ pc = "idle")) => outcome[r] # "none"
       /\ (r > session \/ (r = session /\ pc \in NotBegun)) => Fresh(r)

(* Only the session under way and a killed one have a loop that runs.      *)
LoopFlow ==
  /\ pc = "starting" => starter[session] \in {"read", "note"}
  /\ pc \in Waiting => /\ starter[session] = "end"
                       /\ line[session] = Len(listing[session]) + 1
  /\ \A r \in Session :
       /\ starter[r] \in {"read", "note"} =>
            (r = session /\ pc = "starting") \/ outcome[r] = "killed"
       /\ starter[r] = "note" => line[r] <= Len(listing[r])

(* A loop has forked the jobs up to its line, and no other.                *)
ForkedUpTo(r, n) ==
  /\ job[<<r, n>>] # "none" => n <= Len(listing[r]) /\ n <= line[r]
  /\ n = line[r] /\ starter[r] = "read" => job[<<r, n>>] = "none"
  /\ n = line[r] /\ starter[r] = "note" => job[<<r, n>>] # "none"
  /\ n < line[r] /\ n <= Len(listing[r]) => job[<<r, n>>] # "none"

JobFlow == \A r \in Session : \A n \in Line : ForkedUpTo(r, n)

DirFlow ==
  /\ pc = "mklog" => dir = "none"
  /\ pc = "mkresult" => dir = "log"
  /\ pc = "devices" \/ pc = "starting" \/ pc \in Waiting => dir = "full"

(* The ids of the session are on their way: in id_list once the loop has   *)
(* been there, then in what is left to print of it, or printed.            *)
IdsNoted ==
  pc = "starting" \/ pc \in Waiting =>
    \A n \in DOMAIN listing[session] :
      n < line[session] => In(listing[session][n], id_list)

(* A session past `adb devices` has some board.                            *)
SomeBoard == pc = "starting" \/ pc \in Waiting => listing[session] # << >>

IdsPrinted ==
  pc = "printing" =>
    \A b \in Listed(session) : b \in printed[session] \/ In(b, todo)

(* A file, and what is printed of it, is empty or holds the answer of one  *)
(* board, of the serial it is named after.                                 *)
Measured(j) == job[j] = "measured" /\ j[2] \in DOMAIN listing[j[1]]

AnswerOf(b, s, file) ==
  file # {} => \E j \in Job : /\ file = {j} /\ Serial(j) = b /\ Measured(j)
                              /\ j[1] <= s

FileContents == \A b \in Board : AnswerOf(b, session, lines[b])

ShownContents ==
  \A s \in Session : \A b \in Board :
    AnswerOf(b, s, shown[s][b]) /\ (b \notin printed[s] => shown[s][b] = {})

(* As long as no session was cut short, a session that is over has no job  *)
(* left.                                                                   *)
Over(r) == r < session \/ (r = session /\ pc = "idle")

Quiet ==
  \A r \in Session :
    Over(r) /\ (\A q \in Session : q <= r => ~CutShort(q)) =>
      \A n \in Line : job[<<r, n>>] \in {"none"} \cup Ended

(* ... and the files are those of the session under way.                   *)
OwnFiles ==
  pc \notin {"idle", "rm"} /\ Undisturbed(session) =>
    /\ \A b \in present :
         \E n \in DOMAIN listing[session] : listing[session][n] = b /\ Opened(n)
    /\ \A b \in Board : \A j \in lines[b] : j[1] = session

(* ... also when one was stopped, and none killed, the ids.                *)
NoLoopLeft == \A r \in Session : r < session => outcome[r] # "killed"

OwnIds ==
  pc \notin {"idle", "rm"} /\ NoLoopLeft =>
    /\ Len(id_list) = line[session] - 1
    /\ \A i \in 1 .. Len(id_list) : id_list[i] \in Listed(session)

(* ... all of them behind the barrier, and with an answer when printed.    *)
BarrierCount ==
  pc = "compare" /\ NoLoopLeft => id_cnt = Len(listing[session])

AllAnswered ==
  Undisturbed(session) =>
    /\ pc = "polling" =>
         \A b \in Listed(session) : Answered(b) \/ In(b, todo)
    /\ pc \in {"sleep", "printing"} => \A b \in Listed(session) : Answered(b)
    /\ pc = "printing" => \A i \in 1 .. Len(todo) : todo[i] \in Listed(session)

IInv ==
  /\ TypeOK /\ SessionFlow /\ LoopFlow /\ JobFlow /\ DirFlow
  /\ SomeBoard /\ IdsNoted /\ IdsPrinted /\ NothingMissing
  /\ FileContents /\ ShownContents /\ Quiet
  /\ OwnFiles /\ OwnIds /\ BarrierCount /\ BarrierHolds /\ AllAnswered
  /\ OwnResults

-----------------------------------------------------------------------------
(* What Completes rests on: once the loops and the jobs are through, and   *)
(* no job has failed, nothing keeps the main shell in its two waits.       *)

NobodyAtWork == \A j \in Job : job[j] \in {"none", "measured"}

WaitsAreOver ==
  pc # "idle" /\ NobodyAtWork /\ NoLoopLeft /\ ~Twins(session) =>
    /\ pc = "starting" => starter[session] \in {"read", "note"}
    /\ pc = "compare" => ~TooFew(Cardinality(present))
    /\ pc = "polling" /\ todo # << >> => Answered(Head(todo))

(* The files the session's jobs have opened are there,                     *)
OpenedIsPresent ==
  pc = "starting" \/ pc \in Waiting =>
    \A n \in DOMAIN listing[session] :
      job[<<session, n>>] \in {"open", "unlinked", "measured"} =>
        listing[session][n] \in present

(* an empty one belongs to a job at work or one that failed, be it of an   *)
(* earlier session,                                                        *)
EmptyIsOpen ==
  \A b \in present : lines[b] = {} =>
    \E j \in Job : job[j] \in {"open", "failed"} /\ Serial(j) = b

(* and the second wait is for boards of the session.                       *)
PollsOwn ==
  pc = "polling" /\ NoLoopLeft =>
    \A i \in 1 .. Len(todo) : todo[i] \in Listed(session)

WaitInv == OpenedIsPresent /\ EmptyIsOpen /\ PollsOwn
=============================================================================

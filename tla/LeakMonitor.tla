----------------------------- MODULE LeakMonitor -----------------------------
(***************************************************************************)
(* tool/leaktracer/mon.sh: puts an instrumented hudhmi (linked against     *)
(* libleaktracer) in place of the service's binary, waits for its memory   *)
(* to grow past one threshold to start collecting, past another to report, *)
(* and puts the original back.                                             *)
(*                                                                         *)
(* `mon.sh setup`, `mon.sh restore` and `mon.sh <end> <start>` run one at  *)
(* a time, any of them may be stopped by Ctrl-C, between two commands or   *)
(* in a `cp` of setup, which then leaves a part of the file, and nothing   *)
(* keeps them from being run in any order.  The service runs beside them:  *)
(* it may die, systemd starts it again, its memory changes, and it handles *)
(* the script's signals when it gets to it, if ever.                       *)
(***************************************************************************)
EXTENDS Integers

CONSTANTS
  MaxPid,       \* bound: processes hudhmi is started as
  MaxRss,       \* bound: steps of its resident set size
  Threshold     \* the values the script is given for END_RSS and START_RSS

ASSUME MaxPidAssumption == MaxPid \in Nat \ {0}
ASSUME MaxRssAssumption == MaxRss \in Nat
ASSUME ThresholdAssumption == Threshold \subseteq Nat

File == {"hudhmi", "start.sh"}
Pid == 1 .. MaxPid
Rss == 0 .. MaxRss
StartCollecting == 12   \* the signals libleaktracer is set up to handle
ReportLeaks == 30

VARIABLES
  mode,         \* what the script was run for
  pc,           \* where it stands, "idle" when it does not run
  pid,          \* its $pid, one global variable for all its functions; 0: ""
  start_pid,    \* its $start_pid
  current_mem,  \* its $current_mem; -1: ""
  started,      \* its $MONITORING_STARTED
  limit,        \* its $END_RSS and $START_RSS
  said,         \* how its last run ended
  file,         \* what is installed in /ccos/apps/hmi/hudhmi ...
  backup,       \* ... and what the files with .org behind their name are
  workdir,      \* is there a directory /rw_data/hudhmi.leakinfo?
  snap,         \* copies of /proc/<pid> in there: the pid and the postfix
  hmi,          \* the process of the service
  last_pid,     \* the pid it was last started with
  enabled,      \* systemd restarts it (it was not stopped)
  leaks,        \* the process that wrote leaks.out, 0 when there is no such file
  tested,       \* history: `leaks` when test_monitoring_work_or_not passed
  leftover,     \* history: there was a report, or a signal to be handled, from
                \* before start_and_report_leak
  dirty, again, \* history: setup was begun since the last restore; twice
  torn          \* history: restore was begun with a part of a file for .org

shellVars == <<mode, pc, pid, start_pid, current_mem, started, limit, said>>
diskVars == <<file, backup, workdir, snap>>
hmiVars == <<hmi, last_pid, enabled, leaks>>
testVars == <<tested, leftover>>
setupVars == <<dirty, again, torn>>
vars == <<shellVars, diskVars, hmiVars, testVars, setupVars>>

Process == [pid : 0 .. MaxPid, traced : BOOLEAN, collecting : BOOLEAN,
            pending : SUBSET {StartCollecting, ReportLeaks}, rss : Rss]

Dead == [pid |-> 0, traced |-> FALSE, collecting |-> FALSE, pending |-> {},
         rss |-> 0]

NoLimit == [end |-> 0, start |-> 0]   \* `setup` and `restore` have none

(* What a file is; "partial" when the copy to it was cut short.            *)
Installed == {"original", "traced", "partial"}

LeakTypeOK ==
  /\ mode \in {"setup", "restore", "mon"}
  /\ pc \in {"idle", "stop", "save hudhmi", "saving hudhmi", "put hudhmi",
             "putting hudhmi", "save start.sh", "saving start.sh", "put start.sh",
             "putting start.sh", "install", "mv hudhmi", "mv start.sh", "restart",
             "grep", "pidof", "kill 12", "kill 30", "test", "clean", "mon",
             "mon clean", "loop", "ps", "compare", "kill end", "cp end"}
  /\ pid \in 0 .. MaxPid /\ start_pid \in 0 .. MaxPid
  /\ current_mem \in {-1} \cup Rss
  /\ started \in BOOLEAN
  /\ limit \in [end : Threshold, start : Threshold] \cup {NoLimit}
  /\ said \in {"nothing", "setup done", "restored", "failed", "leak", "stopped"}
  /\ file \in [File -> Installed]
  /\ backup \in [File -> Installed \cup {"none"}]
  /\ workdir \in BOOLEAN
  /\ snap \in SUBSET (Pid \X {"start", "last", "end"})
  /\ hmi \in Process /\ hmi.pid \in {0, last_pid}
  /\ last_pid \in Pid
  /\ enabled \in BOOLEAN
  /\ leaks \in 0 .. MaxPid /\ tested \in 0 .. MaxPid
  /\ {leftover, dirty, again, torn} \subseteq BOOLEAN

Init ==
  /\ mode = "setup" /\ pc = "idle" /\ said = "nothing"
  /\ pid = 0 /\ start_pid = 0 /\ current_mem = -1 /\ started = FALSE
  /\ limit = NoLimit
  /\ file = [f \in File |-> "original"] /\ backup = [f \in File |-> "none"]
  /\ workdir = FALSE /\ snap = {}
  /\ hmi = [Dead EXCEPT !.pid = 1] /\ last_pid = 1 /\ enabled = TRUE
  /\ leaks = 0 /\ tested = 0 /\ leftover = FALSE
  /\ dirty = FALSE /\ again = FALSE /\ torn = FALSE

-----------------------------------------------------------------------------
(* The script.                                                             *)

Go(from, to) ==
  /\ pc = from
  /\ pc' = to
  /\ UNCHANGED <<mode, said>>

Exit(from, message) ==
  /\ pc = from
  /\ pc' = "idle"
  /\ said' = message
  /\ UNCHANGED mode

loopVars == <<pid, start_pid, current_mem, started, limit>>

(* Lines 164 to 182: a run begins, with its variables unset.               *)
Begin ==
  /\ pc = "idle"
  /\ said' = "nothing"
  /\ pid' = 0 /\ start_pid' = 0 /\ current_mem' = -1 /\ started' = FALSE
  /\ tested' = 0 /\ leftover' = FALSE
  /\ \/ /\ mode' \in {"setup", "restore"}
        /\ pc' = "stop"
        /\ limit' = NoLimit
     \/ /\ mode' = "mon"
        /\ pc' = "mon"
        /\ limit' \in [end : Threshold, start : Threshold]
  /\ dirty' = (dirty \/ mode' = "setup")
  /\ again' = (again \/ (dirty /\ mode' = "setup"))
  /\ torn' = (torn \/ (mode' = "restore" /\ \E f \in File : backup[f] = "partial"))
  /\ UNCHANGED <<diskVars, hmiVars>>

(* systemctl stop hudhmi                                                   *)
Stop ==
  /\ Go("stop", IF mode = "setup" THEN "save hudhmi" ELSE "mv hudhmi")
  /\ hmi' = Dead
  /\ enabled' = FALSE
  /\ UNCHANGED <<loopVars, diskVars, last_pid, leaks, testVars, setupVars>>

(* Mutant of Kept: the copy is made when the instrumented file is in place.*)
KeptTooLate(f) == "traced"

(* What `cp <file> <file>.org` finds in <file>                             *)
Kept(f) == file[f]

(* cp is two steps, open (which truncates what is there) and the copying;  *)
(* Ctrl-C between them takes cp too, and leaves the part it has written.   *)

(* env_setup: cp <file> <file>.org, whatever is installed already          *)
Save(f, from, copying, to) ==
  /\ \/ Go(from, copying) /\ backup' = [backup EXCEPT ![f] = "partial"]
     \/ Go(copying, to) /\ backup' = [backup EXCEPT ![f] = Kept(f)]
  /\ UNCHANGED <<loopVars, file, workdir, snap, hmiVars, testVars, setupVars>>

(* env_setup: cp hudhmi ..., cp start.sh ...                               *)
Put(f, from, copying, to) ==
  /\ \/ Go(from, copying) /\ file' = [file EXCEPT ![f] = "partial"]
     \/ Go(copying, to) /\ file' = [file EXCEPT ![f] = "traced"]
  /\ UNCHANGED <<loopVars, backup, workdir, snap, hmiVars, testVars, setupVars>>

(* env_setup: cp libleaktracer.so /usr/lib; mkdir $PATH_WORKING_DIR        *)
Install ==
  /\ Go("install", "restart")
  /\ workdir' = TRUE
  /\ UNCHANGED <<loopVars, file, backup, snap, hmiVars, testVars, setupVars>>

(* restore: mv <file>.org <file>, which fails when there is no <file>.org. *)
(* Within one directory it is one rename, before Ctrl-C or behind it.      *)
MoveBack(f, from, to) ==
  /\ Go(from, to)
  /\ file' = [file EXCEPT ![f] = IF backup[f] = "none" THEN @ ELSE backup[f]]
  /\ backup' = [backup EXCEPT ![f] = "none"]
  /\ UNCHANGED <<loopVars, workdir, snap, hmiVars, testVars, setupVars>>

(* A process of the service as it starts.  The library gets into it by     *)
(* the instrumented files, or what there is of them, if at all.            *)
Started ==
  [pid : {last_pid + 1}, traced : {FALSE, \E f \in File : file[f] # "original"},
   collecting : {FALSE}, pending : {{}}, rss : {0}]

(* systemctl restart hudhmi                                                *)
Restart ==
  /\ IF mode = "setup" THEN Go("restart", "grep") ELSE Exit("restart", "restored")
  /\ last_pid < MaxPid
  /\ hmi' \in Started
  /\ last_pid' = last_pid + 1
  /\ enabled' = TRUE
  /\ dirty' = (dirty /\ mode = "setup")
  /\ UNCHANGED <<loopVars, diskVars, leaks, testVars, again, torn>>

(* env_setup: grep leaktracer /proc/`pidof hudhmi`/maps.  Without a        *)
(* process there is no such file, grep returns 2, and 2 is not 1.          *)
GrepMaps ==
  /\ \/ hmi.pid # 0 /\ ~hmi.traced /\ Exit("grep", "failed")
     \/ (hmi.pid = 0 \/ hmi.traced) /\ Go("grep", "pidof")
  /\ UNCHANGED <<loopVars, diskVars, hmiVars, testVars, setupVars>>

(* start_and_report_leak: pid=`pidof $process`                             *)
FindProcess ==
  /\ Go("pidof", "kill 12")
  /\ pid' = hmi.pid
  /\ leftover' = (leaks # 0 \/ hmi.pending # {})
  /\ UNCHANGED <<start_pid, current_mem, started, limit, diskVars, hmiVars,
                 tested, setupVars>>

(* What becomes of the service's process when $pid is sent a signal.  One  *)
(* without the library may die of it.                                      *)
Signalled(n) ==
  IF pid = 0 \/ pid # hmi.pid THEN {hmi}
  ELSE IF hmi.traced THEN {[hmi EXCEPT !.pending = @ \cup {n}]}
  ELSE {hmi, Dead}

(* kill -n <n> $pid                                                        *)
KillPid(n, from, to) ==
  /\ Go(from, to)
  /\ hmi' \in Signalled(n)
  /\ UNCHANGED <<loopVars, diskVars, last_pid, enabled, leaks, testVars,
                 setupVars>>

(* Mutant of ReportCreated: the file is not looked for.                    *)
ReportTakenForGranted == TRUE

(* [ -f /ccos/apps/hmi/hudhmi/leaks.out ]                                  *)
ReportCreated == leaks # 0

(* test_monitoring_work_or_not, 3 s later                                  *)
TestMonitoring ==
  /\ IF ReportCreated THEN Go("test", "clean") ELSE Exit("test", "failed")
  /\ tested' = leaks
  /\ UNCHANGED <<loopVars, diskVars, hmiVars, leftover, setupVars>>

(* Mutant of CleanPrevFiles: leaks.out stays.                              *)
CleanPrevFilesButLeaks ==
  /\ IF mode = "setup" THEN Exit("clean", "setup done") ELSE Go("clean", "loop")
  /\ started' = (started \/ mode = "mon")
  /\ UNCHANGED <<pid, start_pid, current_mem, limit, diskVars, hmiVars,
                 testVars, setupVars>>

(* clean_prev_files, the last thing setup does; mon_start sets             *)
(* MONITORING_STARTED behind it.                                           *)
CleanPrevFiles ==
  /\ IF mode = "setup" THEN Exit("clean", "setup done") ELSE Go("clean", "loop")
  /\ leaks' = 0
  /\ started' = (started \/ mode = "mon")
  /\ UNCHANGED <<pid, start_pid, current_mem, limit, diskVars, hmi, last_pid,
                 enabled, testVars, setupVars>>

(* cp_proc_meminfo, of a process that is there                             *)
Copied(p, postfix) ==
  IF workdir /\ p # 0 /\ p = hmi.pid THEN snap \cup {<<p, postfix>>} ELSE snap

(* mon_start: start_pid=`pidof hudhmi`                                     *)
MonStart ==
  /\ Go("mon", "mon clean")
  /\ start_pid' = hmi.pid
  /\ UNCHANGED <<pid, current_mem, started, limit, diskVars, hmiVars, testVars,
                 setupVars>>

(* mon_start: clean_prev_files; cp_proc_meminfo "$start_pid" "start"       *)
MonClean ==
  /\ Go("mon clean", "loop")
  /\ leaks' = 0
  /\ snap' = Copied(start_pid, "start")
  /\ UNCHANGED <<loopVars, file, backup, workdir, hmi, last_pid, enabled,
                 testVars, setupVars>>

(* mon_start: pid=`pidof hudhmi`                                           *)
ReadPid ==
  /\ Go("loop", "ps")
  /\ pid' = hmi.pid
  /\ UNCHANGED <<start_pid, current_mem, started, limit, diskVars, hmiVars,
                 testVars, setupVars>>

(* mon_start: current_mem=`ps ... | grep hudhmi ...`                       *)
ReadMem ==
  /\ Go("ps", "compare")
  /\ current_mem' = IF hmi.pid = 0 THEN -1 ELSE hmi.rss
  /\ UNCHANGED <<pid, start_pid, started, limit, diskVars, hmiVars, testVars,
                 setupVars>>

(* Mutant of Decision: `if` for `elif`, with the test of                   *)
(* MONITORING_STARTED forgotten.                                           *)
DecisionForgetful ==
  CASE current_mem > limit.start -> "pidof"
    [] started /\ current_mem > limit.end -> "kill end"
    [] OTHER -> "loop"

(* The two comparisons of mon_start.  With an empty $current_mem `[`       *)
(* fails, as if it were not greater.                                       *)
Decision ==
  CASE ~started /\ current_mem > limit.start -> "pidof"
    [] started /\ current_mem > limit.end -> "kill end"
    [] OTHER -> "loop"

(* mon_start: cp_proc_meminfo "$pid" "last", and the sleep of a round in   *)
(* which nothing is to be done                                             *)
Compare ==
  /\ Go("compare", Decision)
  /\ snap' = Copied(pid, "last")
  /\ UNCHANGED <<loopVars, file, backup, workdir, hmiVars, testVars, setupVars>>

(* mon_start: cp_proc_meminfo "$pid" "end"; exit 0                         *)
CopyEnd ==
  /\ Exit("cp end", "leak")
  /\ snap' = Copied(pid, "end")
  /\ UNCHANGED <<loopVars, file, backup, workdir, hmiVars, testVars, setupVars>>

(* Mutants of LeakSignals: the two signals in the other order; a number    *)
(* mistyped.                                                               *)
LeakSignalsSwapped ==
  \/ KillPid(ReportLeaks, "kill 12", "kill 30")
  \/ KillPid(StartCollecting, "kill 30", "test")
LeakSignalsMistyped ==
  \/ KillPid(StartCollecting, "kill 12", "kill 30")
  \/ KillPid(3, "kill 30", "test")

(* start_and_report_leak: kill -n 12 $pid; kill -n 30 $pid                 *)
LeakSignals ==
  \/ KillPid(StartCollecting, "kill 12", "kill 30")
  \/ KillPid(ReportLeaks, "kill 30", "test")

SetupStep ==
  \/ Save("hudhmi", "save hudhmi", "saving hudhmi", "put hudhmi")
  \/ Put("hudhmi", "put hudhmi", "putting hudhmi", "save start.sh")
  \/ Save("start.sh", "save start.sh", "saving start.sh", "put start.sh")
  \/ Put("start.sh", "put start.sh", "putting start.sh", "install")
  \/ Install \/ GrepMaps

RestoreStep ==
  \/ MoveBack("hudhmi", "mv hudhmi", "mv start.sh")
  \/ MoveBack("start.sh", "mv start.sh", "restart")

MonStep ==
  \/ MonStart \/ MonClean \/ ReadPid \/ ReadMem \/ Compare
  \/ KillPid(ReportLeaks, "kill end", "cp end")
  \/ CopyEnd

ScriptStep ==
  \/ Stop \/ Restart \/ SetupStep \/ RestoreStep \/ MonStep
  \/ FindProcess \/ LeakSignals \/ TestMonitoring \/ CleanPrevFiles

(* Ctrl-C                                                                  *)
Interrupt ==
  /\ pc # "idle"
  /\ pc' = "idle"
  /\ said' = "stopped"
  /\ UNCHANGED <<mode, loopVars, diskVars, hmiVars, testVars, setupVars>>

-----------------------------------------------------------------------------
(* The service, as far as the script can tell.                             *)

Alive == hmi.pid # 0

Die ==
  /\ Alive
  /\ hmi' = Dead
  /\ UNCHANGED <<shellVars, diskVars, last_pid, enabled, leaks, testVars,
                 setupVars>>

(* systemd starts it again.                                                *)
Respawn ==
  /\ ~Alive /\ enabled
  /\ last_pid < MaxPid
  /\ hmi' \in Started
  /\ last_pid' = last_pid + 1
  /\ UNCHANGED <<shellVars, diskVars, enabled, leaks, testVars, setupVars>>

ChangeRss ==
  /\ Alive
  /\ \E r \in Rss \ {hmi.rss} : hmi' = [hmi EXCEPT !.rss = r]
  /\ UNCHANGED <<shellVars, diskVars, last_pid, enabled, leaks, testVars,
                 setupVars>>

(* libleaktracer handles the signals, the one with the lower number first. *)
HandleStart ==
  /\ StartCollecting \in hmi.pending
  /\ hmi' = [hmi EXCEPT !.collecting = TRUE, !.pending = @ \ {StartCollecting}]
  /\ UNCHANGED <<shellVars, diskVars, last_pid, enabled, leaks, testVars,
                 setupVars>>

HandleReport ==
  /\ hmi.pending = {ReportLeaks}
  /\ hmi' = [hmi EXCEPT !.pending = {}]
  /\ leaks' = hmi.pid
  /\ UNCHANGED <<shellVars, diskVars, last_pid, enabled, testVars, setupVars>>

HmiStep == Die \/ Respawn \/ ChangeRss \/ HandleStart \/ HandleReport

Next == Begin \/ ScriptStep \/ Interrupt \/ HmiStep

Spec == Init /\ [][Next]_vars

(* A script that runs is scheduled; the service need not do anything.      *)
FairSpec == Spec /\ WF_vars(ScriptStep)

-----------------------------------------------------------------------------
(* Properties.                                                             *)

(* Whatever Ctrl-C stops, each original file is in place or behind .org,   *)
(* and restore brings both back: but for setup run again before a restore  *)
(* has come to its end, and for restore run after a setup was stopped in   *)
(* the midst of `cp <file> <file>.org`, which puts the part of the copy in *)
(* place of an original that was still there.                              *)
OneSetupIsUndone ==
  ~again /\ ~torn => \A f \in File :
    /\ file[f] = "original" \/ backup[f] = "original"
    /\ said = "restored" => file[f] = "original"

(* "report success": when nothing was left over from an earlier run, the   *)
(* process the script sent its signals to has written leaks.out since.     *)
TestMeansReport ==
  pc = "clean" /\ ~leftover => tested # 0 /\ tested = pid

(* At the end of monitoring the process that is told to report has been    *)
(* collecting, if it is the one that was told to collect.                  *)
LeakWasCollected ==
  said = "leak" /\ ~leftover /\ pid = tested /\ hmi.pid = pid => hmi.collecting

(* ... and leaks.out is not an older report.                               *)
EndReportIsNew ==
  said = "leak" /\ ~leftover => leaks \in {0, pid}

(* A process that stays beyond END_RSS is noticed, once it was collecting. *)
LeakNoticed ==
  \A p \in Pid :
    (mode = "mon" /\ pc # "idle" /\ started /\ hmi.pid = p) ~>
      (pc = "idle" \/ hmi.pid # p \/ hmi.rss <= limit.end)

(* `restore` puts back what was there before setup, once every copy it     *)
(* finds behind .org is a whole one.                                       *)
RestoreRestores ==
  said = "restored" /\ ~torn => \A f \in File : file[f] = "original"

-----------------------------------------------------------------------------
(* The inductive invariant OneSetupIsUndone rests on.                      *)

DiskTypeOK ==
  /\ file \in [File -> Installed]
  /\ backup \in [File -> Installed \cup {"none"}]

(* Setup before, and in, its four cp commands                              *)
Copies == {"save hudhmi", "saving hudhmi", "put hudhmi", "putting hudhmi",
           "save start.sh", "saving start.sh", "put start.sh", "putting start.sh"}

(* Which commands belong to which run; setup makes the service dirty.      *)
ModeFlow ==
  /\ pc \in Copies \cup {"install"} => mode = "setup"
  /\ pc \in {"mv hudhmi", "mv start.sh"} => mode = "restore"
  /\ pc \in {"stop", "restart"} => mode \in {"setup", "restore"}
  /\ pc # "idle" /\ mode = "setup" => dirty
  /\ said = "restored" => ~dirty

Original(f) == file[f] = "original"

(* Until setup is run on top of another, or restore on a part of a copy:   *)
(* no backup is instrumented, and what is not in place is backed up; no    *)
(* restore under way finds a part.                                         *)
Undoable ==
  /\ \A f \in File : backup[f] # "traced" /\ (Original(f) \/ backup[f] = "original")
  /\ ~dirty => \A f \in File : Original(f)
  /\ pc = "stop" /\ mode = "setup" => \A f \in File : Original(f)
  /\ pc \in {"save hudhmi", "saving hudhmi"} => Original("hudhmi")
  /\ pc \in {"put hudhmi", "putting hudhmi"} => backup["hudhmi"] = "original"
  /\ pc \in {"save hudhmi", "saving hudhmi", "put hudhmi", "putting hudhmi",
             "save start.sh", "saving start.sh"} => Original("start.sh")
  /\ pc \in {"put start.sh", "putting start.sh"} => backup["start.sh"] = "original"
  /\ pc # "idle" /\ mode = "restore" => \A f \in File : backup[f] # "partial"
  /\ pc \in {"mv start.sh", "restart"} /\ mode = "restore" => Original("hudhmi")
  /\ pc = "restart" /\ mode = "restore" => Original("start.sh")

UndoInv == DiskTypeOK /\ ModeFlow /\ (~again /\ ~torn => Undoable)

-----------------------------------------------------------------------------
(* The inductive invariant TestMeansReport, LeakWasCollected and           *)
(* EndReportIsNew rest on.                                                 *)

(* The script knows no process that has not been started yet, and a dead   *)
(* one has no signal to handle.                                            *)
KnownPids ==
  /\ {pid, start_pid, leaks, tested} \subseteq 0 .. last_pid
  /\ hmi.pid = 0 => hmi.pending = {}

(* $MONITORING_STARTED is set once, behind a test that has passed.         *)
TestFlow ==
  /\ pc # "idle" => said = "nothing"
  /\ pc \in {"pidof", "kill 12", "kill 30", "test", "clean", "mon", "mon clean"} => ~started
  /\ pc \in Copies \cup {"stop", "install", "mv hudhmi", "mv start.sh", "restart",
                       "grep"} => ~started
  /\ pc \in {"kill end", "cp end"} \/ said = "leak" => started
  /\ pc = "clean" \/ started => tested # 0

(* A signal waits for nobody but the process $pid names.                   *)
OnlyPidSignalled == hmi.pending # {} => hmi.pid = pid

TestedCollects == hmi.pid = tested => hmi.collecting

(* What start_and_report_leak brings about with the two signals, when      *)
(* nothing was left over before it ...                                     *)
ReportsInOrder ==
  /\ pc = "kill 12" => leaks = 0 /\ hmi.pending = {}
  /\ pc = "kill 30" =>
       /\ leaks = 0 /\ OnlyPidSignalled
       /\ hmi.pending # {} => hmi.pending = {StartCollecting}
       /\ hmi.pid = pid /\ hmi.pid # 0 /\ hmi.traced =>
            StartCollecting \in hmi.pending \/ hmi.collecting
  /\ pc = "test" =>
       /\ leaks \in {0, pid} /\ OnlyPidSignalled
       /\ ReportLeaks \in hmi.pending => StartCollecting \in hmi.pending \/ hmi.collecting
       /\ leaks # 0 => hmi.pending = {} /\ (hmi.pid = leaks => hmi.collecting)
  /\ pc = "clean" => tested = pid /\ hmi.pending = {} /\ TestedCollects

(* ... and what is true of the monitoring behind it.                       *)
MonitoredInOrder ==
  /\ TestedCollects
  /\ pc \in {"loop", "ps", "compare", "kill end"} => leaks = 0 /\ hmi.pending = {}
  /\ pc = "cp end" \/ said = "leak" => leaks \in {0, pid} /\ OnlyPidSignalled

ReportInv ==
  /\ LeakTypeOK /\ KnownPids /\ TestFlow
  /\ ~leftover => ReportsInOrder /\ (started => MonitoredInOrder)
=============================================================================

------------------------- MODULE LeakMonitor_proofs -------------------------
(***************************************************************************)
(* Proofs about module LeakMonitor, for any bounds and thresholds: setup   *)
(* run once is undone by restore, wherever either is interrupted, unless   *)
(* restore takes a copy that was cut short for a whole one; the report     *)
(* start_and_report_leak asks for is there when its test passes, and what  *)
(* monitoring ends with is of the process that was tested.                 *)
(***************************************************************************)
EXTENDS LeakMonitor, TLAPS

(* A run begins: with setup, either on a service restore has cleaned, or   *)
(* on top of another setup.                                                *)
LEMMA BeginUndo ==
  ASSUME UndoInv, Begin
  PROVE  UndoInv'
  BY DEF UndoInv, DiskTypeOK, ModeFlow, Undoable, Original, File, Begin, diskVars,
         Copies

(* Commands that touch neither the installed files nor their backups, and  *)
(* do not lead to one that does.                                           *)
LEMMA OtherUndo ==
  ASSUME UndoInv, UNCHANGED <<file, backup, dirty, again, torn, mode>>,
         \/ UNCHANGED <<pc, said>>
         \/ pc' = "idle" /\ said' # "restored"
         \/ /\ said' = said /\ pc # "idle"
            /\ pc' \notin Copies \cup {"stop", "install", "mv hudhmi", "mv start.sh",
                                     "restart"}
  PROVE  UndoInv'
  BY DEF UndoInv, DiskTypeOK, ModeFlow, Undoable, Original, Copies

(* env_setup and restore keep every original in place or behind .org.      *)
LEMMA DiskUndo ==
  ASSUME UndoInv, Stop \/ Install \/ Restart \/ RestoreStep
                  \/ SetupStep
  PROVE  UndoInv'
<1> USE DEF UndoInv, DiskTypeOK, ModeFlow, Undoable, Original, File, Installed,
            Copies, Go, Exit, loopVars, diskVars, setupVars
<1>1. CASE Stop
  BY <1>1 DEF Stop
<1>2. CASE Install
  BY <1>2 DEF Install
<1>3. CASE Restart
  BY <1>3 DEF Restart
<1>4. CASE MoveBack("hudhmi", "mv hudhmi", "mv start.sh")
  BY <1>4 DEF MoveBack
<1>5. CASE MoveBack("start.sh", "mv start.sh", "restart")
  BY <1>5 DEF MoveBack
<1>6. CASE Save("hudhmi", "save hudhmi", "saving hudhmi", "put hudhmi")
  BY <1>6 DEF Save, Kept
<1>7. CASE Put("hudhmi", "put hudhmi", "putting hudhmi", "save start.sh")
  BY <1>7 DEF Put
<1>8. CASE Save("start.sh", "save start.sh", "saving start.sh", "put start.sh")
  BY <1>8 DEF Save, Kept
<1>9. CASE Put("start.sh", "put start.sh", "putting start.sh", "install")
  BY <1>9 DEF Put
<1>10. CASE GrepMaps
  BY <1>10 DEF GrepMaps
<1>. QED
  BY <1>1, <1>2, <1>3, <1>4, <1>5, <1>6, <1>7, <1>8, <1>9, <1>10
     DEF RestoreStep, SetupStep

(* Neither monitoring nor the service touches what is installed.           *)
LEMMA ElsewhereUndo ==
  ASSUME UndoInv,
         \/ MonStep \/ FindProcess \/ LeakSignals \/ TestMonitoring
         \/ CleanPrevFiles \/ Interrupt \/ HmiStep \/ UNCHANGED vars
  PROVE  UndoInv'
<1> USE DEF Go, Exit, Copies, shellVars, loopVars, diskVars, setupVars
<1>1. CASE MonStep
  <2>1. Decision \in {"pidof", "kill end", "loop"}
    BY DEF Decision
  <2>. QED
    BY <1>1, <2>1, OtherUndo
       DEF MonStep, MonStart, MonClean, ReadPid, ReadMem, Compare, KillPid, CopyEnd
<1>2. CASE FindProcess \/ LeakSignals \/ TestMonitoring \/ CleanPrevFiles
  BY <1>2, OtherUndo
     DEF FindProcess, LeakSignals, KillPid, TestMonitoring, CleanPrevFiles
<1>3. CASE Interrupt
  BY <1>3, OtherUndo DEF Interrupt
<1>4. CASE HmiStep
  BY <1>4, OtherUndo
     DEF HmiStep, Die, Respawn, ChangeRss, HandleStart, HandleReport
<1>5. CASE UNCHANGED vars
  BY <1>5, OtherUndo DEF vars
<1>. QED
  BY <1>1, <1>2, <1>3, <1>4, <1>5

(* Setup run once can be undone wherever it or restore is stopped, and     *)
(* restore does so; only a restore that finds a copy cut short for .org is *)
(* excepted, and setup run again.                                          *)
THEOREM SetupIsUndone == Spec => []OneSetupIsUndone
<1>1. Init => UndoInv
  BY DEF Init, UndoInv, DiskTypeOK, ModeFlow, Undoable, Original, File, Installed, Copies
<1>2. UndoInv /\ [Next]_vars => UndoInv'
  BY BeginUndo, DiskUndo, ElsewhereUndo DEF Next, ScriptStep
<1>3. UndoInv => OneSetupIsUndone
  BY DEF UndoInv, ModeFlow, Undoable, Original, OneSetupIsUndone
<1>. QED
  BY <1>1, <1>2, <1>3, PTL DEF Spec

-----------------------------------------------------------------------------
(* The types of the variables of mon.sh and of the service.                *)

ShellTypes ==
  /\ mode \in {"setup", "restore", "mon"}
  /\ pc \in {"idle", "stop", "save hudhmi", "saving hudhmi", "put hudhmi",
             "putting hudhmi", "save start.sh", "saving start.sh", "put start.sh",
             "putting start.sh", "install", "mv hudhmi", "mv start.sh", "restart",
             "grep", "pidof", "kill 12", "kill 30", "test", "clean", "mon",
             "mon clean", "loop", "ps", "compare", "kill end", "cp end"}
  /\ said \in {"nothing", "setup done", "restored", "failed", "leak", "stopped"}
LoopTypes ==
  /\ pid \in 0 .. MaxPid /\ start_pid \in 0 .. MaxPid
  /\ current_mem \in {-1} \cup Rss
  /\ limit \in [end : Threshold, start : Threshold] \cup {NoLimit}
WorkTypes == workdir \in BOOLEAN /\ snap \in SUBSET (Pid \X {"start", "last", "end"})
ServiceTypes == hmi \in Process /\ hmi.pid \in {0, last_pid} /\ last_pid \in Pid
FlagTypes == started \in BOOLEAN /\ enabled \in BOOLEAN
ReportTypes == leaks \in 0 .. MaxPid /\ tested \in 0 .. MaxPid
HistoryTypes == {leftover, dirty, again, torn} \subseteq BOOLEAN

LEMMA TypeParts ==
  LeakTypeOK <=> /\ ShellTypes /\ LoopTypes /\ DiskTypeOK /\ WorkTypes
                 /\ ServiceTypes /\ FlagTypes /\ ReportTypes /\ HistoryTypes
BY Zenon DEF LeakTypeOK, ShellTypes, LoopTypes, DiskTypeOK, WorkTypes, ServiceTypes,
   FlagTypes, ReportTypes, HistoryTypes

LEMMA TypePartsNext ==
  LeakTypeOK' <=> /\ ShellTypes' /\ LoopTypes' /\ DiskTypeOK' /\ WorkTypes'
                  /\ ServiceTypes' /\ FlagTypes' /\ ReportTypes' /\ HistoryTypes'
BY Zenon DEF LeakTypeOK, ShellTypes, LoopTypes, DiskTypeOK, WorkTypes, ServiceTypes,
   FlagTypes, ReportTypes, HistoryTypes

(* Each part is about a few variables.                                     *)
LEMMA TypeFrame ==
  /\ LoopTypes /\ UNCHANGED loopVars => LoopTypes'
  /\ DiskTypeOK /\ UNCHANGED <<file, backup>> => DiskTypeOK'
  /\ WorkTypes /\ UNCHANGED <<workdir, snap>> => WorkTypes'
  /\ FlagTypes /\ UNCHANGED <<started, enabled>> => FlagTypes'
  /\ ReportTypes /\ UNCHANGED <<leaks, tested>> => ReportTypes'
  /\ HistoryTypes /\ UNCHANGED <<leftover, dirty, again, torn>> => HistoryTypes'
<1>1. LoopTypes /\ UNCHANGED loopVars => LoopTypes'
  BY DEF LoopTypes, loopVars
<1>2. DiskTypeOK /\ UNCHANGED <<file, backup>> => DiskTypeOK'
  BY DEF DiskTypeOK
<1>3. WorkTypes /\ UNCHANGED <<workdir, snap>> => WorkTypes'
  BY DEF WorkTypes
<1>4. FlagTypes /\ UNCHANGED <<started, enabled>> => FlagTypes'
  BY Zenon DEF FlagTypes
<1>5. ReportTypes /\ UNCHANGED <<leaks, tested>> => ReportTypes'
  BY DEF ReportTypes
<1>6. HistoryTypes /\ UNCHANGED <<leftover, dirty, again, torn>> => HistoryTypes'
  BY DEF HistoryTypes
<1>. QED
  BY <1>1, <1>2, <1>3, <1>4, <1>5, <1>6, Zenon

(* The service's process.                                                  *)
LEMMA ProcessTypes ==
  /\ Dead \in Process /\ Dead.pid = 0 /\ Dead.pending = {} /\ ~Dead.collecting
  /\ \A h \in Process :
       /\ h.pid \in 0 .. MaxPid /\ h.rss \in Rss
       /\ h.pending \subseteq {StartCollecting, ReportLeaks}
       /\ h.traced \in BOOLEAN /\ h.collecting \in BOOLEAN
BY MaxPidAssumption, MaxRssAssumption DEF Dead, Process, Rss

LEMMA StartedTypes ==
  ASSUME last_pid \in Pid, last_pid < MaxPid, NEW h \in Started
  PROVE  /\ h \in Process /\ h.pid = last_pid + 1 /\ last_pid + 1 \in Pid
         /\ h.pending = {}
<1> DEFINE T == {FALSE, \E f \in File : file[f] # "original"}
<1>1. last_pid + 1 \in Pid /\ last_pid + 1 \in 0 .. MaxPid /\ 0 \in Rss
  BY MaxPidAssumption, MaxRssAssumption DEF Pid, Rss
<1>2. T \subseteq BOOLEAN
  BY Zenon
<1>3. h \in [pid : {last_pid + 1}, traced : T, collecting : {FALSE},
            pending : {{}}, rss : {0}]
  BY DEF Started
<1> HIDE DEF T
<1>. QED
  BY <1>1, <1>2, <1>3 DEF Process

(* What a signal makes of it.                                              *)
LEMMA SignalledTypes ==
  ASSUME hmi \in Process, NEW n \in {StartCollecting, ReportLeaks},
         NEW h \in Signalled(n)
  PROVE  h \in Process /\ h.pid \in {0, hmi.pid}
<1>1. CASE pid = 0 \/ pid # hmi.pid
  BY <1>1 DEF Signalled
<1>2. CASE ~(pid = 0 \/ pid # hmi.pid) /\ hmi.traced
  BY <1>2 DEF Signalled, Process
<1>3. CASE ~(pid = 0 \/ pid # hmi.pid) /\ ~hmi.traced
  BY <1>3, ProcessTypes DEF Signalled
<1>. QED
  BY <1>1, <1>2, <1>3

LEMMA CopiedTypes ==
  ASSUME WorkTypes, ServiceTypes, NEW p, NEW postfix \in {"start", "last", "end"}
  PROVE  Copied(p, postfix) \in SUBSET (Pid \X {"start", "last", "end"})
BY DEF WorkTypes, ServiceTypes, Copied

(* Where the script goes.                                                  *)
LEMMA ShellTypeStep ==
  ASSUME ShellTypes, [Next]_vars
  PROVE  ShellTypes'
<1> USE DEF ShellTypes, Go, Exit
<1>1. CASE Begin
  BY <1>1 DEF Begin
<1>2. CASE Stop \/ Restart \/ FindProcess \/ LeakSignals \/ TestMonitoring \/ CleanPrevFiles
  <2>1. CASE Stop
    BY <2>1 DEF Stop
  <2>2. CASE Restart
    BY <2>2 DEF Restart
  <2>3. CASE FindProcess \/ LeakSignals
    BY <2>3 DEF FindProcess, LeakSignals, KillPid
  <2>4. CASE TestMonitoring
    BY <2>4 DEF TestMonitoring
  <2>5. CASE CleanPrevFiles
    BY <2>5 DEF CleanPrevFiles
  <2>. QED
    BY <1>2, <2>1, <2>2, <2>3, <2>4, <2>5
<1>3. CASE SetupStep \/ RestoreStep
  BY <1>3 DEF SetupStep, RestoreStep, Save, Put, Install, GrepMaps, MoveBack
<1>4. CASE MonStep
  <2>1. Decision \in {"pidof", "kill end", "loop"}
    BY DEF Decision
  <2>2. CASE MonStart \/ MonClean \/ ReadPid \/ ReadMem
    BY <2>2 DEF MonStart, MonClean, ReadPid, ReadMem
  <2>3. CASE Compare
    BY <2>1, <2>3 DEF Compare
  <2>4. CASE KillPid(ReportLeaks, "kill end", "cp end") \/ CopyEnd
    BY <2>4 DEF KillPid, CopyEnd
  <2>. QED
    BY <1>4, <2>2, <2>3, <2>4 DEF MonStep
<1>5. CASE Interrupt
  BY <1>5 DEF Interrupt
<1>6. CASE HmiStep \/ UNCHANGED vars
  BY <1>6 DEF HmiStep, Die, Respawn, ChangeRss, HandleStart, HandleReport,
              vars, shellVars
<1>. QED
  BY <1>1, <1>2, <1>3, <1>4, <1>5, <1>6 DEF Next, ScriptStep

(* What becomes of the service.                                            *)
LEMMA ServiceTypeStep ==
  ASSUME ServiceTypes, [Next]_vars
  PROVE  ServiceTypes'
<1> USE DEF hmiVars
<1>0. hmi \in Process /\ hmi.pid \in {0, last_pid} /\ last_pid \in Pid
  BY DEF ServiceTypes
<1>1. ASSUME UNCHANGED <<hmi, last_pid>>
      PROVE  ServiceTypes'
  BY <1>1 DEF ServiceTypes
<1>2. CASE Stop \/ Die
  <2>1. hmi' = Dead /\ last_pid' = last_pid
    BY <1>2 DEF Stop, Die
  <2>. QED
    BY <1>0, <2>1, ProcessTypes DEF ServiceTypes
<1>3. CASE Restart \/ Respawn
  <2>1. last_pid < MaxPid /\ hmi' \in Started /\ last_pid' = last_pid + 1
    BY <1>3 DEF Restart, Respawn
  <2>. QED
    BY <1>0, <2>1, StartedTypes DEF ServiceTypes
<1>4. ASSUME NEW n \in {StartCollecting, ReportLeaks}, NEW from, NEW to,
             KillPid(n, from, to)
      PROVE  ServiceTypes'
  <2>1. hmi' \in Signalled(n) /\ last_pid' = last_pid
    BY <1>4 DEF KillPid
  <2>. QED
    BY <1>0, <2>1, SignalledTypes DEF ServiceTypes
<1>5. CASE ChangeRss \/ HandleStart \/ HandleReport
  BY <1>0, <1>5 DEF ChangeRss, HandleStart, HandleReport, Process, ServiceTypes
<1>6. CASE Begin \/ SetupStep \/ RestoreStep \/ FindProcess \/ TestMonitoring
           \/ CleanPrevFiles \/ Interrupt \/ UNCHANGED vars
  BY <1>1, <1>6
     DEF Begin, SetupStep, RestoreStep, Save, Put, Install, GrepMaps, MoveBack,
         FindProcess, TestMonitoring, CleanPrevFiles, Interrupt, vars
<1>7. CASE MonStart \/ MonClean \/ ReadPid \/ ReadMem \/ Compare \/ CopyEnd
  BY <1>1, <1>7 DEF MonStart, MonClean, ReadPid, ReadMem, Compare, CopyEnd
<1>. QED
  BY <1>2, <1>3, <1>4, <1>5, <1>6, <1>7
     DEF Next, ScriptStep, MonStep, LeakSignals, HmiStep

(* What the script and the service do with the other variables.            *)
LEMMA OtherTypeStep ==
  ASSUME LoopTypes, DiskTypeOK, WorkTypes, FlagTypes, ReportTypes, HistoryTypes,
         ServiceTypes, [Next]_vars
  PROVE  /\ LoopTypes' /\ DiskTypeOK' /\ WorkTypes'
         /\ FlagTypes' /\ ReportTypes' /\ HistoryTypes'
<1> USE DEF diskVars, hmiVars, testVars, setupVars, shellVars
<1>0. /\ hmi \in Process /\ hmi.pid \in 0 .. MaxPid /\ hmi.rss \in Rss
      /\ 0 \in 0 .. MaxPid
  BY ProcessTypes, MaxPidAssumption DEF ServiceTypes
<1>1. CASE Begin
  <2>1. LoopTypes' /\ ReportTypes'
    BY <1>0, <1>1 DEF Begin, LoopTypes, ReportTypes
  <2>2. FlagTypes'
    BY <1>1, Zenon DEF Begin, FlagTypes
  <2>3. HistoryTypes'
    BY <1>1, Zenon DEF Begin, HistoryTypes
  <2>. QED
    BY <1>1, <2>1, <2>2, <2>3, TypeFrame DEF Begin
<1>2. CASE Stop
  <2>1. FlagTypes'
    BY <1>2, Zenon DEF Stop, FlagTypes, loopVars
  <2>. QED
    BY <1>2, <2>1, TypeFrame DEF Stop
<1>3. ASSUME NEW f \in File, NEW from, NEW copying, NEW to,
             Save(f, from, copying, to)
      PROVE  /\ LoopTypes' /\ DiskTypeOK' /\ WorkTypes'
             /\ FlagTypes' /\ ReportTypes' /\ HistoryTypes'
  <2>1. DiskTypeOK'
    BY <1>3 DEF Save, Kept, DiskTypeOK, Installed
  <2>. QED
    BY <1>3, <2>1, TypeFrame DEF Save, loopVars
<1>4. ASSUME NEW f \in File, NEW from, NEW copying, NEW to,
             Put(f, from, copying, to)
      PROVE  /\ LoopTypes' /\ DiskTypeOK' /\ WorkTypes'
             /\ FlagTypes' /\ ReportTypes' /\ HistoryTypes'
  <2>1. DiskTypeOK'
    BY <1>4 DEF Put, DiskTypeOK, Installed
  <2>. QED
    BY <1>4, <2>1, TypeFrame DEF Put, loopVars
<1>5. ASSUME NEW f \in File, NEW from, NEW to, MoveBack(f, from, to)
      PROVE  /\ LoopTypes' /\ DiskTypeOK' /\ WorkTypes'
             /\ FlagTypes' /\ ReportTypes' /\ HistoryTypes'
  <2>1. DiskTypeOK'
    BY <1>5 DEF MoveBack, DiskTypeOK, Installed
  <2>. QED
    BY <1>5, <2>1, TypeFrame DEF MoveBack, loopVars
<1>6. CASE Install
  <2>1. WorkTypes'
    BY <1>6 DEF Install, WorkTypes
  <2>. QED
    BY <1>6, <2>1, TypeFrame DEF Install, loopVars
<1>7. CASE GrepMaps
  BY <1>7, TypeFrame DEF GrepMaps, loopVars
<1>8. CASE Restart
  <2>1. FlagTypes'
    BY <1>8, Zenon DEF Restart, FlagTypes, loopVars
  <2>2. HistoryTypes'
    BY <1>8, Zenon DEF Restart, HistoryTypes
  <2>. QED
    BY <1>8, <2>1, <2>2, TypeFrame DEF Restart
<1>9. CASE FindProcess
  <2>1. LoopTypes'
    BY <1>0, <1>9 DEF FindProcess, LoopTypes
  <2>2. HistoryTypes'
    BY <1>9, Zenon DEF FindProcess, HistoryTypes
  <2>3. UNCHANGED <<file, backup, workdir, snap, started, enabled, leaks, tested>>
    BY <1>9 DEF FindProcess
  <2>4. DiskTypeOK' /\ WorkTypes'
    BY <2>3, TypeFrame
  <2>5. FlagTypes' /\ ReportTypes'
    BY <2>3, TypeFrame
  <2>. QED
    BY <2>1, <2>2, <2>4, <2>5
<1>10. ASSUME NEW n, NEW from, NEW to, KillPid(n, from, to)
       PROVE  /\ LoopTypes' /\ DiskTypeOK' /\ WorkTypes'
              /\ FlagTypes' /\ ReportTypes' /\ HistoryTypes'
  BY <1>10, TypeFrame DEF KillPid, loopVars
<1>11. CASE TestMonitoring
  <2>1. ReportTypes'
    BY <1>11 DEF TestMonitoring, ReportTypes
  <2>2. HistoryTypes'
    BY <1>11, Zenon DEF TestMonitoring, HistoryTypes
  <2>. QED
    BY <1>11, <2>1, <2>2, TypeFrame DEF TestMonitoring, loopVars
<1>12. CASE CleanPrevFiles
  <2>1. ReportTypes'
    BY <1>0, <1>12 DEF CleanPrevFiles, ReportTypes
  <2>2. FlagTypes'
    BY <1>12, Zenon DEF CleanPrevFiles, FlagTypes
  <2>3. LoopTypes'
    BY <1>12 DEF CleanPrevFiles, LoopTypes
  <2>. QED
    BY <1>12, <2>1, <2>2, <2>3, TypeFrame DEF CleanPrevFiles
<1>13. CASE MonStart \/ ReadPid \/ ReadMem
  <2>1. LoopTypes'
    BY <1>0, <1>13 DEF MonStart, ReadPid, ReadMem, LoopTypes
  <2>2. UNCHANGED <<file, backup, workdir, snap, started, enabled, leaks, tested,
                    leftover, dirty, again, torn>>
    BY <1>13 DEF MonStart, ReadPid, ReadMem
  <2>. QED
    BY <2>1, <2>2, TypeFrame
<1>14. CASE MonClean \/ Compare \/ CopyEnd
  <2>1. WorkTypes'
    BY <1>0, <1>14, CopiedTypes DEF MonClean, Compare, CopyEnd, WorkTypes
  <2>2. ReportTypes'
    BY <1>0, <1>14 DEF MonClean, Compare, CopyEnd, ReportTypes
  <2>3. UNCHANGED loopVars /\ UNCHANGED <<file, backup>>
        /\ UNCHANGED <<started, enabled>> /\ UNCHANGED <<leftover, dirty, again, torn>>
    BY <1>14 DEF MonClean, Compare, CopyEnd, loopVars
  <2>4. LoopTypes'
    BY <2>3, TypeFrame
  <2>5. DiskTypeOK'
    BY <2>3, TypeFrame
  <2>6. FlagTypes'
    BY <2>3, TypeFrame
  <2>7. HistoryTypes'
    BY <2>3, Zenon DEF HistoryTypes
  <2>. QED
    BY <2>1, <2>2, <2>4, <2>5, <2>6, <2>7
<1>15. CASE Interrupt
  BY <1>15, TypeFrame DEF Interrupt, loopVars
<1>16. CASE HmiStep \/ UNCHANGED vars
  <2>1. ReportTypes'
    BY <1>0, <1>16 DEF HmiStep, Die, Respawn, ChangeRss, HandleStart, HandleReport,
                       vars, ReportTypes
  <2>2. UNCHANGED <<loopVars, file, backup, workdir, snap, started, enabled,
                    testVars, setupVars>>
    BY <1>16 DEF HmiStep, Die, Respawn, ChangeRss, HandleStart, HandleReport, vars,
                 loopVars
  <2>. QED
    BY <2>1, <2>2, TypeFrame
<1>. QED
  BY <1>0, <1>1, <1>2, <1>3, <1>4, <1>5, <1>6, <1>7, <1>8, <1>9, <1>10, <1>11,
     <1>12, <1>13, <1>14, <1>15, <1>16
     DEF Next, ScriptStep, SetupStep, RestoreStep, MonStep, LeakSignals, File

(* The script and the service keep the types.                              *)
LEMMA LeakTypeStep ==
  ASSUME LeakTypeOK, [Next]_vars
  PROVE  LeakTypeOK'
<1>1. /\ ShellTypes /\ LoopTypes /\ DiskTypeOK /\ WorkTypes
      /\ ServiceTypes /\ FlagTypes /\ ReportTypes /\ HistoryTypes
  BY TypeParts
<1>. QED
  BY <1>1, ShellTypeStep, ServiceTypeStep, OtherTypeStep, TypePartsNext

-----------------------------------------------------------------------------
(* The reports.                                                            *)

(* What KnownPids and the types say of the pids.                           *)
LEMMA KnownFacts ==
  ASSUME LeakTypeOK, KnownPids
  PROVE  /\ pid \in Nat /\ start_pid \in Nat /\ leaks \in Nat /\ tested \in Nat
         /\ last_pid \in Nat \ {0}
         /\ pid <= last_pid /\ start_pid <= last_pid
         /\ leaks <= last_pid /\ tested <= last_pid
         /\ hmi.pid \in {0, last_pid}
         /\ hmi.pending \subseteq {StartCollecting, ReportLeaks}
         /\ hmi.pid = 0 => hmi.pending = {}
<1>1. hmi \in Process /\ hmi.pid \in {0, last_pid} /\ last_pid \in 1 .. MaxPid
  BY DEF LeakTypeOK, Pid
<1>2. hmi.pending \subseteq {StartCollecting, ReportLeaks}
  BY <1>1, ProcessTypes
<1>3. pid \in 0 .. last_pid /\ start_pid \in 0 .. last_pid
      /\ leaks \in 0 .. last_pid /\ tested \in 0 .. last_pid
  BY DEF KnownPids
<1>4. hmi.pid = 0 => hmi.pending = {}
  BY DEF KnownPids
<1>. QED
  BY <1>1, <1>2, <1>3, <1>4, MaxPidAssumption

(* The two signals are not the same.                                       *)
LEMMA TwoSignals == StartCollecting # ReportLeaks
BY DEF StartCollecting, ReportLeaks

(* A signal reaches $pid or nobody; without the library it is not kept.    *)
LEMMA SignalledFacts ==
  ASSUME hmi \in Process, NEW n \in {StartCollecting, ReportLeaks},
         NEW h \in Signalled(n)
  PROVE  \/ h = hmi /\ (pid = 0 \/ pid # hmi.pid \/ ~hmi.traced)
         \/ h.pid = 0 /\ h.pending = {} /\ ~h.collecting
         \/ /\ pid # 0 /\ pid = hmi.pid /\ hmi.traced
            /\ h.pid = hmi.pid /\ h.pending = hmi.pending \cup {n}
            /\ h.collecting = hmi.collecting /\ h.traced = hmi.traced
<1>1. CASE pid = 0 \/ pid # hmi.pid
  BY <1>1 DEF Signalled
<1>2. CASE ~(pid = 0 \/ pid # hmi.pid) /\ hmi.traced
  <2>1. h = [hmi EXCEPT !.pending = hmi.pending \cup {n}]
    BY <1>2 DEF Signalled
  <2>. QED
    BY <1>2, <2>1 DEF Process
<1>3. CASE ~(pid = 0 \/ pid # hmi.pid) /\ ~hmi.traced
  BY <1>3 DEF Signalled, Dead
<1>. QED
  BY <1>1, <1>2, <1>3

(* Every step keeps the pids the script knows among those started.         *)
LEMMA KnownPidsStep ==
  ASSUME LeakTypeOK, KnownPids, [Next]_vars
  PROVE  KnownPids'
<1>0. /\ pid \in Nat /\ start_pid \in Nat /\ leaks \in Nat /\ tested \in Nat
      /\ last_pid \in Nat \ {0}
      /\ pid <= last_pid /\ start_pid <= last_pid
      /\ leaks <= last_pid /\ tested <= last_pid
      /\ hmi.pid \in {0, last_pid} /\ (hmi.pid = 0 => hmi.pending = {})
      /\ hmi \in Process
  BY KnownFacts DEF LeakTypeOK
<1> USE DEF KnownPids, loopVars, diskVars, hmiVars, testVars, setupVars
<1>1. ASSUME UNCHANGED <<hmi, last_pid>>,
             pid' \in {0, pid, hmi.pid}, start_pid' \in {0, start_pid, hmi.pid},
             leaks' \in {0, leaks}, tested' \in {0, tested, leaks}
      PROVE  KnownPids'
  BY <1>0, <1>1
<1>2. ASSUME UNCHANGED <<pid, start_pid, tested, last_pid>>, leaks' \in {leaks, hmi.pid},
             hmi'.pid = 0 => hmi'.pending = {}
      PROVE  KnownPids'
  BY <1>0, <1>2
<1>3. CASE Stop \/ Die
  <2>1. hmi'.pending = {}
    BY <1>3, ProcessTypes DEF Stop, Die
  <2>. QED
    BY <1>2, <1>3, <2>1 DEF Stop, Die, shellVars
<1>4. CASE Restart \/ Respawn
  <2>1. last_pid' = last_pid + 1 /\ hmi' \in Started /\ last_pid < MaxPid
        /\ UNCHANGED <<pid, start_pid, tested, leaks>>
    BY <1>4 DEF Restart, Respawn, shellVars
  <2>2. hmi'.pending = {}
    BY <1>0, <2>1, StartedTypes DEF LeakTypeOK
  <2>. QED
    BY <1>0, <2>1, <2>2
<1>5. ASSUME NEW n \in {StartCollecting, ReportLeaks}, NEW from, NEW to,
             KillPid(n, from, to)
      PROVE  KnownPids'
  <2>1. hmi'.pid = 0 => hmi'.pending = {}
    BY <1>0, <1>5, SignalledFacts DEF KillPid
  <2>. QED
    BY <1>2, <1>5, <2>1 DEF KillPid
<1>6. CASE ChangeRss \/ HandleStart \/ HandleReport
  <2>1. hmi'.pid = hmi.pid /\ hmi'.pending \subseteq hmi.pending
    BY <1>0, <1>6 DEF ChangeRss, HandleStart, HandleReport, Process
  <2>. QED
    BY <1>0, <1>2, <1>6, <2>1 DEF ChangeRss, HandleStart, HandleReport, shellVars
<1>7. CASE Begin \/ SetupStep \/ RestoreStep \/ FindProcess \/ TestMonitoring
           \/ CleanPrevFiles \/ Interrupt \/ UNCHANGED vars
  BY <1>1, <1>7
     DEF Begin, SetupStep, RestoreStep, Save, Put, Install, GrepMaps, MoveBack,
         FindProcess, TestMonitoring, CleanPrevFiles, Interrupt, vars, shellVars
<1>8. CASE MonStart \/ MonClean \/ ReadPid \/ ReadMem \/ Compare \/ CopyEnd
  BY <1>1, <1>8 DEF MonStart, MonClean, ReadPid, ReadMem, Compare, CopyEnd
<1>. QED
  BY <1>3, <1>4, <1>5, <1>6, <1>7, <1>8
     DEF Next, ScriptStep, MonStep, LeakSignals, HmiStep

(* When the script sets and reads $MONITORING_STARTED.                     *)
LEMMA TestFlowStep ==
  ASSUME ShellTypes, FlagTypes, TestFlow, [Next]_vars
  PROVE  TestFlow'
<1> USE DEF TestFlow, Copies, Go, Exit, loopVars, diskVars, hmiVars, testVars, setupVars
<1>1. CASE Begin
  BY <1>1 DEF Begin
<1>2. CASE Stop
  BY <1>2 DEF Stop
<1>3. ASSUME UNCHANGED <<started, tested>>, ~started, said = "nothing",
             \/ /\ said' = "nothing"
                /\ pc' \in Copies \cup {"install", "restart", "mv start.sh", "pidof",
                                      "kill 12", "kill 30", "test"}
             \/ pc' = "idle" /\ said' = "failed"
      PROVE  TestFlow'
  BY <1>3
<1>4. CASE SetupStep \/ RestoreStep
  <2>1. UNCHANGED <<started, tested>>
    BY <1>4 DEF SetupStep, RestoreStep, Save, Put, Install, GrepMaps, MoveBack
  <2>2. pc \in Copies \cup {"install", "mv hudhmi", "mv start.sh", "grep"}
    BY <1>4 DEF SetupStep, RestoreStep, Save, Put, Install, GrepMaps, MoveBack
  <2>3. \/ /\ said' = said
           /\ pc' \in Copies \cup {"install", "restart", "mv start.sh", "pidof"}
        \/ pc' = "idle" /\ said' = "failed"
    BY <1>4 DEF SetupStep, RestoreStep, Save, Put, Install, GrepMaps, MoveBack
  <2>. QED
    BY <1>3, <2>1, <2>2, <2>3
<1>5. CASE Restart
  BY <1>5 DEF Restart
<1>6. CASE MonStep
  <2>1. pc = "compare" => Decision \in {"pidof", "kill end", "loop"}
                          /\ (Decision = "pidof" => ~started)
                          /\ (Decision = "kill end" => started)
    BY DEF Decision
  <2>2. UNCHANGED <<started, tested>>
    BY <1>6 DEF MonStep, MonStart, MonClean, ReadPid, ReadMem, Compare, KillPid, CopyEnd
  <2>3. CASE MonStart \/ MonClean
    BY <2>2, <2>3 DEF MonStart, MonClean
  <2>4. CASE ReadPid \/ ReadMem
    BY <2>2, <2>4 DEF ReadPid, ReadMem
  <2>5. CASE Compare
    <3>1. pc = "compare" /\ pc' = Decision /\ said' = said
      BY <2>5 DEF Compare
    <3>. QED
      BY <2>1, <2>2, <3>1
  <2>6. CASE KillPid(ReportLeaks, "kill end", "cp end")
    <3>1. pc = "kill end" /\ pc' = "cp end" /\ said' = said
      BY <2>6 DEF KillPid
    <3>. QED
      BY <2>2, <3>1
  <2>7. CASE CopyEnd
    <3>1. pc = "cp end" /\ pc' = "idle" /\ said' = "leak"
      BY <2>7 DEF CopyEnd
    <3>. QED
      BY <2>2, <3>1
  <2>. QED
    BY <1>6, <2>3, <2>4, <2>5, <2>6, <2>7 DEF MonStep
<1>7. CASE FindProcess \/ LeakSignals
  <2>1. UNCHANGED <<started, tested, said>>
    BY <1>7 DEF FindProcess, LeakSignals, KillPid
  <2>2. pc \in {"pidof", "kill 12", "kill 30"} /\ pc' \in {"kill 12", "kill 30", "test"}
    BY <1>7 DEF FindProcess, LeakSignals, KillPid
  <2>. QED
    BY <1>3, <2>1, <2>2
<1>8. CASE TestMonitoring
  BY <1>8 DEF TestMonitoring, ReportCreated
<1>9. CASE CleanPrevFiles
  BY <1>9 DEF CleanPrevFiles
<1>10. CASE Interrupt
  BY <1>10 DEF Interrupt
<1>11. CASE HmiStep \/ UNCHANGED vars
  <2>1. UNCHANGED <<pc, said, started, tested>>
    BY <1>11 DEF HmiStep, Die, Respawn, ChangeRss, HandleStart, HandleReport,
                 vars, shellVars
  <2>. QED
    BY <2>1
<1>. QED
  BY <1>1, <1>2, <1>4, <1>5, <1>6, <1>7, <1>8, <1>9, <1>10, <1>11
     DEF Next, ScriptStep

(* The two conjuncts of ReportInv that steps of the service disturb.       *)
Ordered == ~leftover => ReportsInOrder /\ (started => MonitoredInOrder)

(* The service dies, or is started again: its next process is none that    *)
(* the script knows, and neither has a signal to handle.                   *)
LEMMA OrderedNewProcess ==
  ASSUME LeakTypeOK, KnownPids, TestFlow, Ordered, Die \/ Respawn
  PROVE  Ordered'
<1>1. /\ UNCHANGED <<pc, said, pid, started, leftover, tested, leaks>>
      /\ hmi'.pending = {} /\ (hmi'.pid = 0 \/ hmi'.pid = last_pid + 1)
  <2>1. CASE Die
    BY <2>1, ProcessTypes DEF Die, shellVars, testVars
  <2>2. CASE Respawn
    <3>1. last_pid \in Pid
      BY DEF LeakTypeOK
    <3>. QED
      BY <2>2, <3>1, StartedTypes DEF Respawn, shellVars, testVars
  <2>. QED
    BY <2>1, <2>2
<1>2. /\ pid \in Nat /\ leaks \in Nat /\ tested \in Nat /\ last_pid \in Nat
      /\ pid <= last_pid /\ leaks <= last_pid /\ tested <= last_pid
  BY KnownFacts
<1>3. (pc = "clean" \/ started) => tested # 0
  BY DEF TestFlow
<1>4. hmi'.pid # 0 => hmi'.pid \notin {pid, leaks, tested}
  BY <1>1, <1>2
<1>. QED
  BY <1>1, <1>3, <1>4
     DEF Ordered, ReportsInOrder, MonitoredInOrder, OnlyPidSignalled, TestedCollects

(* Its process changes in size, or handles a signal.                       *)
LEMMA OrderedProcess ==
  ASSUME LeakTypeOK, KnownPids, Ordered, ChangeRss \/ HandleStart \/ HandleReport
  PROVE  Ordered'
<1>1. /\ UNCHANGED <<pc, said, pid, started, leftover, tested>>
      /\ hmi'.pid = hmi.pid /\ hmi'.traced = hmi.traced
  BY DEF LeakTypeOK, Process, ChangeRss, HandleStart, HandleReport, shellVars, testVars
<1>2. hmi.pending \subseteq {StartCollecting, ReportLeaks}
      /\ (hmi.pid = 0 => hmi.pending = {}) /\ StartCollecting # ReportLeaks
  BY KnownFacts, TwoSignals
<1> USE DEF Ordered, ReportsInOrder, MonitoredInOrder, OnlyPidSignalled, TestedCollects
<1>3. CASE ChangeRss
  <2>1. hmi'.pending = hmi.pending /\ hmi'.collecting = hmi.collecting /\ leaks' = leaks
    BY <1>3 DEF LeakTypeOK, Process, ChangeRss
  <2>. QED
    BY <1>1, <2>1
<1>4. CASE HandleStart
  <2>1. /\ hmi'.pending = hmi.pending \ {StartCollecting}
        /\ hmi'.collecting = TRUE /\ leaks' = leaks
        /\ StartCollecting \in hmi.pending
    BY <1>4 DEF LeakTypeOK, Process, HandleStart
  <2>. QED
    BY <1>1, <1>2, <2>1
<1>5. CASE HandleReport
  <2>1. /\ hmi'.pending = {} /\ hmi'.collecting = hmi.collecting
        /\ leaks' = hmi.pid /\ hmi.pending = {ReportLeaks}
    BY <1>5 DEF LeakTypeOK, Process, HandleReport
  <2>. QED
    BY <1>1, <1>2, <2>1
<1>. QED
  BY <1>3, <1>4, <1>5

(* start_and_report_leak, and the way from it into the loop.               *)
LEMMA OrderedTest ==
  ASSUME LeakTypeOK, KnownPids, TestFlow, Ordered,
         FindProcess \/ LeakSignals \/ TestMonitoring \/ CleanPrevFiles
  PROVE  Ordered'
<1> USE DEF Ordered, ReportsInOrder, MonitoredInOrder, OnlyPidSignalled, TestedCollects,
            Go, Exit
<1>0. hmi \in Process
  BY DEF LeakTypeOK
<1>1. CASE FindProcess
  <2>1. /\ pc' = "kill 12" /\ said' = "nothing" /\ started' = started /\ ~started
        /\ UNCHANGED <<leaks, hmi>>
        /\ ~leftover' => leaks = 0 /\ hmi.pending = {}
    BY <1>1 DEF FindProcess, TestFlow, hmiVars
  <2>. QED
    BY <2>1
<1>2. CASE KillPid(StartCollecting, "kill 12", "kill 30")
  <2>1. /\ pc = "kill 12" /\ pc' = "kill 30" /\ ~started
        /\ UNCHANGED <<leaks, pid, started, leftover>> /\ hmi' \in Signalled(StartCollecting)
    BY <1>2 DEF KillPid, TestFlow, loopVars, testVars
  <2>. QED
    BY <1>0, <2>1, SignalledFacts
<1>3. CASE KillPid(ReportLeaks, "kill 30", "test")
  <2>1. /\ pc = "kill 30" /\ pc' = "test" /\ ~started
        /\ UNCHANGED <<leaks, pid, started, leftover>> /\ hmi' \in Signalled(ReportLeaks)
    BY <1>3 DEF KillPid, TestFlow, loopVars, testVars
  <2>2. \/ hmi' = hmi /\ (pid = 0 \/ pid # hmi.pid \/ ~hmi.traced)
        \/ hmi'.pid = 0 /\ hmi'.pending = {}
        \/ /\ pid # 0 /\ pid = hmi.pid /\ hmi.traced /\ hmi'.pid = hmi.pid
           /\ hmi'.pending = hmi.pending \cup {ReportLeaks}
           /\ hmi'.collecting = hmi.collecting /\ hmi'.traced = hmi.traced
    BY <1>0, <2>1, SignalledFacts
  <2>. QED
    BY <2>1, <2>2, TwoSignals
<1>4. CASE TestMonitoring
  <2>1. /\ pc = "test" /\ pc' \in {"clean", "idle"} /\ ~started
        /\ pc' = "clean" => leaks # 0
        /\ tested' = leaks /\ UNCHANGED <<leaks, pid, started, leftover, hmi>>
    BY <1>4 DEF TestMonitoring, ReportCreated, TestFlow, loopVars, hmiVars
  <2>. QED
    BY <2>1
<1>5. CASE CleanPrevFiles
  <2>1. /\ pc = "clean" /\ pc' \in {"loop", "idle"} /\ said' # "leak"
        /\ leaks' = 0 /\ UNCHANGED <<pid, leftover, hmi, tested>>
    BY <1>5 DEF CleanPrevFiles, TestFlow, testVars
  <2>. QED
    BY <2>1
<1>. QED
  BY <1>1, <1>2, <1>3, <1>4, <1>5 DEF LeakSignals

(* mon_start.                                                              *)
LEMMA OrderedMon ==
  ASSUME LeakTypeOK, KnownPids, TestFlow, Ordered, MonStep
  PROVE  Ordered'
<1> USE DEF Ordered, ReportsInOrder, MonitoredInOrder, OnlyPidSignalled, TestedCollects,
            Go, Exit
<1>0. hmi \in Process
  BY DEF LeakTypeOK
<1>1. CASE MonStart \/ MonClean
  <2>1. pc \in {"mon", "mon clean"} /\ pc' \in {"mon clean", "loop"}
    BY <1>1 DEF MonStart, MonClean
  <2>2. started' = started /\ said' = said
    BY <1>1 DEF MonStart, MonClean, loopVars
  <2>3. ~started
    BY <2>1 DEF TestFlow
  <2>. QED
    BY <2>1, <2>2, <2>3
<1>2. CASE ReadPid \/ ReadMem
  <2>1. /\ pc \in {"loop", "ps"} /\ pc' \in {"ps", "compare"} /\ said = "nothing"
        /\ UNCHANGED <<said, started, leftover, hmi, leaks, tested>>
    BY <1>2 DEF ReadPid, ReadMem, TestFlow, hmiVars, testVars
  <2>. QED
    BY <2>1
<1>3. CASE Compare
  <2>1. /\ pc = "compare" /\ pc' \in {"pidof", "kill end", "loop"} /\ said = "nothing"
        /\ UNCHANGED <<said, started, leftover, hmi, leaks, tested>>
    BY <1>3 DEF Compare, Decision, TestFlow, loopVars, hmiVars, testVars
  <2>. QED
    BY <2>1
<1>4. CASE KillPid(ReportLeaks, "kill end", "cp end")
  <2>1. /\ pc = "kill end" /\ pc' = "cp end" /\ started /\ tested # 0
        /\ UNCHANGED <<leaks, pid, started, leftover, tested, said>>
        /\ hmi' \in Signalled(ReportLeaks)
    BY <1>4 DEF KillPid, TestFlow, loopVars, testVars
  <2>. QED
    BY <1>0, <2>1, SignalledFacts
<1>5. CASE CopyEnd
  <2>1. /\ pc = "cp end" /\ pc' = "idle" /\ said' = "leak"
        /\ UNCHANGED <<leaks, pid, started, leftover, tested, hmi>>
    BY <1>5 DEF CopyEnd, loopVars, hmiVars, testVars
  <2>. QED
    BY <2>1
<1>. QED
  BY <1>1, <1>2, <1>3, <1>4, <1>5 DEF MonStep

(* The steps before there is anything to say, and those that end a run.    *)
LEMMA OrderedOther ==
  ASSUME TestFlow, Ordered,
         Begin \/ Stop \/ Restart \/ SetupStep \/ RestoreStep \/ Interrupt
           \/ UNCHANGED vars
  PROVE  Ordered'
<1> USE DEF Ordered, ReportsInOrder, MonitoredInOrder, OnlyPidSignalled, TestedCollects,
            Go, Exit
<1>1. CASE Begin
  BY <1>1 DEF Begin
<1>2. CASE Stop \/ Restart \/ SetupStep \/ RestoreStep
  <2>1. ~started /\ started' = started /\ pc' \notin {"kill 12", "kill 30", "test", "clean"}
    BY <1>2 DEF Stop, Restart, SetupStep, RestoreStep, Save, Put, Install, GrepMaps,
                MoveBack, TestFlow, Copies, loopVars
  <2>. QED
    BY <2>1
<1>3. CASE Interrupt
  <2>1. pc' = "idle" /\ said' = "stopped"
        /\ UNCHANGED <<leaks, pid, started, leftover, tested, hmi>>
    BY <1>3 DEF Interrupt, loopVars, hmiVars, testVars
  <2>. QED
    BY <2>1
<1>4. CASE UNCHANGED vars
  BY <1>4 DEF vars, shellVars, hmiVars, testVars
<1>. QED
  BY <1>1, <1>2, <1>3, <1>4

(* What the tests of mon.sh rest on holds whatever the user and the        *)
(* service do, in whatever order.                                          *)
THEOREM ReportInvariance == Spec => []ReportInv
<1>1. Init => ReportInv
  <2> SUFFICES ASSUME Init PROVE ReportInv
    OBVIOUS
  <2>1. 0 \in 0 .. MaxPid /\ 0 \in Rss /\ 1 \in Pid
    BY MaxPidAssumption, MaxRssAssumption DEF Pid, Rss
  <2>2. hmi = [pid |-> 1, traced |-> FALSE, collecting |-> FALSE, pending |-> {}, rss |-> 0]
    BY DEF Init, Dead
  <2>3. hmi \in Process /\ hmi.pid = 1
    BY <2>1, <2>2 DEF Process, Pid
  <2>4. ServiceTypes /\ ReportTypes
    BY <2>1, <2>3 DEF Init, ServiceTypes, ReportTypes
  <2>5. ShellTypes /\ LoopTypes /\ DiskTypeOK
    BY <2>1 DEF Init, ShellTypes, LoopTypes, DiskTypeOK, File, Installed
  <2>6. WorkTypes /\ FlagTypes /\ HistoryTypes
    BY Zenon DEF Init, WorkTypes, FlagTypes, HistoryTypes
  <2>7. LeakTypeOK
    BY <2>4, <2>5, <2>6, TypeParts
  <2>8. KnownPids
    BY <2>3 DEF Init, KnownPids
  <2>9. TestFlow /\ Ordered
    BY DEF Init, TestFlow, Ordered, ReportsInOrder
  <2>. QED
    BY <2>7, <2>8, <2>9 DEF ReportInv, Ordered
<1>2. ReportInv /\ [Next]_vars => ReportInv'
  <2> SUFFICES ASSUME ReportInv, [Next]_vars PROVE ReportInv'
    OBVIOUS
  <2>1. LeakTypeOK /\ KnownPids /\ TestFlow /\ Ordered
    BY DEF ReportInv, Ordered
  <2>2. LeakTypeOK' /\ KnownPids'
    BY <2>1, LeakTypeStep, KnownPidsStep
  <2>3. TestFlow'
    BY <2>1, TypeParts, TestFlowStep
  <2>4. Ordered'
    BY <2>1, OrderedNewProcess, OrderedProcess, OrderedTest, OrderedMon, OrderedOther
       DEF Next, ScriptStep, HmiStep
  <2>. QED
    BY <2>2, <2>3, <2>4 DEF ReportInv, Ordered
<1>. QED
  BY <1>1, <1>2, PTL DEF Spec

(* The variables of mon.sh and of the service keep their types.            *)
THEOREM LeakTypeOKAlways == Spec => []LeakTypeOK
<1>1. ReportInv => LeakTypeOK
  BY DEF ReportInv
<1>. QED
  BY <1>1, ReportInvariance, PTL

(* When test_monitoring_work_or_not reports success, the process that got  *)
(* the signals has written leaks.out since.                                *)
THEOREM TestMeansReportAlways == Spec => []TestMeansReport
<1>1. ReportInv => TestMeansReport
  BY DEF ReportInv, TestFlow, ReportsInOrder, TestMeansReport
<1>. QED
  BY <1>1, ReportInvariance, PTL

(* The process that is told to report at the end of mon_start has been     *)
(* collecting, if it is the one whose report the test found.               *)
THEOREM LeakWasCollectedAlways == Spec => []LeakWasCollected
<1>1. ReportInv => LeakWasCollected
  BY DEF ReportInv, TestFlow, MonitoredInOrder, TestedCollects, LeakWasCollected
<1>. QED
  BY <1>1, ReportInvariance, PTL

(* leaks.out at the end of mon_start is no older report.                   *)
THEOREM EndReportIsNewAlways == Spec => []EndReportIsNew
<1>1. ReportInv => EndReportIsNew
  BY DEF ReportInv, TestFlow, MonitoredInOrder, EndReportIsNew
<1>. QED
  BY <1>1, ReportInvariance, PTL
=============================================================================

------------------------------ MODULE BenchDemo ------------------------------
(***************************************************************************)
(* tool/qt/bench: the Qt window that runs bench_exec.sh at the click of a  *)
(* button and shows the output of two runs in two text boxes.              *)
(*                                                                         *)
(* DEMO::run_test_script makes four calls of the script, one after the     *)
(* other: `dev_id`, none, `read <id1>` and `read <id2>`.  The script in    *)
(* tool/ knows no argument but `run`, so each call is a run of bench, as   *)
(* module BenchReport promises it (BenchExec is shown to implement it).    *)
(* The window's thread makes them itself: no event is handled meanwhile.   *)
(*                                                                         *)
(* A text is represented by the run that printed it, 0 for the empty one.  *)
(***************************************************************************)
EXTENDS BenchReport

ASSUME RunBoundAssumption == MaxSession \in Nat

VARIABLES
  call,         \* the call run_test_script is at, 0 when it is not running
  waiting,      \* is it in waitForFinished?
  dev1_str,     \* the text of the third call
  dev2_str,     \* the text of the fourth
  box,          \* the texts the two text boxes show
  bench_run,    \* history: the run of the second call, per third one
  open          \* is the window open?

windowVars == <<call, waiting, dev1_str, dev2_str, box, bench_run, open>>
demoVars == <<vars, windowVars>>

Call == 1 .. 4
Text == 0 .. MaxSession

DemoTypeOK ==
  /\ begun \in Text
  /\ ended \in [Session -> {"none", "noboard", "cut", "done"}]
  /\ report \in [Session -> [Board -> SUBSET Session]]
  /\ call \in {0} \cup Call
  /\ waiting \in BOOLEAN
  /\ dev1_str \in Text /\ dev2_str \in Text
  /\ box \in Text \X Text
  /\ bench_run \in [Session -> Text]
  /\ open \in BOOLEAN

DemoInit ==
  /\ Init
  /\ call = 0 /\ waiting = FALSE
  /\ dev1_str = 0 /\ dev2_str = 0
  /\ box = <<0, 0>>
  /\ bench_run = [s \in Session |-> 0]
  /\ open = TRUE

(* on_pushButton_runScript_clicked                                         *)
Click ==
  /\ open /\ call = 0
  /\ call' = 1
  /\ UNCHANGED <<vars, waiting, dev1_str, dev2_str, box, bench_run, open>>

(* on_pushButton_quit_clicked                                              *)
CloseWindow ==
  /\ open /\ call = 0
  /\ open' = FALSE
  /\ UNCHANGED <<vars, call, waiting, dev1_str, dev2_str, box, bench_run>>

(* return -1, which leaves the boxes alone                                 *)
GiveUp ==
  /\ call' = 0
  /\ waiting' = FALSE
  /\ UNCHANGED <<dev1_str, dev2_str, box, bench_run, open>>

(* start() and waitForStarted(): the script runs, or cannot be run         *)
StartRun ==
  /\ call # 0 /\ ~waiting
  /\ Begin
  /\ waiting' = TRUE
  /\ bench_run' = IF call = 3 THEN [bench_run EXCEPT ![begun + 1] = begun]
                  ELSE bench_run
  /\ UNCHANGED <<call, dev1_str, dev2_str, box, open>>

StartFails ==
  /\ call # 0 /\ ~waiting
  /\ GiveUp
  /\ UNCHANGED vars

(* Mutant of NextCall: there is no `return 0` behind the fourth call.      *)
NextCallAlways == call + 1

NextCall == IF call = 4 THEN 0 ELSE call + 1

(* waitForFinished() returns true; the texts of the first two calls are    *)
(* kept for nothing the window shows.                                      *)
Finished ==
  /\ waiting /\ ~Running
  /\ waiting' = FALSE
  /\ call' = NextCall
  /\ dev1_str' = IF call = 3 THEN begun ELSE dev1_str
  /\ dev2_str' = IF call = 4 THEN begun ELSE dev2_str
  /\ box' = IF call = 4 THEN <<dev1_str, begun>> ELSE box
  /\ UNCHANGED <<vars, bench_run, open>>

(* Mutants of TimedOut: the boxes are filled whatever run_test_script      *)
(* returned; the process is left running (a QProcess nobody destroys);     *)
(* waitForFinished(-1), which waits for ever.                              *)
TimedOutShown ==
  /\ waiting
  /\ IF Running THEN Quit /\ ended'[begun] = "cut" ELSE UNCHANGED vars
  /\ call' = 0 /\ waiting' = FALSE
  /\ box' = <<dev1_str, dev2_str>>
  /\ UNCHANGED <<dev1_str, dev2_str, bench_run, open>>
TimedOutLeft ==
  /\ waiting
  /\ UNCHANGED vars
  /\ GiveUp
TimedOutNever == FALSE /\ UNCHANGED demoVars

(* waitForFinished() returns false after 30 s.  ~QProcess then kills the   *)
(* script; it may have come to its end just before.                        *)
TimedOut ==
  /\ waiting
  /\ IF Running THEN Quit /\ ended'[begun] = "cut" ELSE UNCHANGED vars
  /\ GiveUp

(* The script comes to its end by itself.                                  *)
ScriptEnds ==
  /\ \/ Deliver
     \/ Quit /\ ended'[begun] = "noboard"
  /\ UNCHANGED windowVars

WindowStep == StartRun \/ StartFails \/ Finished \/ TimedOut

DemoNext == Click \/ CloseWindow \/ WindowStep \/ ScriptEnds

DemoSpec == DemoInit /\ [][DemoNext]_demoVars

(* The window's thread is scheduled, and its timer goes off.  Nothing is   *)
(* assumed of the script, which hangs when a board does not answer.        *)
FairDemoSpec == DemoSpec /\ WF_demoVars(WindowStep)

-----------------------------------------------------------------------------
(* Properties.                                                             *)

(* The window never runs two scripts at a time, also after it gave up on   *)
(* one: their ./log is one directory.  This is what BenchExec assumes.     *)
OneScriptAtATime == Running => waiting

(* The boxes show the last two calls of one click, both of which came to   *)
(* their own end: a click that fails half-way leaves dev1_str newer than   *)
(* dev2_str, and neither in the boxes.                                     *)
BoxesOfOneClick ==
  box = <<0, 0>> \/ /\ box[2] = box[1] + 1
                    /\ \A i \in 1 .. 2 : ended[box[i]] \in {"done", "noboard"}
                    /\ bench_run[box[1]] = box[1] - 1

(* The window comes back from a click, whatever the boards do.             *)
ClickReturns == (call # 0) ~> (call = 0)

-----------------------------------------------------------------------------
(* The inductive invariant of the window.                                  *)

Whole(s) == ended[s] \in {"done", "noboard"}

(* Runs to come have no end yet, the one waited for was not cut short, and *)
(* the third call's text is that of the run before the fourth.             *)
CallFlow ==
  /\ \A s \in Session : s > begun => ended[s] = "none"
  /\ waiting => call # 0 /\ begun \in Session /\ ended[begun] # "cut"
  /\ waiting /\ call = 3 => bench_run[begun] = begun - 1
  /\ call = 4 => /\ dev1_str \in Session /\ Whole(dev1_str)
                 /\ bench_run[dev1_str] = dev1_str - 1
                 /\ dev1_str = IF waiting THEN begun - 1 ELSE begun

BoxFlow ==
  box = <<0, 0>> \/ /\ box[1] \in Session /\ box[2] \in Session
                    /\ box[2] <= begun

DemoInv ==
  DemoTypeOK /\ OneScriptAtATime /\ CallFlow /\ BoxFlow /\ BoxesOfOneClick
=============================================================================

-------------------------- MODULE BenchDemo_proofs --------------------------
(***************************************************************************)
(* Proofs about module BenchDemo, for any boards and number of runs.       *)
(***************************************************************************)
EXTENDS BenchDemo, TLAPS

(* What BenchReport promises is a report.                                  *)
LEMMA PromisedType ==
  ASSUME NEW s \in Session, NEW answer \in Promised(s)
  PROVE  answer \in [Board -> SUBSET Session]
<1>1. s \in Nat /\ 1 .. s \subseteq Session /\ {s} \subseteq Session
  BY RunBoundAssumption, SMT DEF Session
<1>2. CASE Undisturbed(s)
  BY <1>1, <1>2 DEF Promised
<1>3. CASE ~Undisturbed(s)
  BY <1>1, <1>3 DEF Promised
<1>. QED
  BY <1>2, <1>3

(* Every step of the window and of the script keeps the types.             *)
LEMMA DemoTypeStep ==
  ASSUME DemoInv, [DemoNext]_demoVars
  PROVE  DemoTypeOK'
<1> USE RunBoundAssumption
    DEF DemoInv, DemoTypeOK, vars, windowVars, demoVars, Session, Text, Call
<1>1. CASE Click \/ CloseWindow
  <2>1. call' \in {0} \cup Call
    <3>1. 1 \in {0} \cup Call
      BY SMT
    <3>. QED
      BY <1>1, <3>1 DEF Click, CloseWindow
  <2>2. open' \in BOOLEAN
    BY <1>1, Zenon DEF Click, CloseWindow
  <2>3. UNCHANGED <<begun, ended, report, waiting, dev1_str, dev2_str, box,
                    bench_run>>
    BY <1>1 DEF Click, CloseWindow
  <2>. QED
    BY <2>1, <2>2, <2>3
<1>2. CASE StartRun
  BY <1>2, SMT DEF StartRun, Begin
<1>3. CASE StartFails
  BY <1>3 DEF StartFails, GiveUp
<1>4. CASE Finished
  <2>1. call' \in {0} \cup Call
    BY <1>4, SMT DEF Finished, NextCall
  <2>2. box' \in Text \X Text
    BY <1>4 DEF Finished
  <2>. QED
    BY <1>4, <2>1, <2>2 DEF Finished
<1>5. CASE TimedOut
  BY <1>5 DEF TimedOut, GiveUp, Quit, Running
<1>6. CASE Quit /\ UNCHANGED windowVars
  BY <1>6 DEF Quit, Running
<1>7. CASE Deliver /\ UNCHANGED windowVars
  <2>1. begun \in Session
    BY <1>7 DEF Deliver, Running
  <2>2. PICK answer \in Promised(begun) :
          report' = [report EXCEPT ![begun] = answer]
    BY <1>7 DEF Deliver
  <2>3. answer \in [Board -> SUBSET Session]
    BY <2>1, PromisedType
  <2>4. report' \in [Session -> [Board -> SUBSET Session]]
    BY <2>2, <2>3
  <2>. QED
    BY <1>7, <2>4 DEF Deliver
<1>8. CASE UNCHANGED demoVars
  BY <1>8
<1>. QED
  BY <1>1, <1>2, <1>3, <1>4, <1>5, <1>6, <1>7, <1>8
     DEF DemoNext, WindowStep, ScriptEnds

(* The run under way comes to an end, with no change to the boxes: nothing *)
(* that is known of the runs before it changes.                            *)
LEMMA EndOfRun ==
  ASSUME DemoInv, Running, NEW how \in {"noboard", "done", "cut"},
         ended' = [ended EXCEPT ![begun] = how],
         UNCHANGED <<begun, dev1_str, box, bench_run>>,
         \/ UNCHANGED <<call, waiting>> /\ how # "cut"
         \/ call' = 0 /\ waiting' = FALSE
  PROVE  OneScriptAtATime' /\ CallFlow' /\ BoxFlow' /\ BoxesOfOneClick'
<1> USE RunBoundAssumption
    DEF DemoInv, DemoTypeOK, Session, Text, Running, Whole
<1>1. begun \in Session /\ ended[begun] = "none" /\ ended'[begun] = how
      /\ \A s \in Session : s # begun => ended'[s] = ended[s]
  OBVIOUS
<1>2. OneScriptAtATime'
  BY <1>1 DEF OneScriptAtATime
<1>3. CallFlow'
  BY <1>1, SMT DEF CallFlow
<1>4. BoxFlow' /\ BoxesOfOneClick'
  BY <1>1 DEF BoxFlow, BoxesOfOneClick
<1>. QED
  BY <1>2, <1>3, <1>4

(* A step that makes no run begin or end and no box change, and does not   *)
(* go on with a click.                                                     *)
LEMMA NoRun ==
  ASSUME DemoInv, UNCHANGED <<begun, ended, dev1_str, box, bench_run>>,
         \/ UNCHANGED <<call, waiting>>
         \/ call' \in {0, 1} /\ waiting' = FALSE /\ ~Running
  PROVE  OneScriptAtATime' /\ CallFlow' /\ BoxFlow' /\ BoxesOfOneClick'
  BY DEF DemoInv, OneScriptAtATime, Running, CallFlow, BoxFlow,
         BoxesOfOneClick, Whole

(* The invariant is inductive.                                             *)
LEMMA DemoStep ==
  ASSUME DemoInv, [DemoNext]_demoVars
  PROVE  OneScriptAtATime' /\ CallFlow' /\ BoxFlow' /\ BoxesOfOneClick'
<1>0. /\ begun \in Text /\ ended \in [Session -> {"none", "noboard", "cut", "done"}]
      /\ bench_run \in [Session -> Text] /\ dev1_str \in Text
      /\ Running => waiting
      /\ Session = 1 .. MaxSession /\ Text = 0 .. MaxSession
      /\ box \in Text \X Text
  BY DEF DemoInv, DemoTypeOK, OneScriptAtATime, Session, Text
<1>1. CASE Click \/ CloseWindow
  <2>1. call = 0 /\ ~waiting
    BY <1>1 DEF Click, CloseWindow, DemoInv, CallFlow
  <2>2. CASE Click
    <3>1. call' = 1 /\ waiting' = FALSE /\ ~Running
      BY <1>0, <2>1, <2>2 DEF Click
    <3>. QED
      BY <2>2, <3>1, NoRun DEF Click, vars
  <2>3. CASE CloseWindow
    BY <2>3, NoRun DEF CloseWindow, vars
  <2>. QED
    BY <1>1, <2>2, <2>3
<1>2. CASE StartRun
  <2>0. /\ begun + 1 \in Session /\ begun' = begun + 1 /\ waiting' = TRUE
        /\ UNCHANGED <<ended, call, dev1_str, box>>
    BY <1>0, <1>2, RunBoundAssumption, SMT DEF StartRun, Begin
  <2>1. ended[begun + 1] = "none"
    BY <1>0, <2>0, RunBoundAssumption, SMT DEF DemoInv, CallFlow
  <2>2. bench_run' = IF call = 3 THEN [bench_run EXCEPT ![begun + 1] = begun]
                     ELSE bench_run
    BY <1>2 DEF StartRun
  <2>3. \A s \in Session : s <= begun => bench_run'[s] = bench_run[s]
    BY <1>0, <2>2, RunBoundAssumption, SMT
  <2>4. OneScriptAtATime'
    BY <2>0 DEF OneScriptAtATime
  <2>5. \A s \in Session : s > begun' => ended'[s] = "none"
    BY <1>0, <2>0, RunBoundAssumption, SMT DEF DemoInv, CallFlow
  <2>6. call' # 0 /\ begun' \in Session /\ ended'[begun'] # "cut"
    BY <1>2, <2>0, <2>1 DEF StartRun
  <2>7. call' = 3 => bench_run'[begun'] = begun' - 1
    BY <1>0, <2>0, <2>2, RunBoundAssumption, SMT
  <2>8. call' = 4 => /\ dev1_str' \in Session /\ Whole(dev1_str)'
                     /\ bench_run'[dev1_str'] = dev1_str' - 1
                     /\ dev1_str' = begun' - 1
    <3>1. SUFFICES ASSUME call = 4
                   PROVE /\ dev1_str \in Session /\ Whole(dev1_str)
                         /\ bench_run'[dev1_str] = dev1_str - 1
                         /\ dev1_str = begun' - 1
      BY <2>0 DEF Whole
    <3>2. /\ dev1_str \in Session /\ Whole(dev1_str)
          /\ bench_run[dev1_str] = dev1_str - 1 /\ dev1_str = begun
      BY <1>2, <3>1 DEF DemoInv, CallFlow, StartRun
    <3>. QED
      BY <1>0, <2>0, <2>3, <3>2, RunBoundAssumption, SMT
  <2>9. CallFlow'
    BY <2>0, <2>5, <2>6, <2>7, <2>8 DEF CallFlow
  <2>10. BoxFlow' /\ BoxesOfOneClick'
    BY <1>0, <2>0, <2>3, RunBoundAssumption, SMT
       DEF DemoInv, BoxFlow, BoxesOfOneClick
  <2>. QED
    BY <2>4, <2>9, <2>10
<1>3. CASE StartFails
  <2>1. ~Running
    BY <1>0, <1>3 DEF StartFails
  <2>. QED
    BY <1>3, <2>1, NoRun DEF StartFails, GiveUp, vars
<1>4. CASE Finished
  <2>0. /\ waiting /\ ~Running /\ begun \in Session /\ Whole(begun)
        /\ UNCHANGED <<begun, ended, bench_run>> /\ waiting' = FALSE /\ ~Running'
        /\ dev1_str' = IF call = 3 THEN begun ELSE dev1_str
        /\ box' = IF call = 4 THEN <<dev1_str, begun>> ELSE box
        /\ call' = IF call = 4 THEN 0 ELSE call + 1
        /\ call \in 1 .. 4
    BY <1>0, <1>4
       DEF Finished, NextCall, DemoInv, DemoTypeOK, CallFlow, Running, Whole,
           vars, Call
  <2>1. OneScriptAtATime'
    BY <2>0 DEF OneScriptAtATime
  <2>2. CallFlow'
    BY <1>0, <2>0, RunBoundAssumption, SMT DEF DemoInv, CallFlow, Whole
  <2>3. BoxFlow' /\ BoxesOfOneClick'
    <3>1. CASE call = 4
      <4>1. /\ dev1_str \in Session /\ Whole(dev1_str)
            /\ bench_run[dev1_str] = dev1_str - 1 /\ dev1_str = begun - 1
        BY <2>0, <3>1 DEF DemoInv, CallFlow
      <4>2. box' = <<dev1_str, begun>>
        BY <2>0, <3>1
      <4>3. begun = dev1_str + 1
        BY <1>0, <2>0, <4>1, RunBoundAssumption, SMT
      <4>4. BoxFlow'
        BY <1>0, <2>0, <4>1, <4>2, RunBoundAssumption, SMT DEF BoxFlow
      <4>5. \A i \in 1 .. 2 : ended[box'[i]] \in {"done", "noboard"}
        <5>1. box'[1] = dev1_str /\ box'[2] = begun
          BY <4>2
        <5>2. \A i \in 1 .. 2 : i = 1 \/ i = 2
          BY SMT
        <5>. QED
          BY <2>0, <4>1, <5>1, <5>2 DEF Whole
      <4>. QED
        BY <2>0, <4>1, <4>2, <4>3, <4>4, <4>5 DEF BoxesOfOneClick
    <3>2. CASE call # 4
      BY <2>0, <3>2 DEF DemoInv, BoxFlow, BoxesOfOneClick
    <3>. QED
      BY <3>1, <3>2
  <2>. QED
    BY <2>1, <2>2, <2>3
<1>5. CASE TimedOut
  <2>1. CASE Running
    <3>1. PICK how \in {"noboard", "cut"} : ended' = [ended EXCEPT ![begun] = how]
      BY <1>5, <2>1 DEF TimedOut, Quit
    <3>. QED
      BY <1>5, <2>1, <3>1, EndOfRun DEF TimedOut, GiveUp, Quit
  <2>2. CASE ~Running
    BY <1>5, <2>2, NoRun DEF TimedOut, GiveUp, vars
  <2>. QED
    BY <2>1, <2>2
<1>6. CASE Deliver /\ UNCHANGED windowVars
  BY <1>6, EndOfRun DEF Deliver, windowVars
<1>7. CASE Quit /\ ended'[begun] = "noboard" /\ UNCHANGED windowVars
  <2>1. PICK how \in {"noboard", "cut"} : ended' = [ended EXCEPT ![begun] = how]
    BY <1>7 DEF Quit
  <2>2. how = "noboard"
    BY <1>0, <1>7, <2>1 DEF Quit, Running
  <2>. QED
    BY <1>7, <2>1, <2>2, EndOfRun DEF Quit, windowVars
<1>8. CASE UNCHANGED demoVars
  BY <1>8, NoRun DEF demoVars, windowVars, vars
<1>. QED
  BY <1>1, <1>2, <1>3, <1>4, <1>5, <1>6, <1>7, <1>8
     DEF DemoNext, WindowStep, ScriptEnds

(* The invariant of the window holds whatever the script does.             *)
THEOREM DemoInvariance == DemoSpec => []DemoInv
<1>1. DemoInit => DemoInv
  <2>1. SUFFICES ASSUME DemoInit PROVE DemoInv
    OBVIOUS
  <2>2. 0 \in Text /\ 0 \notin Session
    BY RunBoundAssumption, SMT DEF Text, Session
  <2>3. DemoTypeOK
    BY <2>1, <2>2 DEF DemoInit, Init, DemoTypeOK, NoAnswer
  <2>4. OneScriptAtATime /\ CallFlow /\ BoxFlow /\ BoxesOfOneClick
    BY <2>1, <2>2
       DEF DemoInit, Init, OneScriptAtATime, Running, CallFlow, BoxFlow,
           BoxesOfOneClick
  <2>. QED
    BY <2>3, <2>4 DEF DemoInv
<1>2. DemoInv /\ [DemoNext]_demoVars => DemoInv'
  BY DemoTypeStep, DemoStep DEF DemoInv
<1>. QED
  BY <1>1, <1>2, PTL DEF DemoSpec

(* The calls, texts and boxes of the window keep their types.              *)
THEOREM DemoTypeOKAlways == DemoSpec => []DemoTypeOK
<1>1. DemoInv => DemoTypeOK
  BY DEF DemoInv
<1>. QED
  BY <1>1, DemoInvariance, PTL

(* ~QProcess kills what waitForFinished gave up on, so that two scripts    *)
(* never share ./log.                                                      *)
THEOREM NoScriptsOverlap == DemoSpec => []OneScriptAtATime
<1>1. DemoInv => OneScriptAtATime
  BY DEF DemoInv
<1>. QED
  BY <1>1, DemoInvariance, PTL

(* The two boxes are always the last two calls of one click.               *)
THEOREM BoxesMatch == DemoSpec => []BoxesOfOneClick
<1>1. DemoInv => BoxesOfOneClick
  BY DEF DemoInv
<1>. QED
  BY <1>1, DemoInvariance, PTL
=============================================================================

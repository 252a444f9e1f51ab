----------------------------- MODULE BenchReport -----------------------------
(***************************************************************************)
(* What a run of tool/bench_exec.sh promises to who reads its output, with *)
(* no processes and no files: runs follow one another, a run either quits  *)
(* or delivers, in one step, what each board answered to it.  The answers  *)
(* of other runs may turn up only when one of those was cut short before.  *)
(***************************************************************************)
EXTENDS Naturals

CONSTANTS
  Board,        \* the serial numbers adb may report
  MaxSession    \* bound: runs of the script one after the other

Session == 1 .. MaxSession

VARIABLES
  begun,    \* runs begun so far
  ended,    \* how each of them ended
  report    \* for each run and board, the runs whose answers it printed

vars == <<begun, ended, report>>

NoAnswer == [b \in Board |-> {}]

Init ==
  /\ begun = 0
  /\ ended = [s \in Session |-> "none"]
  /\ report = [s \in Session |-> NoAnswer]

Running == begun \in Session /\ ended[begun] = "none"

Undisturbed(s) == \A r \in Session : r < s => ended[r] # "cut"

(* What run s may print: its own answers, one for each board it asked.     *)
(* After a run that was cut short, answers may be missing, and those of    *)
(* any run before may turn up: what a cut-short run leaves behind may end  *)
(* the next one early, which then leaves jobs behind in its turn.          *)
Promised(s) ==
  IF Undisturbed(s)
  THEN {[b \in Board |-> IF b \in asked THEN {s} ELSE {}] :
          asked \in (SUBSET Board) \ {{}}}
  ELSE [Board -> SUBSET (1 .. s)]

Begin ==
  /\ ~Running
  /\ begun < MaxSession
  /\ begun' = begun + 1
  /\ UNCHANGED <<ended, report>>

Quit ==
  /\ Running
  /\ \E how \in {"noboard", "cut"} : ended' = [ended EXCEPT ![begun] = how]
  /\ UNCHANGED <<begun, report>>

Deliver ==
  /\ Running
  /\ ended' = [ended EXCEPT ![begun] = "done"]
  /\ \E answer \in Promised(begun) :
       report' = [report EXCEPT ![begun] = answer]
  /\ UNCHANGED begun

Next == Begin \/ Quit \/ Deliver

Spec == Init /\ [][Next]_vars
=============================================================================

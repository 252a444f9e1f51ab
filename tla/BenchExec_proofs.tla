-------------------------- MODULE BenchExec_proofs --------------------------
(***************************************************************************)
(* Proofs about module BenchExec, for any boards, listings and number of   *)
(* runs.  IInv is inductive; the properties are parts of it or follow.     *)
(*                                                                         *)
(* The argument.  Control: sessions do not overlap, and only the loop of   *)
(* a killed one outlives it (SessionFlow, LoopFlow, JobFlow).  Then,       *)
(* as long as none was cut short, a session that is over left no job       *)
(* (Quiet), so behind rm -rf all files and ids are those of the session    *)
(* under way (OwnFiles, OwnIds); as many files as ids then means that each *)
(* job has opened its file (CountIsBarrier, by an injection from files to  *)
(* lines), none will be truncated again, and a line in each is that job's  *)
(* answer (AllAnswered, AllMeasured), which makes the session quiet again. *)
(*                                                                         *)
(* Last, what Completes rests on (WaitsEnd): whatever jobs of stopped      *)
(* sessions have added, there are files for all the ids when the jobs are  *)
(* through, and no empty one among them.                                   *)
(***************************************************************************)
EXTENDS BenchExec, TLAPS, FiniteSetTheorems

(* What adb prints is a sequence of at most MaxLine serials.               *)
LEMMA ListingSeq ==
  ASSUME NEW l \in Listing
  PROVE  /\ l \in Seq(Board) /\ Len(l) \in Nat /\ Len(l) <= MaxLine
         /\ DOMAIN l = 1 .. Len(l)
  BY MaxLineAssumption, SMT DEF Listing

(* What the types and the flow of control say of a session's listing, line *)
(* and jobs: the facts most steps below rest on.                           *)
LEMMA Shape ==
  ASSUME TypeOK, SessionFlow, JobFlow
  PROVE  /\ pc # "idle" => session \in Session
         /\ session \in Nat /\ \A r \in Session : r \in Nat
         /\ \A r \in Session :
              /\ listing[r] \in Seq(Board)
              /\ Len(listing[r]) \in Nat /\ Len(listing[r]) <= MaxLine
              /\ DOMAIN listing[r] = 1 .. Len(listing[r])
              /\ line[r] \in Nat \ {0}
         /\ \A r \in Session : \A n \in Line : <<r, n>> \in Job
         /\ \A r \in Session : \A n \in DOMAIN listing[r] : n \in Line /\ n \in Nat
         /\ \A j \in Job : /\ j[1] \in Session /\ j[2] \in Line
                           /\ j = <<j[1], j[2]>>
                           /\ job[j] # "none" => /\ j[2] \in DOMAIN listing[j[1]]
                                                 /\ Serial(j) \in Board
<1>1. \A r \in Session :
              /\ listing[r] \in Seq(Board)
              /\ Len(listing[r]) \in Nat /\ Len(listing[r]) <= MaxLine
              /\ DOMAIN listing[r] = 1 .. Len(listing[r])
              /\ line[r] \in Nat \ {0}
  BY ListingSeq DEF TypeOK
<1>2. pc # "idle" => session \in Session
  BY DEF SessionFlow
<1>3. session \in Nat /\ \A r \in Session : r \in Nat
  BY MaxSessionAssumption, SMT DEF TypeOK, Session
<1>4. \A r \in Session : \A n \in DOMAIN listing[r] : n \in Line /\ n \in Nat
  BY <1>1, MaxLineAssumption, SMT DEF Line
<1>5. ASSUME NEW j \in Job
      PROVE  /\ j[1] \in Session /\ j[2] \in Line /\ j = <<j[1], j[2]>>
             /\ job[j] # "none" => j[2] \in DOMAIN listing[j[1]] /\ Serial(j) \in Board
  <2>1. j[1] \in Session /\ j[2] \in Line /\ j = <<j[1], j[2]>>
    BY DEF Job
  <2>2. j[2] \in Nat \ {0}
    BY <2>1, MaxLineAssumption, SMT DEF Line
  <2>3. job[j] # "none" => j[2] <= Len(listing[j[1]])
    BY <2>1 DEF JobFlow, ForkedUpTo
  <2>4. job[j] # "none" => j[2] \in DOMAIN listing[j[1]]
    BY <1>1, <2>1, <2>2, <2>3, SMT
  <2>. QED
    BY <1>1, <2>1, <2>4, SMT DEF Serial
<1>6. \A r \in Session : \A n \in Line : <<r, n>> \in Job
  BY DEF Job
<1>. QED
  BY <1>1, <1>2, <1>3, <1>4, <1>5, <1>6

(* Every step of the script, its loops and its jobs keeps the types.       *)
LEMMA TypeStep ==
  ASSUME TypeOK, SessionFlow, LoopFlow, JobFlow, [Next]_vars
  PROVE  TypeOK'
<1> USE DEF TypeOK, Alive, Ended, JobState,
            shellVars, startVars, fileVars, printVars
<1>0. pc # "idle" => session \in Session
  BY Shape
<1>1. CASE Begin
  BY <1>1, MaxSessionAssumption, SMT DEF Begin
<1>2. CASE RemoveWorkDir
  BY <1>2, SMT DEF RemoveWorkDir
<1>3. CASE MakeWorkDir
  BY <1>3, SMT DEF MakeWorkDir
<1>4. CASE MakeResultDir
  BY <1>4, SMT DEF MakeResultDir
<1>5. CASE AdbDevices
  <2>1. line[session] = 1
    BY <1>0, <1>5, SMT DEF AdbDevices, SessionFlow, Fresh, NotBegun
  <2>2. PICK l \in Listing : listing' = [listing EXCEPT ![session] = l]
    BY <1>5, ReportedAssumption DEF AdbDevices
  <2>3. Len(l) \in Nat
    BY ListingSeq
  <2>4. listing' \in [Session -> Listing]
    BY <2>2
  <2>5. \A r \in Session : line'[r] <= Len(listing'[r]) + 1
    BY <1>0, <1>5, <2>1, <2>2, <2>3, SMT DEF AdbDevices
  <2>6. \/ starter' = starter
        \/ starter' = [starter EXCEPT ![session] = "read"]
    BY <1>5 DEF AdbDevices
  <2>7. starter' \in [Session -> {"idle", "read", "note", "end"}]
    BY <2>6
  <2>8. /\ outcome' \in [Session -> {"none", "noboard", "done", "stopped", "killed"}]
        /\ pc' \in Alive \cup {"idle"}
    BY <1>5 DEF AdbDevices
  <2>. QED
    BY <1>5, <2>4, <2>5, <2>7, <2>8, SMT DEF AdbDevices
<1>6. CASE CountIds
  BY <1>6, SMT DEF CountIds
<1>7. CASE CompareCounts
  BY <1>7, SMT DEF CompareCounts
<1>8. CASE GatherIds
  BY <1>8, SMT DEF GatherIds
<1>9. CASE PollResult
  BY <1>9, SMT DEF PollResult
<1>10. CASE PollEnd
  BY <1>10, SMT DEF PollEnd
<1>11. CASE StartPrinting
  BY <1>11, SMT DEF StartPrinting
<1>12. CASE PrintResult
  BY <1>0, <1>12, SMT DEF PrintResult
<1>13. CASE PrintEnd
  BY <1>0, <1>13, SMT DEF PrintEnd
<1>14. ASSUME NEW s \in Session, ForkJob(s) PROVE TypeOK'
  <2>1. line[s] \in Line
    BY <1>14, Shape, MaxLineAssumption, SMT DEF ForkJob, Line
  <2>2. <<s, line[s]>> \in Job
    BY <2>1, Shape
  <2>. QED
    BY <1>14, <2>2, SMT DEF ForkJob
<1>15. ASSUME NEW s \in Session, NoteId(s) PROVE TypeOK'
  BY <1>15, Shape, SMTT(30) DEF NoteId, NextLine, LoopFlow
<1>16. ASSUME NEW s \in Session, StarterEnd(s) PROVE TypeOK'
  BY <1>16, SMT DEF StarterEnd
<1>17. ASSUME NEW j \in Job, OpenResult(j) PROVE TypeOK'
  <2>1. Serial(j) \in Board
    BY <1>17, Shape DEF OpenResult
  <2>. QED
    BY <1>17, <2>1, SMT DEF OpenResult
<1>18. ASSUME NEW j \in Job, CannotOpenResult(j) PROVE TypeOK'
  BY <1>18, SMT DEF CannotOpenResult
<1>19. ASSUME NEW j \in Job, WriteResult(j) PROVE TypeOK'
  <2>1. lines' = lines \/ lines' = [lines EXCEPT ![Serial(j)] = {j}]
    BY <1>19 DEF WriteResult
  <2>2. lines' \in [Board -> SUBSET Job]
    <3>1. {j} \in SUBSET Job
      OBVIOUS
    <3>. QED
      BY <2>1, <3>1
  <2>3. job' \in [Job -> JobState]
    BY <1>19, SMT DEF WriteResult
  <2>. QED
    BY <1>19, <2>2, <2>3, SMT DEF WriteResult
<1>20. ASSUME NEW j \in Job, NoResult(j) PROVE TypeOK'
  BY <1>20, SMT DEF NoResult
<1>21. CASE Interrupt
  BY <1>0, <1>21, SMT DEF Interrupt
<1>22. CASE Kill
  BY <1>0, <1>22, SMT DEF Kill
<1>23. CASE UNCHANGED vars
  BY <1>23, SMT DEF vars
<1>. QED
  BY <1>1, <1>2, <1>3, <1>4, <1>5, <1>6, <1>7, <1>8, <1>9, <1>10, <1>11,
     <1>12, <1>13, <1>14, <1>15, <1>16, <1>17, <1>18, <1>19, <1>20, <1>21,
     <1>22, <1>23
     DEF Next, MainStep, StarterStep, JobStep

(* Runs follow one another: a step leaves the sessions that are over as    *)
(* they are, and those to come untouched.                                  *)
LEMMA SessionStep ==
  ASSUME TypeOK, SessionFlow, LoopFlow, JobFlow, [Next]_vars
  PROVE  SessionFlow'
<1> USE DEF shellVars, startVars, fileVars, printVars
<1>0. /\ pc # "idle" => session \in Session
      /\ session \in Nat /\ \A r \in Session : r \in Nat
      /\ outcome \in [Session -> {"none", "noboard", "done", "stopped", "killed"}]
      /\ starter \in [Session -> {"idle", "read", "note", "end"}]
      /\ listing \in [Session -> Listing] /\ line \in [Session -> Nat \ {0}]
      /\ printed \in [Session -> SUBSET Board] /\ job \in [Job -> JobState]
      /\ \A r \in Session : \A n \in Line : <<r, n>> \in Job
  BY Shape DEF TypeOK
<1>1. CASE Begin
  <2>1. session' \in Session
    BY <1>1, MaxSessionAssumption, SMT DEF Begin, TypeOK, Session
  <2>. QED
    BY <1>0, <1>1, <2>1, SMT DEF Begin, SessionFlow, Fresh, NotBegun
<1>2. CASE RemoveWorkDir
  BY <1>0, <1>2, SMT DEF RemoveWorkDir, SessionFlow, Fresh, NotBegun
<1>3. CASE MakeWorkDir
  BY <1>0, <1>3, SMT DEF MakeWorkDir, SessionFlow, Fresh, NotBegun
<1>4. CASE MakeResultDir
  BY <1>0, <1>4, SMT DEF MakeResultDir, SessionFlow, Fresh, NotBegun
<1>5. CASE AdbDevices
  BY <1>0, <1>5, SMT DEF AdbDevices, SessionFlow, Fresh, NotBegun
<1>6. CASE CountIds
  BY <1>0, <1>6, SMT DEF CountIds, SessionFlow, Fresh, NotBegun
<1>7. CASE CompareCounts
  BY <1>0, <1>7, SMT DEF CompareCounts, SessionFlow, Fresh, NotBegun
<1>8. CASE GatherIds
  BY <1>0, <1>8, SMT DEF GatherIds, SessionFlow, Fresh, NotBegun
<1>9. CASE PollResult
  BY <1>0, <1>9, SMT DEF PollResult, SessionFlow, Fresh, NotBegun
<1>10. CASE PollEnd
  BY <1>0, <1>10, SMT DEF PollEnd, SessionFlow, Fresh, NotBegun
<1>11. CASE StartPrinting
  BY <1>0, <1>11, SMT DEF StartPrinting, SessionFlow, Fresh, NotBegun
<1>12. CASE PrintResult
  BY <1>0, <1>12, SMT DEF PrintResult, SessionFlow, Fresh, NotBegun
<1>13. CASE PrintEnd
  BY <1>0, <1>13, SMT DEF PrintEnd, SessionFlow, Fresh, NotBegun
<1>14. ASSUME NEW s \in Session, ForkJob(s) PROVE SessionFlow'
  BY <1>0, <1>14, SMT DEF ForkJob, SessionFlow, Fresh, NotBegun
<1>15. ASSUME NEW s \in Session, NoteId(s) PROVE SessionFlow'
  BY <1>0, <1>15, SMT DEF NoteId, SessionFlow, Fresh, NotBegun
<1>16. ASSUME NEW s \in Session, StarterEnd(s) PROVE SessionFlow'
  BY <1>0, <1>16, SMT DEF StarterEnd, SessionFlow, Fresh, NotBegun
<1>17. ASSUME NEW j \in Job, OpenResult(j) PROVE SessionFlow'
  BY <1>0, <1>17, SMT DEF OpenResult, SessionFlow, Fresh, NotBegun
<1>18. ASSUME NEW j \in Job, CannotOpenResult(j) PROVE SessionFlow'
  BY <1>0, <1>18, SMT DEF CannotOpenResult, SessionFlow, Fresh, NotBegun
<1>19. ASSUME NEW j \in Job, WriteResult(j) PROVE SessionFlow'
  BY <1>0, <1>19, SMT DEF WriteResult, SessionFlow, Fresh, NotBegun
<1>20. ASSUME NEW j \in Job, NoResult(j) PROVE SessionFlow'
  BY <1>0, <1>20, SMT DEF NoResult, SessionFlow, Fresh, NotBegun
<1>21. CASE Interrupt
  BY <1>0, <1>21, SMT DEF Interrupt, SessionFlow, Fresh, NotBegun
<1>22. CASE Kill
  BY <1>0, <1>22, SMT DEF Kill, SessionFlow, Fresh, NotBegun
<1>23. CASE UNCHANGED <<pc, session, outcome, starter, listing, line, printed, job>>
  BY <1>0, <1>23 DEF SessionFlow, Fresh, NotBegun
<1>. QED
  BY <1>1, <1>2, <1>3, <1>4, <1>5, <1>6, <1>7, <1>8, <1>9, <1>10, <1>11,
     <1>12, <1>13, <1>14, <1>15, <1>16, <1>17, <1>18, <1>19, <1>20, <1>21,
     <1>22, <1>23
     DEF vars, Next, MainStep, StarterStep, JobStep

(* No step but SIGKILL leaves a `while read id` loop behind.               *)
LEMMA LoopStep ==
  ASSUME TypeOK, SessionFlow, LoopFlow, JobFlow, [Next]_vars
  PROVE  LoopFlow'
<1> USE DEF shellVars, startVars, fileVars, printVars
<1>0. /\ pc # "idle" => session \in Session
      /\ outcome \in [Session -> {"none", "noboard", "done", "stopped", "killed"}]
      /\ starter \in [Session -> {"idle", "read", "note", "end"}]
      /\ listing \in [Session -> Listing] /\ line \in [Session -> Nat \ {0}]
      /\ \A r \in Session : Len(listing[r]) \in Nat
      /\ \A r \in Session : line[r] <= Len(listing[r]) + 1
  BY Shape DEF TypeOK
<1>1. CASE Begin
  BY <1>0, <1>1, SMT DEF Begin, LoopFlow, Waiting
<1>2. CASE RemoveWorkDir
  BY <1>0, <1>2, SMT DEF RemoveWorkDir, LoopFlow, Waiting
<1>3. CASE MakeWorkDir
  BY <1>0, <1>3, SMT DEF MakeWorkDir, LoopFlow, Waiting
<1>4. CASE MakeResultDir
  BY <1>0, <1>4, SMT DEF MakeResultDir, LoopFlow, Waiting
<1>5. CASE AdbDevices
  <2>1. \A r \in Session : r # session => listing'[r] = listing[r]
    BY <1>0, <1>5, SMT DEF AdbDevices
  <2>2. starter[session] = "idle"
    BY <1>0, <1>5, SMT DEF AdbDevices, SessionFlow, NotBegun, Fresh
  <2>3. CASE pc' = "idle" /\ starter' = starter
    BY <1>0, <1>5, <2>1, <2>2, <2>3, SMT DEF AdbDevices, LoopFlow, Waiting
  <2>4. CASE pc' = "starting" /\ starter' = [starter EXCEPT ![session] = "read"]
            /\ outcome' = outcome
    BY <1>0, <1>5, <2>1, <2>2, <2>4, SMT DEF AdbDevices, LoopFlow, Waiting
  <2>. QED
    BY <1>5, <2>3, <2>4 DEF AdbDevices
<1>6. CASE CountIds
  BY <1>0, <1>6, SMT DEF CountIds, LoopFlow, Waiting
<1>7. CASE CompareCounts
  BY <1>0, <1>7, SMT DEF CompareCounts, LoopFlow, Waiting
<1>8. CASE GatherIds
  BY <1>0, <1>8, SMT DEF GatherIds, LoopFlow, Waiting
<1>9. CASE PollResult
  BY <1>0, <1>9, SMT DEF PollResult, LoopFlow, Waiting
<1>10. CASE PollEnd
  BY <1>0, <1>10, SMT DEF PollEnd, LoopFlow, Waiting
<1>11. CASE StartPrinting
  BY <1>0, <1>11, SMT DEF StartPrinting, LoopFlow, Waiting
<1>12. CASE PrintResult
  BY <1>0, <1>12, SMT DEF PrintResult, LoopFlow, Waiting
<1>13. CASE PrintEnd
  BY <1>0, <1>13, SMT DEF PrintEnd, LoopFlow, Waiting
<1>14. ASSUME NEW s \in Session, ForkJob(s) PROVE LoopFlow'
  BY <1>0, <1>14, SMT DEF ForkJob, LoopFlow, Waiting
<1>15. ASSUME NEW s \in Session, NoteId(s) PROVE LoopFlow'
  BY <1>0, <1>15, SMT DEF NoteId, LoopFlow, Waiting
<1>16. ASSUME NEW s \in Session, StarterEnd(s) PROVE LoopFlow'
  BY <1>0, <1>16, SMT DEF StarterEnd, LoopFlow, Waiting
<1>17. CASE Interrupt
  BY <1>0, <1>17, SMT DEF Interrupt, LoopFlow, Waiting
<1>18. CASE Kill
  BY <1>0, <1>18, SMT DEF Kill, LoopFlow, Waiting
<1>19. CASE UNCHANGED <<pc, session, starter, line, listing, outcome>>
  BY <1>0, <1>19 DEF LoopFlow, Waiting
<1>. QED
  BY <1>1, <1>2, <1>3, <1>4, <1>5, <1>6, <1>7, <1>8, <1>9, <1>10, <1>11,
     <1>12, <1>13, <1>14, <1>15, <1>16, <1>17, <1>18, <1>19
     DEF vars, Next, MainStep, StarterStep, JobStep, OpenResult,
         CannotOpenResult, WriteResult, NoResult

(* A loop forks its jobs in the order of its lines.                        *)
LEMMA JobsStep ==
  ASSUME TypeOK, SessionFlow, LoopFlow, JobFlow, [Next]_vars
  PROVE  JobFlow'
<1> USE DEF shellVars, startVars, fileVars, printVars
<1> SUFFICES ASSUME NEW r \in Session, NEW n \in Line PROVE ForkedUpTo(r, n)'
  BY DEF JobFlow
<1>0. /\ pc # "idle" => session \in Session
      /\ r \in Nat /\ n \in Nat \ {0} /\ <<r, n>> \in Job
      /\ starter \in [Session -> {"idle", "read", "note", "end"}]
      /\ listing \in [Session -> Listing] /\ line \in [Session -> Nat \ {0}]
      /\ Len(listing[r]) \in Nat /\ job \in [Job -> JobState]
      /\ ForkedUpTo(r, n)
  BY Shape, MaxLineAssumption DEF TypeOK, JobFlow, Line
<1>1. CASE RemoveWorkDir
  BY <1>0, <1>1, SMT DEF RemoveWorkDir, ForkedUpTo
<1>2. CASE AdbDevices
  <2>1. CASE r = session
    <3>1. line[r] = 1 /\ job[<<r, n>>] = "none"
      BY <1>0, <1>2, <2>1, SMT DEF AdbDevices, SessionFlow, NotBegun, Fresh
    <3>. QED
      BY <1>0, <1>2, <3>1, SMT DEF AdbDevices, ForkedUpTo
  <2>2. CASE r # session
    BY <1>0, <1>2, <2>2, SMT DEF AdbDevices, ForkedUpTo
  <2>. QED
    BY <2>1, <2>2
<1>3. ASSUME NEW s \in Session, ForkJob(s) PROVE ForkedUpTo(r, n)'
  BY <1>0, <1>3, SMT DEF ForkJob, ForkedUpTo
<1>4. ASSUME NEW s \in Session, NoteId(s) PROVE ForkedUpTo(r, n)'
  BY <1>0, <1>4, SMT DEF NoteId, NextLine, ForkedUpTo
<1>5. ASSUME NEW s \in Session, StarterEnd(s) PROVE ForkedUpTo(r, n)'
  BY <1>0, <1>5, SMT DEF StarterEnd, ForkedUpTo
<1>6. ASSUME NEW j \in Job, OpenResult(j) PROVE ForkedUpTo(r, n)'
  BY <1>0, <1>6, SMT DEF OpenResult, ForkedUpTo
<1>7. ASSUME NEW j \in Job, CannotOpenResult(j) PROVE ForkedUpTo(r, n)'
  BY <1>0, <1>7, SMT DEF CannotOpenResult, ForkedUpTo
<1>8. ASSUME NEW j \in Job, WriteResult(j) PROVE ForkedUpTo(r, n)'
  BY <1>0, <1>8, SMT DEF WriteResult, ForkedUpTo
<1>9. ASSUME NEW j \in Job, NoResult(j) PROVE ForkedUpTo(r, n)'
  BY <1>0, <1>9, SMT DEF NoResult, ForkedUpTo
<1>10. CASE Interrupt
  BY <1>0, <1>10, SMT DEF Interrupt, ForkedUpTo
<1>11. CASE UNCHANGED <<starter, line, listing, job>>
  BY <1>0, <1>11 DEF ForkedUpTo
<1>. QED
  BY <1>1, <1>2, <1>3, <1>4, <1>5, <1>6, <1>7, <1>8, <1>9, <1>10, <1>11
     DEF vars, Next, MainStep, StarterStep, JobStep, Begin, MakeWorkDir,
         MakeResultDir, CountIds, CompareCounts, GatherIds, PollResult,
         PollEnd, StartPrinting, PrintResult, PrintEnd, Kill

(* Only the main shell removes and makes ./log, so it finds there what it  *)
(* made.                                                                   *)
LEMMA DirStep ==
  ASSUME TypeOK, SessionFlow, DirFlow, [Next]_vars
  PROVE  DirFlow'
<1> USE DEF shellVars, startVars, fileVars, printVars
<1>1. CASE Begin
  BY <1>1, SMT DEF Begin, DirFlow, Waiting
<1>2. CASE RemoveWorkDir
  BY <1>2, SMT DEF RemoveWorkDir, DirFlow, Waiting
<1>3. CASE MakeWorkDir
  BY <1>3, SMT DEF MakeWorkDir, DirFlow, Waiting
<1>4. CASE MakeResultDir
  BY <1>4, SMT DEF MakeResultDir, DirFlow, Waiting
<1>5. CASE AdbDevices
  BY <1>5, SMT DEF AdbDevices, DirFlow, Waiting
<1>6. CASE CountIds
  BY <1>6, SMT DEF CountIds, DirFlow, Waiting
<1>7. CASE CompareCounts
  BY <1>7, SMT DEF CompareCounts, DirFlow, Waiting
<1>8. CASE GatherIds
  BY <1>8, SMT DEF GatherIds, DirFlow, Waiting
<1>9. CASE PollResult
  BY <1>9, SMT DEF PollResult, DirFlow, Waiting
<1>10. CASE PollEnd
  BY <1>10, SMT DEF PollEnd, DirFlow, Waiting
<1>11. CASE StartPrinting
  BY <1>11, SMT DEF StartPrinting, DirFlow, Waiting
<1>12. CASE PrintResult
  BY <1>12, SMT DEF PrintResult, DirFlow, Waiting
<1>13. CASE PrintEnd
  BY <1>13, SMT DEF PrintEnd, DirFlow, Waiting
<1>14. ASSUME NEW s \in Session, StarterEnd(s) PROVE DirFlow'
  BY <1>14, SMT DEF StarterEnd, DirFlow, Waiting
<1>15. CASE Interrupt
  BY <1>15, SMT DEF Interrupt, DirFlow, Waiting
<1>16. CASE Kill
  BY <1>16, SMT DEF Kill, DirFlow, Waiting
<1>17. CASE UNCHANGED <<pc, dir>>
  BY <1>17 DEF DirFlow, Waiting
<1>. QED
  BY <1>1, <1>2, <1>3, <1>4, <1>5, <1>6, <1>7, <1>8, <1>9, <1>10, <1>11,
     <1>12, <1>13, <1>14, <1>15, <1>16, <1>17
     DEF vars, Next, MainStep, StarterStep, JobStep, ForkJob, NoteId,
         OpenResult, CannotOpenResult, WriteResult, NoResult

-----------------------------------------------------------------------------

(* echo $id >> id_list keeps the lines id_list has, and adds one.          *)
LEMMA InAppend ==
  ASSUME NEW q \in Seq(Board), NEW e \in Board
  PROVE  /\ \A x : In(x, q) => In(x, Append(q, e))
         /\ In(e, Append(q, e))
         /\ Len(Append(q, e)) = Len(q) + 1
         /\ \A i \in 1 .. Len(q) + 1 :
              Append(q, e)[i] = IF i <= Len(q) THEN q[i] ELSE e
  BY SMT DEF In

(* `read id` takes the first of the lines that are left.                   *)
LEMMA InTail ==
  ASSUME NEW q \in Seq(Board), q # << >>
  PROVE  /\ \A x : In(x, q) => x = Head(q) \/ In(x, Tail(q))
         /\ In(Head(q), q) /\ Len(Tail(q)) \in Nat
         /\ \A i \in 1 .. Len(Tail(q)) : i + 1 \in 1 .. Len(q) /\ Tail(q)[i] = q[i + 1]
  BY SMT DEF In

-----------------------------------------------------------------------------

(* Which step changes what, read off the UNCHANGED conjuncts once.         *)
LEMMA Writers ==
  ASSUME [Next]_vars
  PROVE  /\ session' = session \/ Begin
         /\ outcome' = outcome \/ AdbDevices \/ PrintEnd \/ Interrupt \/ Kill
         /\ listing' = listing \/ AdbDevices
         /\ line' = line \/ \E s \in Session : NoteId(s)
         /\ id_list' = id_list \/ RemoveWorkDir \/ \E s \in Session : NoteId(s)
         /\ job' = job \/ RemoveWorkDir \/ (\E s \in Session : ForkJob(s))
                       \/ (\E j \in Job : JobStep(j))
         /\ present' = present \/ RemoveWorkDir \/ \E j \in Job : OpenResult(j)
         /\ lines' = lines \/ RemoveWorkDir
                           \/ \E j \in Job : OpenResult(j) \/ WriteResult(j)
         /\ id_cnt' = id_cnt \/ CountIds
         /\ todo' = todo \/ GatherIds \/ PollResult \/ StartPrinting \/ PrintResult
         /\ UNCHANGED <<printed, shown>> \/ PrintResult
<1> USE DEF vars, shellVars, startVars, fileVars, printVars, Next, MainStep,
            StarterStep, JobStep, Begin, RemoveWorkDir, MakeWorkDir,
            MakeResultDir, AdbDevices, CountIds, CompareCounts, GatherIds,
            PollResult, PollEnd, StartPrinting, PrintResult, PrintEnd, ForkJob,
            NoteId, StarterEnd, OpenResult, CannotOpenResult, WriteResult,
            NoResult, Interrupt, Kill
<1>1. session' = session \/ Begin
  OBVIOUS
<1>2. outcome' = outcome \/ AdbDevices \/ PrintEnd \/ Interrupt \/ Kill
  OBVIOUS
<1>3. listing' = listing \/ AdbDevices
  OBVIOUS
<1>4. line' = line \/ \E s \in Session : NoteId(s)
  OBVIOUS
<1>5. id_list' = id_list \/ RemoveWorkDir \/ \E s \in Session : NoteId(s)
  OBVIOUS
<1>6. job' = job \/ RemoveWorkDir \/ (\E s \in Session : ForkJob(s))
                 \/ (\E j \in Job : JobStep(j))
  OBVIOUS
<1>7. present' = present \/ RemoveWorkDir \/ \E j \in Job : OpenResult(j)
  OBVIOUS
<1>8. lines' = lines \/ RemoveWorkDir
                     \/ \E j \in Job : OpenResult(j) \/ WriteResult(j)
  OBVIOUS
<1>9. id_cnt' = id_cnt \/ CountIds
  OBVIOUS
<1>10. todo' = todo \/ GatherIds \/ PollResult \/ StartPrinting \/ PrintResult
  OBVIOUS
<1>11. UNCHANGED <<printed, shown>> \/ PrintResult
  OBVIOUS
<1>. QED
  BY <1>1, <1>2, <1>3, <1>4, <1>5, <1>6, <1>7, <1>8, <1>9, <1>10, <1>11

(* Where the main shell may come from.                                     *)
LEMMA Moves ==
  ASSUME [Next]_vars
  PROVE  /\ pc' # "idle" => pc # "idle" \/ Begin
         /\ pc = "rm" /\ pc' \notin {"idle", "rm"} => RemoveWorkDir
         /\ pc' \in {"starting"} \cup Waiting =>
              pc \in {"starting"} \cup Waiting \/ AdbDevices
         /\ pc' = "compare" => pc = "compare" \/ CountIds
         /\ PastBarrier' => PastBarrier \/ CompareCounts
         /\ pc' = "polling" => pc = "polling" \/ GatherIds
         /\ pc' = "sleep" => pc = "sleep" \/ PollEnd
         /\ pc' = "printing" => pc = "printing" \/ StartPrinting
         /\ pc' = "idle" => pc = "idle" \/ AdbDevices \/ PrintEnd \/ Interrupt \/ Kill
<1> USE DEF vars, shellVars, Next, MainStep,
            StarterStep, JobStep, Begin, RemoveWorkDir, MakeWorkDir,
            MakeResultDir, AdbDevices, CountIds, CompareCounts, GatherIds,
            PollResult, PollEnd, StartPrinting, PrintResult, PrintEnd, ForkJob,
            NoteId, StarterEnd, OpenResult, CannotOpenResult, WriteResult,
            NoResult, Interrupt, Kill, Waiting, PastBarrier
<1>1. pc' # "idle" => pc # "idle" \/ Begin
  OBVIOUS
<1>2. pc = "rm" /\ pc' \notin {"idle", "rm"} => RemoveWorkDir
  OBVIOUS
<1>3. pc' \in {"starting"} \cup Waiting =>
        pc \in {"starting"} \cup Waiting \/ AdbDevices
  OBVIOUS
<1>4. pc' = "compare" => pc = "compare" \/ CountIds
  OBVIOUS
<1>5. PastBarrier' => PastBarrier \/ CompareCounts
  OBVIOUS
<1>6. pc' = "polling" => pc = "polling" \/ GatherIds
  OBVIOUS
<1>7. pc' = "sleep" => pc = "sleep" \/ PollEnd
  OBVIOUS
<1>8. pc' = "printing" => pc = "printing" \/ StartPrinting
  OBVIOUS
<1>9. pc' = "idle" => pc = "idle" \/ AdbDevices \/ PrintEnd \/ Interrupt \/ Kill
  OBVIOUS
<1>. QED
  BY <1>1, <1>2, <1>3, <1>4, <1>5, <1>6, <1>7, <1>8, <1>9

(* What no step but one changes.                                           *)
LEMMA Steady ==
  ASSUME IInv, [Next]_vars
  PROVE  /\ session' = session \/ Begin
         /\ \A r \in Session :
              outcome'[r] = outcome[r] \/ (r = session /\ pc # "idle")
         /\ \A r \in Session : listing'[r] = listing[r] \/ (r = session /\ AdbDevices)
<1> USE DEF IInv
<1>0. outcome \in [Session -> {"none", "noboard", "done", "stopped", "killed"}]
      /\ listing \in [Session -> Listing] /\ (pc # "idle" => session \in Session)
  BY Shape DEF TypeOK
<1>1. session' = session \/ Begin
  BY Writers
<1>2. outcome' = outcome \/ \E o : outcome' = [outcome EXCEPT ![session] = o] /\ pc # "idle"
  BY Writers DEF AdbDevices, PrintEnd, Interrupt, Kill, Alive
<1>3. listing' = listing \/ AdbDevices
  BY Writers
<1>4. AdbDevices => \E l : listing' = [listing EXCEPT ![session] = l]
  BY DEF AdbDevices
<1>5. \A r \in Session : outcome'[r] = outcome[r] \/ (r = session /\ pc # "idle")
  BY <1>0, <1>2
<1>6. \A r \in Session : listing'[r] = listing[r] \/ (r = session /\ AdbDevices)
  BY <1>0, <1>3, <1>4
<1>. QED
  BY <1>1, <1>5, <1>6

(* Whether an earlier session was cut short is settled by the time a       *)
(* session begins.                                                         *)
LEMMA UndisturbedStays ==
  ASSUME IInv, [Next]_vars, NEW s \in Session, s <= session
  PROVE  Undisturbed(s)' <=> Undisturbed(s)
<1>1. \A r \in Session : r < s => r # session
  BY Shape, SMT DEF IInv
<1>. QED
  BY <1>1, Steady DEF Undisturbed, CutShort

(* In a session none before was cut short, only its own jobs are alive.    *)
LEMMA MyJobs ==
  ASSUME IInv, pc # "idle", Undisturbed(session),
         NEW j \in Job, job[j] \in {"forked", "open", "unlinked"}
  PROVE  j[1] = session /\ j[2] \in DOMAIN listing[session]
<1>1. /\ j[1] \in Session /\ j[2] \in Line /\ j = <<j[1], j[2]>> /\ session \in Session
      /\ j[2] \in DOMAIN listing[j[1]] /\ j[1] \in Nat /\ session \in Nat
      /\ \A r \in Session : r \in Nat
  BY Shape DEF IInv
<1>2. ~(j[1] > session)
  BY <1>1 DEF IInv, SessionFlow, Fresh
<1>3. ~(j[1] < session)
  <2>1. SUFFICES ASSUME j[1] < session PROVE FALSE
    OBVIOUS
  <2>2. \A q \in Session : q <= j[1] => ~CutShort(q)
    BY <1>1, <2>1, SMT DEF Undisturbed
  <2>3. job[<<j[1], j[2]>>] \in {"none"} \cup Ended
    BY <1>1, <2>1, <2>2 DEF IInv, Quiet, Over
  <2>. QED
    BY <1>1, <2>3 DEF Ended
<1>. QED
  BY <1>1, <1>2, <1>3, SMT

(* So is whether one was killed.                                           *)
LEMMA NoLoopLeftStays ==
  ASSUME IInv, [Next]_vars, pc' \notin {"idle", "rm"}
  PROVE  /\ pc # "idle" /\ session' = session /\ session \in Session
         /\ NoLoopLeft' <=> NoLoopLeft
<1>1. pc # "idle" /\ session' = session
  BY Steady, Moves DEF Begin
<1>2. session \in Session /\ \A r \in Session : r < session => r # session
  BY <1>1, Shape, SMT DEF IInv
<1>. QED
  BY <1>1, <1>2, Steady DEF NoLoopLeft

LEMMA UndisturbedNoLoop ==
  ASSUME Undisturbed(session)
  PROVE  NoLoopLeft
  BY DEF Undisturbed, CutShort, NoLoopLeft

(* In a session none before was killed, only its own loop runs.            *)
LEMMA MyLoop ==
  ASSUME IInv, pc # "idle", NoLoopLeft,
         NEW s \in Session, starter[s] \in {"read", "note"}
  PROVE  s = session /\ pc = "starting"
<1>1. s \in Nat /\ session \in Nat /\ session \in Session
  BY Shape DEF IInv
<1>2. ~(s > session)
  BY DEF IInv, SessionFlow, Fresh
<1>3. outcome[s] # "killed"
  BY <1>1, <1>2, SMT DEF IInv, SessionFlow, NoLoopLeft
<1>. QED
  BY <1>3 DEF IInv, LoopFlow

(* A job that has its board's answer keeps it, and its serial.             *)
LEMMA MeasuredStays ==
  ASSUME IInv, [Next]_vars, NEW j \in Job, Measured(j)
  PROVE  Measured(j)' /\ Serial(j)' = Serial(j)
<1>0. /\ j[1] \in Session /\ j[2] \in Line /\ j = <<j[1], j[2]>>
      /\ job[<<j[1], j[2]>>] = "measured" /\ job \in [Job -> JobState]
      /\ \A r \in Session : \A n \in Line : <<r, n>> \in Job
  BY Shape DEF IInv, TypeOK, Measured
<1>1. listing'[j[1]] = listing[j[1]]
  <2>1. ~(j[1] = session /\ pc = "devices")
    BY <1>0 DEF IInv, SessionFlow, Fresh, NotBegun
  <2>. QED
    BY <1>0, <2>1, Steady DEF AdbDevices
<1>2. job'[j] = job[j]
  <2>1. ASSUME NEW s \in Session, ForkJob(s) PROVE job'[j] = job[j]
    <3>1. job[<<s, line[s]>>] = "none" \/ line[s] \notin Line
      BY <2>1 DEF ForkJob, IInv, JobFlow, ForkedUpTo
    <3>2. j # <<s, line[s]>>
      BY <1>0, <3>1
    <3>. QED
      BY <1>0, <2>1, <3>2 DEF ForkJob
  <2>2. ASSUME NEW k \in Job, JobStep(k) PROVE job'[j] = job[j]
    <3>1. j # k
      BY <1>0, <2>2
         DEF JobStep, OpenResult, CannotOpenResult, WriteResult, NoResult
    <3>. QED
      BY <1>0, <2>2, <3>1
         DEF JobStep, OpenResult, CannotOpenResult, WriteResult, NoResult
  <2>3. CASE RemoveWorkDir
    BY <1>0, <2>3 DEF RemoveWorkDir
  <2>4. CASE UNCHANGED job
    BY <2>4
  <2>. QED
    BY <2>1, <2>2, <2>3, <2>4, Writers
<1>. QED
  BY <1>0, <1>1, <1>2 DEF Measured, Serial
-----------------------------------------------------------------------------

(* start_bench goes on only with a board.                                  *)
LEMMA SomeBoardStep ==
  ASSUME IInv, [Next]_vars
  PROVE  SomeBoard'
<1> USE DEF SomeBoard, Waiting
<1>1. CASE AdbDevices
  <2>1. session \in Session /\ session' = session /\ listing \in [Session -> Listing]
    BY <1>1, Shape DEF AdbDevices, IInv, TypeOK
  <2>. QED
    BY <1>1, <2>1 DEF AdbDevices
<1>2. CASE Begin
  BY <1>2 DEF Begin
<1>3. CASE UNCHANGED <<session, listing>> /\ ~AdbDevices
  BY <1>3, Moves DEF IInv
<1>. QED
  BY <1>1, <1>2, <1>3, Writers

(* The loop notes the id of every line it has been through, and nobody     *)
(* removes it before the next run.                                         *)
LEMMA IdsNotedStep ==
  ASSUME IInv, [Next]_vars
  PROVE  IdsNoted'
<1> SUFFICES ASSUME (pc = "starting" \/ pc \in Waiting)',
                    NEW n \in (DOMAIN listing[session])', (n < line[session])'
             PROVE  In(listing[session][n], id_list)'
  BY DEF IdsNoted
<1> USE DEF shellVars, startVars, fileVars, printVars, Waiting
<1>0. /\ pc # "idle" => session \in Session
      /\ id_list \in Seq(Board) /\ line \in [Session -> Nat \ {0}]
      /\ \A r \in Session : \A k \in DOMAIN listing[r] : k \in Nat
      /\ \A r \in Session : listing[r] \in Seq(Board)
  BY Shape DEF IInv, TypeOK
<1>1. CASE AdbDevices
  <2>1. session' = session /\ line'[session] = 1
    BY <1>0, <1>1 DEF AdbDevices, IInv, SessionFlow, Fresh, NotBegun
  <2>2. \E l \in Listing : listing'[session] = l
    BY <1>0, <1>1, ReportedAssumption DEF AdbDevices, IInv, TypeOK
  <2>3. n \in Nat \ {0}
    BY <2>1, <2>2, ListingSeq, SMT
  <2>. QED
    BY <2>1, <2>3, SMT
<1>2. ASSUME NEW s \in Session, NoteId(s) PROVE In(listing[session][n], id_list)'
  <2>1. pc # "idle" /\ session' = session /\ listing' = listing /\ pc' = pc
    BY <1>2 DEF NoteId
  <2>2. id_list' = Append(id_list, listing[s][line[s]])
    BY <1>2 DEF NoteId, IInv, DirFlow
  <2>3. line[s] \in DOMAIN listing[s] /\ listing[s][line[s]] \in Board
    BY <1>0, <1>2, Shape, SMT DEF NoteId, IInv, LoopFlow
  <2>4. CASE n < line[session]
    BY <1>0, <2>1, <2>2, <2>3, <2>4, InAppend DEF IInv, IdsNoted
  <2>5. CASE ~(n < line[session])
    <3>1. s = session /\ n = line[s]
      BY <1>0, <1>2, <2>1, <2>5, SMT DEF NoteId, NextLine
    <3>. QED
      BY <1>0, <2>1, <2>2, <2>3, <3>1, InAppend
  <2>. QED
    BY <2>4, <2>5
<1>3. CASE /\ UNCHANGED <<session, listing, line, id_list>>
           /\ pc = "starting" \/ pc \in Waiting
  BY <1>3 DEF IInv, IdsNoted
<1>. QED
  BY <1>1, <1>2, <1>3, Writers, Moves DEF Begin, RemoveWorkDir

(* Behind the loop, id_list has every board of the session.                *)
LEMMA AllNoted ==
  ASSUME IInv, pc \in Waiting, NEW b \in Listed(session)
  PROVE  In(b, id_list)
<1>1. PICK n \in DOMAIN listing[session] : b = listing[session][n]
  BY DEF Listed
<1>2. n < line[session]
  BY <1>1, Shape, SMT DEF IInv, LoopFlow, Waiting
<1>. QED
  BY <1>1, <1>2 DEF IInv, IdsNoted

(* print_result has printed an id of id_list, or has it still to read.     *)
LEMMA IdsPrintedStep ==
  ASSUME IInv, [Next]_vars
  PROVE  IdsPrinted'
<1> SUFFICES ASSUME pc' = "printing", NEW b \in Listed(session)'
             PROVE  (b \in printed[session] \/ In(b, todo))'
  BY DEF IdsPrinted
<1> USE DEF shellVars, startVars, fileVars, printVars
<1>0. /\ pc # "idle" => session \in Session
      /\ todo \in Seq(Board) /\ printed \in [Session -> SUBSET Board]
  BY Shape DEF IInv, TypeOK
<1>1. CASE StartPrinting
  <2>1. b \in Listed(session) /\ todo' = id_list /\ pc = "sleep"
    BY <1>1 DEF StartPrinting, Listed
  <2>. QED
    BY <2>1, AllNoted DEF Waiting
<1>2. CASE PrintResult
  <2>1. b \in Listed(session) /\ session' = session
    BY <1>2 DEF PrintResult, Listed
  <2>2. b \in printed[session] \/ b = Head(todo) \/ In(b, Tail(todo))
    BY <1>0, <1>2, <2>1, InTail DEF PrintResult, IInv, IdsPrinted
  <2>3. printed'[session] = printed[session] \cup {Head(todo)} /\ todo' = Tail(todo)
    BY <1>0, <1>2 DEF PrintResult
  <2>. QED
    BY <2>1, <2>2, <2>3
<1>3. CASE UNCHANGED <<session, listing, printed, todo>> /\ pc = "printing"
  BY <1>3 DEF IInv, IdsPrinted, Listed
<1>. QED
  BY <1>1, <1>2, <1>3, Writers, Moves
     DEF Begin, AdbDevices, GatherIds, PollResult

(* A run that reaches its end has read all of id_list.                     *)
LEMMA NothingMissingStep ==
  ASSUME IInv, [Next]_vars
  PROVE  NothingMissing'
<1> SUFFICES ASSUME NEW s \in Session, outcome'[s] = "done"
             PROVE  Listed(s)' \subseteq printed'[s]
  BY DEF NothingMissing
<1>0. /\ pc # "idle" => session \in Session
      /\ printed \in [Session -> SUBSET Board]
      /\ outcome \in [Session -> {"none", "noboard", "done", "stopped", "killed"}]
  BY Shape DEF IInv, TypeOK
<1>1. CASE outcome[s] = "done"
  <2>1. ~(s = session /\ pc # "idle")
    BY <1>1 DEF IInv, SessionFlow
  <2>2. Listed(s)' = Listed(s)
    BY <2>1, Steady DEF AdbDevices, Listed
  <2>3. printed[s] \subseteq printed'[s]
    BY <1>0, Writers DEF PrintResult
  <2>. QED
    BY <1>1, <2>2, <2>3 DEF IInv, NothingMissing
<1>2. CASE outcome[s] # "done"
  <2>1. PrintEnd /\ s = session
    BY <1>0, <1>2, Writers DEF AdbDevices, PrintEnd, Interrupt, Kill, Alive
  <2>2. \A b \in Listed(s) : ~In(b, todo)
    BY <2>1, SMT DEF PrintEnd, In
  <2>3. Listed(s) \subseteq printed[s]
    BY <2>1, <2>2 DEF PrintEnd, IInv, IdsPrinted
  <2>. QED
    BY <2>1, <2>3 DEF PrintEnd, startVars, printVars, Listed
<1>. QED
  BY <1>1, <1>2
-----------------------------------------------------------------------------

(* A file's answer stays one of the same board, in later states too.       *)
LEMMA AnswerStays ==
  ASSUME IInv, [Next]_vars, NEW b, NEW s \in Nat, NEW t \in Nat, s <= t,
         NEW file, AnswerOf(b, s, file)
  PROVE  file # {} => \E j \in Job : /\ file = {j} /\ Serial(j)' = b
                                     /\ Measured(j)' /\ j[1] <= t
<1>1. SUFFICES ASSUME file # {}
               PROVE \E j \in Job : /\ file = {j} /\ Serial(j)' = b
                                    /\ Measured(j)' /\ j[1] <= t
  OBVIOUS
<1>2. PICK j \in Job : file = {j} /\ Serial(j) = b /\ Measured(j) /\ j[1] <= s
  BY <1>1 DEF AnswerOf
<1>3. Measured(j)' /\ Serial(j)' = Serial(j)
  BY <1>2, MeasuredStays
<1>4. j[1] \in Nat
  BY Shape DEF IInv
<1>5. j[1] <= t
  BY <1>2, <1>4, SMT
<1>. QED
  BY <1>2, <1>3, <1>5

(* A result file is written by jobs of the serial it is named after.       *)
LEMMA FileContentsStep ==
  ASSUME IInv, [Next]_vars
  PROVE  FileContents'
<1> SUFFICES ASSUME NEW b \in Board PROVE AnswerOf(b, session, lines[b])'
  BY DEF FileContents
<1>0. /\ lines \in [Board -> SUBSET Job] /\ job \in [Job -> JobState]
      /\ session \in Nat
  BY Shape DEF IInv, TypeOK
<1>1. session' \in Nat /\ session <= session'
  BY <1>0, Steady, SMT DEF Begin
<1>2. CASE lines'[b] = lines[b]
  <2>1. AnswerOf(b, session, lines[b])
    BY DEF IInv, FileContents
  <2>2. lines[b] # {} =>
          \E j \in Job : /\ lines[b] = {j} /\ Serial(j)' = b
                         /\ Measured(j)' /\ j[1] <= session'
    BY <1>0, <1>1, <2>1, AnswerStays
  <2>. QED
    BY <1>2, <2>2 DEF AnswerOf
<1>3. CASE lines'[b] = {}
  BY <1>3 DEF AnswerOf
<1>4. ASSUME NEW j \in Job, WriteResult(j), Serial(j) = b, lines'[b] = {j}
      PROVE  AnswerOf(b, session, lines[b])'
  <2>1. job'[j] = "measured" /\ job[j] # "none" /\ listing' = listing
    BY <1>0, <1>4 DEF WriteResult, startVars
  <2>2. Measured(j)' /\ Serial(j)' = b
    BY <1>4, <2>1, Shape DEF IInv, Measured, Serial
  <2>3. ~(j[1] > session)
    BY <2>1, Shape DEF IInv, SessionFlow, Fresh
  <2>4. j[1] <= session'
    BY <1>0, <1>1, <2>3, Shape, SMT DEF IInv
  <2>. QED
    BY <1>4, <2>2, <2>4 DEF AnswerOf
<1>5. \/ lines'[b] = lines[b] \/ lines'[b] = {}
      \/ \E j \in Job : WriteResult(j) /\ Serial(j) = b /\ lines'[b] = {j}
  BY <1>0, Writers DEF RemoveWorkDir, OpenResult, WriteResult
<1>. QED
  BY <1>2, <1>3, <1>4, <1>5

(* What print_result prints is what the file holds.                        *)
LEMMA ShownContentsStep ==
  ASSUME IInv, [Next]_vars
  PROVE  ShownContents'
<1> SUFFICES ASSUME NEW s \in Session, NEW b \in Board
             PROVE  /\ AnswerOf(b, s, shown[s][b])'
                    /\ b \notin printed'[s] => shown'[s][b] = {}
  BY DEF ShownContents
<1>0. /\ pc # "idle" => session \in Session
      /\ printed \in [Session -> SUBSET Board]
      /\ shown \in [Session -> [Board -> SUBSET Job]]
      /\ todo \in Seq(Board) /\ s \in Nat
  BY Shape DEF IInv, TypeOK
<1>1. AnswerOf(b, s, shown[s][b]) /\ (b \notin printed[s] => shown[s][b] = {})
  BY DEF IInv, ShownContents
<1>2. s <= s
  BY <1>0, SMT
<1>3. ASSUME shown'[s][b] = shown[s][b] PROVE AnswerOf(b, s, shown[s][b])'
  <2>1. shown[s][b] # {} =>
          \E j \in Job : /\ shown[s][b] = {j} /\ Serial(j)' = b
                         /\ Measured(j)' /\ j[1] <= s
    BY <1>0, <1>1, <1>2, AnswerStays
  <2>. QED
    BY <1>3, <2>1 DEF AnswerOf
<1>4. CASE PrintResult
  <2>1. Head(todo) \in Board /\ session \in Session
    BY <1>0, <1>4, SMT DEF PrintResult
  <2>2. /\ printed' = [printed EXCEPT ![session] = @ \cup {Head(todo)}]
        /\ shown' = [shown EXCEPT ![session][Head(todo)] = lines[Head(todo)]]
    BY <1>4 DEF PrintResult
  <2>3. CASE s = session /\ b = Head(todo)
    <3>1. shown'[s][b] = lines[b] /\ b \in printed'[s]
      BY <1>0, <2>1, <2>2, <2>3
    <3>2. AnswerOf(b, s, lines[b])
      BY <2>3 DEF IInv, FileContents
    <3>3. lines[b] # {} =>
            \E j \in Job : /\ lines[b] = {j} /\ Serial(j)' = b
                           /\ Measured(j)' /\ j[1] <= s
      BY <1>0, <1>2, <3>2, AnswerStays
    <3>. QED
      BY <3>1, <3>3 DEF AnswerOf
  <2>4. CASE ~(s = session /\ b = Head(todo))
    <3>1. shown'[s][b] = shown[s][b]
      BY <1>0, <2>1, <2>2, <2>4, SMT
    <3>2. b \notin printed'[s] => b \notin printed[s]
      BY <1>0, <2>1, <2>2
    <3>. QED
      BY <1>1, <1>3, <3>1, <3>2
  <2>. QED
    BY <2>3, <2>4
<1>5. CASE UNCHANGED <<printed, shown>>
  BY <1>1, <1>3, <1>5
<1>. QED
  BY <1>4, <1>5, Writers
-----------------------------------------------------------------------------

(* A job whose file is open, or that is over, does not go back.            *)
LEMMA OpenedStays ==
  ASSUME IInv, [Next]_vars, pc \notin {"idle", "rm"},
         NEW n \in DOMAIN listing[session], Opened(n)
  PROVE  Opened(n)'
<1>0. /\ session \in Session /\ n \in Line /\ <<session, n>> \in Job
      /\ job \in [Job -> JobState]
  BY Shape DEF IInv, TypeOK
<1>1. session' = session
  BY Steady DEF Begin
<1>2. ASSUME NEW s \in Session, ForkJob(s)
      PROVE  job'[<<session, n>>] = job[<<session, n>>]
  <2>1. <<session, n>> # <<s, line[s]>>
    BY <1>0, <1>2 DEF ForkJob, IInv, JobFlow, ForkedUpTo, Opened, Ended
  <2>. QED
    BY <1>0, <1>2, <2>1 DEF ForkJob
<1>3. ASSUME NEW j \in Job, JobStep(j)
      PROVE  job'[<<session, n>>] \in {"open"} \cup Ended
  BY <1>0, <1>3
     DEF Opened, Ended, JobStep, OpenResult, CannotOpenResult, WriteResult,
         NoResult
<1>4. CASE UNCHANGED job
  BY <1>1, <1>4 DEF Opened
<1>. QED
  BY <1>1, <1>2, <1>3, <1>4, Writers DEF Opened, RemoveWorkDir

(* Behind the barrier no job of the session truncates its file.            *)
LEMMA AnsweredStays ==
  ASSUME IInv, [Next]_vars, PastBarrier, Undisturbed(session),
         NEW b \in Board, Answered(b)
  PROVE  Answered(b)'
<1>0. lines \in [Board -> SUBSET Job] /\ pc \notin {"idle", "rm"}
  BY DEF IInv, TypeOK, PastBarrier
<1>1. ASSUME NEW j \in Job PROVE ~OpenResult(j)
  <2>1. SUFFICES ASSUME OpenResult(j) PROVE FALSE
    OBVIOUS
  <2>2. j[1] = session /\ j[2] \in DOMAIN listing[session] /\ j = <<j[1], j[2]>>
    BY <1>0, <2>1, MyJobs, Shape DEF OpenResult, IInv
  <2>3. Opened(j[2])
    BY <2>2 DEF IInv, BarrierHolds
  <2>. QED
    BY <2>1, <2>2, <2>3 DEF OpenResult, Opened, Ended
<1>2. ASSUME NEW j \in Job, WriteResult(j) PROVE lines'[b] # {}
  BY <1>0, <1>2 DEF WriteResult, Answered
<1>3. CASE UNCHANGED lines
  BY <1>3 DEF Answered
<1>. QED
  BY <1>0, <1>1, <1>2, <1>3, Writers DEF Answered, RemoveWorkDir

(* Past the second wait, each job of an undisturbed session is measured.   *)
LEMMA AllMeasured ==
  ASSUME IInv, pc \in {"sleep", "printing"}, Undisturbed(session), NEW n \in DOMAIN listing[session]
  PROVE  /\ job[<<session, n>>] = "measured"
         /\ lines[listing[session][n]] = {<<session, n>>}
<1>0. /\ session \in Session /\ listing[session][n] \in Board
      /\ DOMAIN listing[session] = 1 .. Len(listing[session])
      /\ \A j \in Job : j = <<j[1], j[2]>>
  BY Shape, SMT DEF IInv
<1>1. lines[listing[session][n]] # {}
  BY DEF IInv, AllAnswered, Answered, Listed
<1>2. PICK j \in Job : /\ lines[listing[session][n]] = {j}
                       /\ Serial(j) = listing[session][n] /\ Measured(j)
  BY <1>0, <1>1 DEF IInv, FileContents, AnswerOf
<1>3. j[1] = session
  BY <1>0, <1>2 DEF IInv, OwnFiles
<1>4. j[2] = n
  BY <1>0, <1>2, <1>3
     DEF IInv, BarrierHolds, PastBarrier, Twins, Serial, Measured
<1>. QED
  BY <1>0, <1>2, <1>3, <1>4 DEF Measured

(* A run that got through its two waits leaves no job behind.              *)
LEMMA QuietStep ==
  ASSUME IInv, [Next]_vars
  PROVE  Quiet'
<1> SUFFICES ASSUME NEW r \in Session, Over(r)',
                    \A q \in Session : q <= r => ~CutShort(q)',
                    NEW n \in Line
             PROVE  job'[<<r, n>>] \in {"none"} \cup Ended
  BY DEF Quiet
<1>0. /\ r \in Nat /\ session \in Nat /\ <<r, n>> \in Job
      /\ \A q \in Session : q \in Nat
      /\ pc # "idle" => session \in Session
      /\ job \in [Job -> JobState]
      /\ outcome \in [Session -> {"none", "noboard", "done", "stopped", "killed"}]
  BY Shape DEF IInv, TypeOK
<1>1. CASE Over(r)
  <2>1. \A q \in Session : q <= r => ~CutShort(q)
    <3>1. \A q \in Session : q <= r => ~(q = session /\ pc # "idle")
      BY <1>0, <1>1, SMT DEF Over
    <3>. QED
      BY <3>1, Steady DEF CutShort
  <2>2. job[<<r, n>>] \in {"none"} \cup Ended
    BY <1>1, <2>1 DEF IInv, Quiet
  <2>3. ASSUME NEW s \in Session, ForkJob(s) PROVE s # r
    BY <1>0, <1>1, <2>1, <2>3, SMT
       DEF ForkJob, IInv, LoopFlow, Over, CutShort
  <2>4. ASSUME NEW s \in Session, ForkJob(s)
        PROVE  job'[<<r, n>>] = job[<<r, n>>]
    BY <1>0, <2>3, <2>4 DEF ForkJob
  <2>5. ASSUME NEW j \in Job, JobStep(j)
        PROVE  job'[<<r, n>>] \in {"none"} \cup Ended
    BY <1>0, <2>2, <2>5
       DEF Ended, JobStep, OpenResult, CannotOpenResult, WriteResult, NoResult
  <2>6. CASE RemoveWorkDir
    BY <1>0, <2>2, <2>6 DEF RemoveWorkDir, Ended
  <2>7. CASE UNCHANGED job
    BY <2>2, <2>7
  <2>. QED
    BY <2>2, <2>4, <2>5, <2>6, <2>7, Writers
<1>2. CASE ~Over(r)
  <2>1. r = session /\ pc # "idle" /\ pc' = "idle"
    BY <1>0, <1>2, Steady, SMT DEF Over, Begin
  <2>2. CASE Interrupt \/ Kill
    BY <1>0, <2>1, <2>2 DEF Interrupt, Kill, CutShort
  <2>3. CASE AdbDevices
    BY <1>0, <2>1, <2>3 DEF AdbDevices, IInv, SessionFlow, NotBegun, Fresh
  <2>4. CASE PrintEnd
    <3>1. \A q \in Session : q < r => ~CutShort(q)
      BY <1>0, <2>1, Steady, SMT DEF CutShort
    <3>2. job[<<r, n>>] \in {"none", "measured"}
      <4>1. CASE n \in DOMAIN listing[r]
        BY <2>1, <2>4, <3>1, <4>1, AllMeasured DEF PrintEnd, Undisturbed
      <4>2. CASE n \notin DOMAIN listing[r]
        BY <1>0, <4>2, Shape DEF IInv
      <4>. QED
        BY <4>1, <4>2
    <3>. QED
      BY <2>4, <3>2 DEF PrintEnd, Ended
  <2>. QED
    BY <2>1, <2>2, <2>3, <2>4, Moves
<1>. QED
  BY <1>1, <1>2
-----------------------------------------------------------------------------

(* What is left to show of a part about the session under way when it is   *)
(* undisturbed after a step: it was before, and it is still the same one.  *)
LEMMA StillMine ==
  ASSUME IInv, [Next]_vars, pc' \notin {"idle", "rm"}, Undisturbed(session)'
  PROVE  /\ pc # "idle" /\ session' = session /\ session \in Session
         /\ Undisturbed(session)
         /\ pc = "rm" => RemoveWorkDir
<1>1. pc = "rm" => RemoveWorkDir
  BY Moves
<1>2. pc # "idle" /\ session' = session
  BY Steady, Moves DEF Begin
<1>3. session \in Session /\ session <= session
  BY <1>2, Shape, SMT DEF IInv
<1>4. Undisturbed(session)
  BY <1>2, <1>3, UndisturbedStays
<1>. QED
  BY <1>1, <1>2, <1>3, <1>4

(* rm -rf removes the files of the run before; from then on only jobs of   *)
(* this run make any.                                                      *)
LEMMA OwnFilesStep ==
  ASSUME IInv, [Next]_vars
  PROVE  OwnFiles'
<1> SUFFICES ASSUME pc' \notin {"idle", "rm"}, Undisturbed(session)'
             PROVE  /\ \A b \in present' : \E n \in (DOMAIN listing[session])' :
                         (listing[session][n] = b /\ Opened(n))'
                    /\ \A b \in Board : \A j \in lines'[b] : j[1] = session'
  BY DEF OwnFiles
<1>0. /\ pc # "idle" /\ session' = session /\ session \in Session
      /\ Undisturbed(session)
      /\ lines \in [Board -> SUBSET Job] /\ job \in [Job -> JobState]
  BY StillMine DEF IInv, TypeOK
<1>1. CASE pc = "rm"
  <2>1. RemoveWorkDir
    BY <1>1, StillMine
  <2>. QED
    BY <2>1 DEF RemoveWorkDir
<1>2. CASE pc # "rm"
  <2>1. /\ \A b \in present : \E n \in DOMAIN listing[session] :
             listing[session][n] = b /\ Opened(n)
        /\ \A b \in Board : \A j \in lines[b] : j[1] = session
    BY <1>0, <1>2 DEF IInv, OwnFiles
  <2>2. ASSUME NEW b \in present PROVE \E n \in (DOMAIN listing[session])' :
                                         (listing[session][n] = b /\ Opened(n))'
    <3>1. PICK n \in DOMAIN listing[session] : listing[session][n] = b /\ Opened(n)
      BY <2>1
    <3>2. listing'[session] = listing[session]
      BY <1>0, <3>1, Shape, Steady, SMT
         DEF AdbDevices, IInv, SessionFlow, NotBegun, Fresh
    <3>3. Opened(n)'
      BY <1>0, <1>2, <3>1, OpenedStays
    <3>. QED
      BY <1>0, <3>1, <3>2, <3>3
  <2>3. ASSUME NEW j \in Job, OpenResult(j)
        PROVE  /\ \A b \in present' : \E n \in (DOMAIN listing[session])' :
                    (listing[session][n] = b /\ Opened(n))'
               /\ \A b \in Board : \A k \in lines'[b] : k[1] = session'
    <3>1. j[1] = session /\ j[2] \in DOMAIN listing[session] /\ j = <<j[1], j[2]>>
      BY <1>0, <2>3, MyJobs, Shape DEF OpenResult, IInv
    <3>2. listing' = listing /\ job'[j] = "open" /\ session' = session
          /\ present' = present \cup {Serial(j)}
      BY <1>0, <2>3 DEF OpenResult, startVars, shellVars
    <3>3. (listing[session][j[2]] = Serial(j) /\ Opened(j[2]))'
      BY <3>1, <3>2 DEF Serial, Opened
    <3>4. Serial(j)' = Serial(j) /\ j[2] \in (DOMAIN listing[session])'
      BY <3>1, <3>2 DEF Serial
    <3>5. \A b \in Board : lines'[b] = lines[b] \/ lines'[b] = {}
      BY <1>0, <2>3 DEF OpenResult
    <3>. QED
      BY <1>0, <2>1, <2>2, <3>2, <3>3, <3>4, <3>5
  <2>4. ASSUME NEW j \in Job, WriteResult(j)
        PROVE  /\ present' = present
               /\ \A b \in Board : \A k \in lines'[b] : k[1] = session'
    <3>1. j[1] = session
      BY <1>0, <2>4, MyJobs DEF WriteResult
    <3>2. \A b \in Board : lines'[b] = lines[b] \/ lines'[b] = {j}
      BY <1>0, <2>4 DEF WriteResult
    <3>. QED
      BY <1>0, <2>1, <2>4, <3>1, <3>2 DEF WriteResult
  <2>5. CASE UNCHANGED <<present, lines>>
    BY <1>0, <2>1, <2>2, <2>5
  <2>. QED
    BY <1>2, <2>2, <2>3, <2>4, <2>5, Writers DEF RemoveWorkDir
<1>. QED
  BY <1>1, <1>2

(* ... and only its own loop writes in id_list.                            *)
LEMMA OwnIdsStep ==
  ASSUME IInv, [Next]_vars
  PROVE  OwnIds'
<1> SUFFICES ASSUME pc' \notin {"idle", "rm"}, NoLoopLeft'
             PROVE  /\ (Len(id_list) = line[session] - 1)'
                    /\ \A i \in 1 .. Len(id_list') : id_list'[i] \in Listed(session)'
  BY DEF OwnIds
<1>0. /\ pc # "idle" /\ session' = session /\ session \in Session
      /\ NoLoopLeft
      /\ line \in [Session -> Nat \ {0}] /\ id_list \in Seq(Board)
  BY NoLoopLeftStays DEF IInv, TypeOK
<1>1. CASE pc = "rm"
  <2>1. RemoveWorkDir
    BY <1>1, Moves
  <2>2. line[session] = 1
    BY <1>0, <1>1 DEF IInv, SessionFlow, NotBegun, Fresh
  <2>. QED
    BY <1>0, <2>1, <2>2, SMT DEF RemoveWorkDir, startVars
<1>2. CASE pc # "rm"
  <2>1. /\ Len(id_list) = line[session] - 1
        /\ \A i \in 1 .. Len(id_list) : id_list[i] \in Listed(session)
    BY <1>0, <1>2 DEF IInv, OwnIds
  <2>2. ASSUME NEW s \in Session, NoteId(s)
        PROVE  /\ (Len(id_list) = line[session] - 1)'
               /\ \A i \in 1 .. Len(id_list') : id_list'[i] \in Listed(session)'
    <3>1. s = session /\ pc = "starting"
      BY <1>0, <2>2, MyLoop DEF NoteId
    <3>2. line[s] \in DOMAIN listing[s] /\ listing[s][line[s]] \in Board
      BY <1>0, <2>2, <3>1, Shape, SMT DEF NoteId, IInv, LoopFlow
    <3>3. /\ id_list' = Append(id_list, listing[session][line[session]])
          /\ line'[session] = line[session] + 1 /\ listing' = listing
      BY <1>0, <2>2, <3>1 DEF NoteId, NextLine, IInv, DirFlow
    <3>4. Listed(session)' = Listed(session) /\ listing[session][line[session]] \in Listed(session)
      BY <1>0, <3>1, <3>2, <3>3 DEF Listed
    <3>5. /\ Len(id_list') = Len(id_list) + 1
          /\ \A i \in 1 .. Len(id_list) + 1 : id_list'[i] =
               IF i <= Len(id_list) THEN id_list[i] ELSE listing[session][line[session]]
      BY <1>0, <3>1, <3>2, <3>3, InAppend
    <3>. QED
      BY <1>0, <2>1, <3>3, <3>4, <3>5, SMT
  <2>3. CASE AdbDevices
    <3>1. line' = line /\ id_list' = id_list /\ line[session] = 1
      BY <1>0, <2>3
         DEF AdbDevices, fileVars, IInv, SessionFlow, NotBegun, Fresh
    <3>. QED
      BY <1>0, <2>1, <3>1, SMT
  <2>4. CASE UNCHANGED <<line, id_list, listing>>
    BY <1>0, <2>1, <2>4 DEF Listed
  <2>. QED
    BY <1>2, <2>2, <2>3, <2>4, Writers DEF RemoveWorkDir
<1>. QED
  BY <1>1, <1>2

(* wc -l counts the lines of the listing.                                  *)
LEMMA BarrierCountStep ==
  ASSUME IInv, [Next]_vars
  PROVE  BarrierCount'
<1> SUFFICES ASSUME pc' = "compare", NoLoopLeft'
             PROVE  (id_cnt = Len(listing[session]))'
  BY DEF BarrierCount
<1>0. /\ pc # "idle" /\ session' = session /\ session \in Session
      /\ NoLoopLeft
  BY NoLoopLeftStays
<1>1. CASE CountIds
  <2>1. Len(id_list) = Len(listing[session]) + 1 - 1
    BY <1>0, <1>1 DEF CountIds, IInv, OwnIds, LoopFlow, Waiting
  <2>2. Len(listing[session]) \in Nat
    BY <1>0, Shape DEF IInv
  <2>. QED
    BY <1>0, <1>1, <2>1, <2>2, SMT DEF CountIds, startVars
<1>2. CASE pc = "compare" /\ UNCHANGED <<id_cnt, listing>>
  BY <1>0, <1>2 DEF IInv, BarrierCount
<1>. QED
  BY <1>1, <1>2, Writers, Moves DEF AdbDevices

(* The count: every file is named after a job that has opened it, so as    *)
(* many files as lines means that every line's job has, on a file of its   *)
(* own.                                                                    *)
LEMMA CountIsBarrier ==
  ASSUME IInv, pc = "compare", Undisturbed(session),
         ~TooFew(Cardinality(present))
  PROVE  ~Twins(session) /\ \A n \in DOMAIN listing[session] : Opened(n)
<1> DEFINE L == DOMAIN listing[session]
           Who(b) == CHOOSE n \in L : listing[session][n] = b /\ Opened(n)
           g == [b \in present |-> Who(b)]
<1>0. /\ session \in Session /\ L = 1 .. Len(listing[session])
      /\ Len(listing[session]) \in Nat /\ id_cnt = Len(listing[session])
      /\ present \subseteq Board
  BY Shape, UndisturbedNoLoop DEF IInv, TypeOK, BarrierCount
<1>1. \A b \in present : Who(b) \in L /\ listing[session][Who(b)] = b /\ Opened(Who(b))
  BY DEF IInv, OwnFiles
<1>2. IsFiniteSet(L) /\ Cardinality(L) = Len(listing[session])
  BY <1>0, FS_Interval, SMT
<1>3. g \in Injection(present, L)
  <2>1. g \in [present -> L]
    BY <1>1
  <2>2. \A b, c \in present : g[b] = g[c] => b = c
    BY <1>1
  <2>. QED
    BY <2>1, <2>2 DEF Injection, IsInjective
<1>4. IsFiniteSet(present)
  BY <1>0, BoardAssumption, FS_Subset
<1>5. /\ Cardinality(present) \in Nat /\ Cardinality(present) <= Cardinality(L)
      /\ Cardinality(present) = Cardinality(L) <=> g \in Surjection(present, L)
  BY <1>2, <1>3, <1>4, FS_Injection, FS_CardinalityType
<1>6. Cardinality(present) = Cardinality(L)
  BY <1>0, <1>2, <1>5, SMT DEF TooFew
<1>7. \A n \in L : \E b \in present : n = Who(b)
  BY <1>5, <1>6 DEF Surjection
<1>8. \A n \in L : Opened(n)
  BY <1>1, <1>7
<1>9. ASSUME NEW m \in L, NEW n \in L, listing[session][m] = listing[session][n]
      PROVE  m = n
  <2>1. PICK b \in present, c \in present : m = Who(b) /\ n = Who(c)
    BY <1>7
  <2>2. b = c
    BY <1>1, <1>9, <2>1
  <2>. QED
    BY <2>1, <2>2
<1>. QED
  BY <1>8, <1>9 DEF Twins

(* What the count established stays: nobody closes the gap again.          *)
LEMMA BarrierHoldsStep ==
  ASSUME IInv, [Next]_vars
  PROVE  BarrierHolds'
<1> SUFFICES ASSUME PastBarrier', Undisturbed(session)'
             PROVE  /\ ~Twins(session)'
                    /\ \A n \in (DOMAIN listing[session])' : Opened(n)'
  BY DEF BarrierHolds
<1>0. /\ pc # "idle" /\ session' = session /\ session \in Session
      /\ Undisturbed(session)
  BY StillMine DEF PastBarrier
<1>1. pc \notin {"idle", "rm", "devices"} /\ listing' = listing
  BY <1>0, Writers, Moves DEF CompareCounts, AdbDevices, PastBarrier
<1>2. ~Twins(session) /\ \A n \in DOMAIN listing[session] : Opened(n)
  <2>1. CASE CompareCounts
    BY <1>0, <2>1, CountIsBarrier DEF CompareCounts, PastBarrier
  <2>2. CASE PastBarrier
    BY <1>0, <2>2 DEF IInv, BarrierHolds
  <2>. QED
    BY <2>1, <2>2, Moves DEF PastBarrier
<1>. QED
  BY <1>0, <1>1, <1>2, OpenedStays DEF Twins

(* Behind the second wait every file has a line, and keeps it.             *)
LEMMA AllAnsweredStep ==
  ASSUME IInv, [Next]_vars
  PROVE  AllAnswered'
<1> SUFFICES ASSUME pc' \in {"polling", "sleep", "printing"}, Undisturbed(session)'
             PROVE  /\ pc' = "polling" => \A b \in Listed(session)' :
                                            Answered(b)' \/ In(b, todo)'
                    /\ pc' \in {"sleep", "printing"} => \A b \in Listed(session)' : Answered(b)'
                    /\ pc' = "printing" =>
                         \A i \in 1 .. Len(todo') : todo'[i] \in Listed(session)'
  BY DEF AllAnswered
<1>0. /\ pc # "idle" /\ session' = session /\ session \in Session
      /\ Undisturbed(session) /\ todo \in Seq(Board)
      /\ \A b \in Listed(session) : b \in Board
  <2>1. \A b \in Listed(session) : b \in Board
    BY StillMine, Shape, SMT DEF IInv, Listed
  <2>. QED
    BY <2>1, StillMine DEF IInv, TypeOK
<1>1. Listed(session)' = Listed(session) /\ pc # "devices" /\ PastBarrier
  BY <1>0, Writers, Moves
     DEF AdbDevices, GatherIds, PollEnd, StartPrinting, Listed, PastBarrier
<1>2. \A b \in Listed(session) : Answered(b) => Answered(b)'
  BY <1>0, <1>1, AnsweredStays
<1>3. CASE GatherIds
  <2>1. pc' = "polling" /\ todo' = id_list /\ pc \in Waiting
    BY <1>3 DEF GatherIds, Waiting
  <2>. QED
    BY <1>1, <2>1, AllNoted
<1>4. CASE PollResult
  <2>1. /\ pc' = "polling" /\ pc = "polling" /\ todo # << >> /\ todo' = Tail(todo)
        /\ Answered(Head(todo))
    BY <1>4 DEF PollResult
  <2>2. \A b \in Listed(session) : Answered(b) \/ In(b, Tail(todo))
    BY <1>0, <2>1, InTail DEF IInv, AllAnswered
  <2>. QED
    BY <1>1, <1>2, <2>1, <2>2
<1>5. CASE PollEnd
  <2>1. \A b \in Listed(session) : ~In(b, todo)
    BY <1>5, SMT DEF PollEnd, In
  <2>. QED
    BY <1>0, <1>1, <1>2, <1>5, <2>1 DEF PollEnd, IInv, AllAnswered
<1>6. CASE StartPrinting
  <2>1. pc' = "printing" /\ todo' = id_list /\ pc = "sleep"
    BY <1>6 DEF StartPrinting
  <2>. QED
    BY <1>0, <1>1, <1>2, <2>1, UndisturbedNoLoop DEF IInv, AllAnswered, OwnIds
<1>7. CASE PrintResult
  <2>1. pc' = "printing" /\ pc = "printing" /\ todo # << >> /\ todo' = Tail(todo)
    BY <1>7 DEF PrintResult
  <2>2. \A i \in 1 .. Len(Tail(todo)) : Tail(todo)[i] \in Listed(session)
    BY <1>0, <2>1, InTail DEF IInv, AllAnswered
  <2>. QED
    BY <1>0, <1>1, <1>2, <2>1, <2>2 DEF IInv, AllAnswered
<1>8. CASE UNCHANGED <<pc, todo>>
  BY <1>0, <1>1, <1>2, <1>8 DEF IInv, AllAnswered
<1>. QED
  BY <1>3, <1>4, <1>5, <1>6, <1>7, <1>8, Writers, Moves

(* print_result prints, of each file, the answer AllMeasured says it has.  *)
LEMMA OwnResultsStep ==
  ASSUME IInv, [Next]_vars
  PROVE  OwnResults'
<1> SUFFICES ASSUME NEW s \in Session, NEW b \in printed'[s]
             PROVE  /\ \A j \in shown'[s][b] :
                         Serial(j)' = b /\ job'[j] = "measured" /\ j[1] <= s
                    /\ Undisturbed(s)' => \E n \in (DOMAIN listing[s])' :
                                             shown'[s][b] = {<<s, n>>}
  BY DEF OwnResults
<1>0. /\ pc # "idle" => session \in Session
      /\ printed \in [Session -> SUBSET Board] /\ session \in Nat /\ s \in Nat
      /\ shown \in [Session -> [Board -> SUBSET Job]]
      /\ lines \in [Board -> SUBSET Job] /\ todo \in Seq(Board)
  BY Shape DEF IInv, TypeOK
<1>1. \A j \in shown'[s][b] :
        Serial(j)' = b /\ job'[j] = "measured" /\ j[1] <= s
  <2>1. b \in Board
    BY TypeStep DEF IInv, TypeOK
  <2>. QED
    BY <2>1, ShownContentsStep DEF ShownContents, AnswerOf, Measured
<1>2. CASE b \in printed[s] /\ shown'[s][b] = shown[s][b]
  <2>1. s <= session /\ ~(s = session /\ pc = "devices")
    BY <1>0, <1>2, SMT DEF IInv, SessionFlow, Fresh, NotBegun
  <2>2. listing'[s] = listing[s] /\ (Undisturbed(s)' <=> Undisturbed(s))
    BY <2>1, Steady, UndisturbedStays DEF AdbDevices
  <2>3. Undisturbed(s) => \E n \in DOMAIN listing[s] : shown[s][b] = {<<s, n>>}
    BY <1>2 DEF IInv, OwnResults
  <2>. QED
    BY <1>1, <1>2, <2>2, <2>3
<1>3. CASE PrintResult
  <2>1. Head(todo) \in Board /\ session \in Session /\ todo # << >>
    BY <1>0, <1>3, SMT DEF PrintResult
  <2>2. /\ printed' = [printed EXCEPT ![session] = @ \cup {Head(todo)}]
        /\ shown' = [shown EXCEPT ![session][Head(todo)] = lines[Head(todo)]]
        /\ listing' = listing /\ outcome' = outcome /\ pc = "printing"
    BY <1>3 DEF PrintResult, startVars
  <2>3. CASE s = session /\ b = Head(todo)
    <3>1. shown'[s][b] = lines[b]
      BY <1>0, <2>1, <2>2, <2>3
    <3>2. Undisturbed(s)' <=> Undisturbed(s)
      BY <2>2 DEF Undisturbed, CutShort
    <3>3. ASSUME Undisturbed(s)
          PROVE  \E n \in DOMAIN listing[s] : lines[b] = {<<s, n>>}
      <4>1. b \in Listed(s)
        <5>1. 1 \in 1 .. Len(todo) /\ b = todo[1]
          BY <1>0, <2>1, <2>3, SMT
        <5>. QED
          BY <2>2, <2>3, <3>3, <5>1 DEF IInv, AllAnswered
      <4>2. PICK n \in DOMAIN listing[s] : b = listing[s][n]
        BY <4>1 DEF Listed
      <4>. QED
        BY <2>2, <2>3, <3>3, <4>2, AllMeasured
    <3>. QED
      BY <1>1, <2>2, <3>1, <3>2, <3>3
  <2>4. CASE ~(s = session /\ b = Head(todo))
    <3>1. b \in printed[s]
      BY <1>0, <2>1, <2>2, <2>4
    <3>2. shown'[s][b] = shown[s][b]
      BY <1>0, <2>1, <2>2, <2>4, <3>1, SMT
    <3>. QED
      BY <1>2, <3>1, <3>2
  <2>. QED
    BY <2>3, <2>4
<1>4. CASE UNCHANGED <<printed, shown>>
  BY <1>2, <1>4
<1>. QED
  BY <1>3, <1>4, Writers
-----------------------------------------------------------------------------

(* The parts of the invariant hold before the first run.                   *)
LEMMA InitIInv == Init => IInv
<1> SUFFICES ASSUME Init PROVE IInv
  OBVIOUS
<1>0. 0 \in Nat /\ 0 \in 0 .. MaxSession /\ 1 \in Nat \ {0} /\ 0 \notin Session
      /\ << >> \in Listing /\ Len(<< >>) = 0 /\ << >> \in Seq(Board)
  <2>1. << >> \in [1 .. 0 -> Board]
    BY SMT
  <2>2. << >> \in Listing
    BY <2>1, MaxLineAssumption, SMT DEF Listing
  <2>. QED
    BY <2>2, MaxSessionAssumption, SMT DEF Session
<1>1. TypeOK
  BY <1>0, SMT DEF Init, TypeOK, Alive, JobState
<1>2. \A r \in Session : Fresh(r) /\ outcome[r] = "none" /\ r > 0
  BY SMT DEF Init, Fresh, Job, Session
<1>3. SessionFlow
  BY <1>2, SMT DEF Init, SessionFlow, Session
<1>4. LoopFlow
  BY <1>2 DEF Init, LoopFlow, Fresh, Waiting
<1>5. JobFlow
  <2>1. \A n \in Line : n \in Nat /\ ~(n < 1)
    BY MaxLineAssumption, SMT DEF Line
  <2>. QED
    BY <1>2, <2>1 DEF JobFlow, ForkedUpTo, Fresh
<1>6. DirFlow /\ SomeBoard /\ IdsNoted /\ IdsPrinted /\ BarrierCount
  BY DEF Init, DirFlow, SomeBoard, IdsNoted, IdsPrinted, BarrierCount, Waiting
<1>7. NothingMissing
  BY <1>2 DEF NothingMissing
<1>8. FileContents /\ ShownContents
  BY DEF Init, FileContents, ShownContents, AnswerOf
<1>9. OwnResults
  BY <1>2 DEF OwnResults, Fresh
<1>10. Quiet
  BY <1>2 DEF Quiet, Fresh
<1>11. OwnFiles /\ OwnIds /\ BarrierHolds /\ AllAnswered
  BY DEF Init, OwnFiles, OwnIds, BarrierHolds, AllAnswered, PastBarrier
<1>. QED
  BY <1>1, <1>3, <1>4, <1>5, <1>6, <1>7, <1>8, <1>9, <1>10, <1>11 DEF IInv

(* ... and each step preserves them.                                       *)
LEMMA StepIInv == IInv /\ [Next]_vars => IInv'
<1> SUFFICES ASSUME IInv, [Next]_vars PROVE IInv'
  OBVIOUS
<1>1. TypeOK /\ SessionFlow /\ LoopFlow /\ JobFlow /\ DirFlow
  BY DEF IInv
<1>2. TypeOK' /\ SessionFlow' /\ LoopFlow' /\ JobFlow' /\ DirFlow'
  BY <1>1, TypeStep, SessionStep, LoopStep, JobsStep, DirStep
<1>3. SomeBoard' /\ IdsNoted' /\ IdsPrinted' /\ NothingMissing'
  BY SomeBoardStep, IdsNotedStep, IdsPrintedStep, NothingMissingStep
<1>4. FileContents' /\ ShownContents' /\ Quiet'
  BY FileContentsStep, ShownContentsStep, QuietStep
<1>5. OwnFiles' /\ OwnIds' /\ BarrierCount' /\ BarrierHolds' /\ AllAnswered'
  BY OwnFilesStep, OwnIdsStep, BarrierCountStep, BarrierHoldsStep,
     AllAnsweredStep
<1>6. OwnResults'
  BY OwnResultsStep
<1>. QED
  BY <1>2, <1>3, <1>4, <1>5, <1>6 DEF IInv

(* The parts of the invariant of module BenchExec hold in every state of   *)
(* the script, whatever the boards, the listings and the number of runs.   *)
THEOREM Invariance == Spec => []IInv
  BY InitIInv, StepIInv, PTL DEF Spec

(* The script's variables keep their types; in particular the loop of      *)
(* start_bench never runs past the lines adb printed.                      *)
THEOREM TypeCorrect == Spec => []TypeOK
<1>1. IInv => TypeOK
  BY DEF IInv
<1>. QED
  BY <1>1, Invariance, PTL

(* print_result leaves out no board that start_bench listed, also when the *)
(* loop of a killed session writes to the same id_list.                    *)
THEOREM PrintsEveryBoard == Spec => []NothingMissing
<1>1. IInv => NothingMissing
  BY DEF IInv
<1>. QED
  BY <1>1, Invariance, PTL

(* The two waits of wait_done and the rm -rf of bench are enough for every *)
(* result printed to be the session's own, if none before was cut short.   *)
THEOREM PrintsOwnResults == Spec => []OwnResults
<1>1. IInv => OwnResults
  BY DEF IInv
<1>. QED
  BY <1>1, Invariance, PTL

(* `[ $log_cnt -lt $id_cnt ]` counts files, and that is enough for a       *)
(* barrier: behind it every job has opened its file.                       *)
THEOREM CountingIsABarrier == Spec => []BarrierHolds
<1>1. IInv => BarrierHolds
  BY DEF IInv
<1>. QED
  BY <1>1, Invariance, PTL

(* Between the second wait and the next rm -rf no process is left that     *)
(* could write in ./log.                                                   *)
LEMMA SettledStep ==
  ASSUME IInv, [Next]_vars,
         pc \in {"sleep", "printing", "idle"}, Undisturbed(session + 1)
  PROVE  UNCHANGED <<id_list, present, lines>>
<1>0. /\ session \in Nat /\ \A r \in Session : r \in Nat
      /\ \A j \in Job : j[1] \in Session /\ j[2] \in Line /\ j = <<j[1], j[2]>>
  BY Shape DEF IInv
<1>1. \A r \in Session : r <= session => ~CutShort(r)
  BY <1>0, SMT DEF Undisturbed
<1>2. ASSUME NEW j \in Job PROVE job[j] \notin {"forked", "open", "unlinked"}
  <2>1. SUFFICES ASSUME job[j] \in {"forked", "open", "unlinked"} PROVE FALSE
    BY <1>2
  <2>2. CASE pc = "idle"
    <3>1. j[1] <= session
      BY <1>0, <2>1, SMT DEF IInv, SessionFlow, Fresh
    <3>2. Over(j[1]) /\ \A q \in Session : q <= j[1] => ~CutShort(q)
      BY <1>0, <1>1, <2>2, <3>1, SMT DEF Over
    <3>. QED
      BY <1>0, <2>1, <3>2 DEF IInv, Quiet, Ended
  <2>3. CASE pc # "idle"
    <3>1. Undisturbed(session)
      BY <1>0, <1>1, SMT DEF Undisturbed
    <3>2. j[1] = session /\ j[2] \in DOMAIN listing[session]
      BY <2>1, <2>3, <3>1, MyJobs
    <3>. QED
      BY <1>0, <2>1, <2>3, <3>1, <3>2, AllMeasured
  <2>. QED
    BY <2>2, <2>3
<1>3. ASSUME NEW s \in Session PROVE starter[s] # "note"
  <2>1. s <= session \/ Fresh(s)
    BY <1>0, SMT DEF IInv, SessionFlow
  <2>. QED
    BY <1>1, <2>1 DEF CutShort, Fresh, IInv, LoopFlow
<1>. QED
  BY <1>2, <1>3, Writers
     DEF RemoveWorkDir, NoteId, OpenResult, WriteResult

(* While nobody was cut short, nothing writes in ./log between the end of  *)
(* wait_done and the next rm -rf: `sleep 3` and print_result read settled  *)
(* files.                                                                  *)
THEOREM ResultsSettle == Spec => SettledResults
<1>1. IInv /\ [Next]_vars =>
        [(pc \in {"sleep", "printing", "idle"} /\ Undisturbed(session + 1))
          => UNCHANGED <<id_list, present, lines>>]_vars
  BY SettledStep
<1>. QED
  BY <1>1, Invariance, PTL DEF Spec, SettledResults
-----------------------------------------------------------------------------
(* Refinement: what the script prints is what module BenchReport promises. *)

(* A step of the script is a step of BenchReport, or changes nothing of    *)
(* what it speaks of.                                                      *)
LEMMA ReportStep ==
  ASSUME IInv, [Next]_vars
  PROVE  [Report!Next]_(Report!vars)
<1>0. /\ pc # "idle" => session \in Session
      /\ outcome \in [Session -> {"none", "noboard", "done", "stopped", "killed"}]
      /\ shown \in [Session -> [Board -> SUBSET Job]]
      /\ session \in Nat /\ session \in 0 .. MaxSession /\ Session = 1 .. MaxSession
      /\ \A r \in Session : r \in Nat
  BY Shape DEF IInv, TypeOK, Session
<1> USE DEF Report!Next, Report!vars, Report!Session
<1>1. CASE Begin
  <2>1. ended' = ended /\ report' = report
    BY <1>1 DEF Begin, printVars, ended, report, CutShort
  <2>2. ~Report!Running
    BY <1>0, <1>1 DEF Begin, Report!Running, ended, CutShort, IInv, SessionFlow
  <2>. QED
    BY <1>1, <2>1, <2>2 DEF Begin, Report!Begin
<1>2. ASSUME pc # "idle" PROVE Report!Running
  BY <1>0, <1>2 DEF Report!Running, ended, CutShort, IInv, SessionFlow
<1>3. ASSUME NEW how \in {"noboard", "stopped", "killed"}, pc # "idle",
             outcome' = [outcome EXCEPT ![session] = how],
             session' = session, shown' = shown
      PROVE  Report!Quit
  <2>1. \E e \in {"noboard", "cut"} : ended' = [ended EXCEPT ![session] = e]
    <3>1. CASE how = "noboard"
      BY <1>0, <1>3, <3>1 DEF ended, CutShort
    <3>2. CASE how # "noboard"
      BY <1>0, <1>3, <3>2 DEF ended, CutShort
    <3>. QED
      BY <3>1, <3>2
  <2>2. report' = report
    BY <1>0, <1>3 DEF report, IInv, SessionFlow
  <2>. QED
    BY <1>2, <1>3, <2>1, <2>2 DEF Report!Quit
<1>4. CASE PrintEnd
  <2> DEFINE answer == [b \in Board |-> {j[1] : j \in shown[session][b]}]
  <2>0. /\ session \in Session /\ session' = session /\ shown' = shown
        /\ outcome[session] = "none" /\ pc = "printing"
        /\ outcome' = [outcome EXCEPT ![session] = "done"]
    BY <1>0, <1>4 DEF PrintEnd, printVars, IInv, SessionFlow
  <2>1. ended' = [ended EXCEPT ![session] = "done"]
    BY <1>0, <2>0 DEF ended, CutShort
  <2>2. report' = [report EXCEPT ![session] = answer]
    BY <1>0, <2>0 DEF report
  <2>3. answer \in Report!Promised(session)
    <3>1. CASE Report!Undisturbed(session)
      <4>1. Undisturbed(session)
        BY <1>0, <2>0, <3>1 DEF Report!Undisturbed, Undisturbed, ended
      <4>2. printed[session] \in (SUBSET Board) \ {{}}
        <5>1. printed[session] \in SUBSET Board
          BY <2>0 DEF IInv, TypeOK
        <5>2. \A b \in Listed(session) : b \in printed[session]
          BY <1>4, SMT DEF PrintEnd, IInv, IdsPrinted, In
        <5>3. PICK b : b \in Listed(session)
          <6>1. Listed(session) # {}
            BY <2>0, Shape, SMT DEF IInv, SomeBoard, Waiting, Listed
          <6>. QED
            BY <6>1
        <5>4. printed[session] # {}
          BY <5>2, <5>3
        <5>. QED
          BY <5>1, <5>4, Zenon
      <4>3. \A b \in Board :
              answer[b] = IF b \in printed[session] THEN {session} ELSE {}
        <5>1. ASSUME NEW b \in Board, b \in printed[session]
              PROVE  answer[b] = {session}
          <6>1. PICK n \in DOMAIN listing[session] : shown[session][b] = {<<session, n>>}
            BY <2>0, <4>1, <5>1 DEF IInv, OwnResults
          <6>2. answer[b] = {j[1] : j \in {<<session, n>>}}
            BY <6>1
          <6>3. {j[1] : j \in {<<session, n>>}} = {session}
            <7>. \A j \in {<<session, n>>} : j[1] = session
              OBVIOUS
            <7>. <<session, n>> \in {<<session, n>>}
              OBVIOUS
            <7>. QED
              OBVIOUS
          <6>. QED
            BY <6>2, <6>3
        <5>2. ASSUME NEW b \in Board, b \notin printed[session]
              PROVE  answer[b] = {}
          BY <2>0, <5>2 DEF IInv, ShownContents
        <5>. QED
          BY <5>1, <5>2
      <4>4. answer = [b \in Board |-> IF b \in printed[session] THEN {session} ELSE {}]
        BY <4>3
      <4>. QED
        BY <3>1, <4>2, <4>4 DEF Report!Promised
    <3>2. CASE ~Report!Undisturbed(session)
      <4>1. ASSUME NEW b \in Board PROVE answer[b] \in SUBSET (1 .. session)
        <5>1. ASSUME NEW j \in shown[session][b] PROVE j[1] \in 1 .. session
          <6>1. j \in Job /\ j[1] <= session
            BY <2>0, <5>1 DEF IInv, ShownContents, AnswerOf
          <6>2. j[1] \in Session
            BY <6>1, Shape DEF IInv
          <6>. QED
            BY <1>0, <6>1, <6>2, SMT
        <5>. QED
          BY <5>1
      <4>. QED
        BY <3>2, <4>1 DEF Report!Promised
    <3>. QED
      BY <3>1, <3>2
  <2>. QED
    BY <1>2, <2>0, <2>1, <2>2, <2>3 DEF Report!Deliver
<1>5. CASE PrintResult
  <2>1. /\ UNCHANGED <<session, outcome>> /\ outcome[session] # "done"
        /\ \A r \in Session : r # session => shown'[r] = shown[r]
    BY <1>0, <1>5 DEF PrintResult, IInv, SessionFlow
  <2>. QED
    BY <2>1 DEF ended, report, CutShort
<1>6. CASE AdbDevices /\ outcome' # outcome
  BY <1>3, <1>6 DEF AdbDevices, printVars
<1>7. CASE Interrupt
  BY <1>3, <1>7 DEF Interrupt, printVars, Alive
<1>8. CASE Kill
  BY <1>3, <1>8 DEF Kill, printVars, Alive
<1>9. CASE UNCHANGED <<session, outcome, shown>>
  BY <1>9 DEF ended, report, CutShort
<1>. QED
  BY <1>1, <1>4, <1>5, <1>6, <1>7, <1>8, <1>9, Writers

(* Jobs, loops and result files implement BenchReport: a run that was not  *)
(* preceded by one cut short prints its own answers and nothing else.      *)
THEOREM ImplementsReport == Spec => Reports
<1>1. Init => Report!Init
  BY DEF Init, Report!Init, Report!NoAnswer, Report!Session, Session, ended,
         report, CutShort
<1>2. IInv /\ [Next]_vars => [Report!Next]_(Report!vars)
  BY ReportStep
<1>. QED
  BY <1>1, <1>2, Invariance, PTL DEF Spec, Reports, Report!Spec
-----------------------------------------------------------------------------
(* The two waits of wait_done.                                             *)

(* A job's file is there from the moment the job opens it to the next rm.  *)
LEMMA OpenedIsPresentStep ==
  ASSUME IInv, OpenedIsPresent, [Next]_vars
  PROVE  OpenedIsPresent'
<1> SUFFICES ASSUME (pc = "starting" \/ pc \in Waiting)',
                    NEW n \in (DOMAIN listing[session])',
                    job'[<<session', n>>] \in {"open", "unlinked", "measured"}
             PROVE  listing'[session'][n] \in present'
  BY DEF OpenedIsPresent
<1>0. /\ pc \notin {"idle", "rm"} /\ session' = session /\ session \in Session
      /\ job \in [Job -> JobState] /\ \A j \in Job : j = <<j[1], j[2]>>
  <2>1. pc' \notin {"idle", "rm"}
    BY DEF Waiting
  <2>2. pc # "rm"
    BY <2>1, Moves DEF RemoveWorkDir, Waiting
  <2>. QED
    BY <2>1, <2>2, NoLoopLeftStays, Shape DEF IInv, TypeOK
<1>1. ~AdbDevices
  <2>1. SUFFICES ASSUME AdbDevices PROVE FALSE
    OBVIOUS
  <2>2. \A k \in Line : job'[<<session, k>>] = "none"
    BY <1>0, <2>1 DEF AdbDevices, IInv, SessionFlow, Fresh, NotBegun
  <2>3. n \in Line
    <3>1. \E l \in Listing : listing'[session] = l
      BY <1>0, <2>1, ReportedAssumption DEF AdbDevices, IInv, TypeOK
    <3>. QED
      BY <1>0, <3>1, ListingSeq, MaxLineAssumption, SMT DEF Line
  <2>. QED
    BY <1>0, <2>2, <2>3
<1>2. listing' = listing /\ n \in DOMAIN listing[session]
  BY <1>0, <1>1, Writers
<1>3. <<session, n>> \in Job
  BY <1>0, <1>2, Shape DEF IInv
<1>4. ASSUME job[<<session, n>>] \in {"open", "unlinked", "measured"}
      PROVE  listing[session][n] \in present'
  <2>1. listing[session][n] \in present
    BY <1>1, <1>2, <1>4, Moves DEF OpenedIsPresent
  <2>2. ~RemoveWorkDir
    BY <1>0 DEF RemoveWorkDir
  <2>. QED
    BY <2>1, <2>2, Writers DEF OpenResult
<1>5. ASSUME NEW j \in Job, JobStep(j)
      PROVE  listing[session][n] \in present'
  <2>1. CASE j = <<session, n>> /\ OpenResult(j)
    BY <2>1 DEF OpenResult, Serial
  <2>2. CASE j # <<session, n>> \/ ~OpenResult(j)
    BY <1>0, <1>3, <1>4, <1>5, <2>2
       DEF JobStep, OpenResult, CannotOpenResult, WriteResult, NoResult
  <2>. QED
    BY <2>1, <2>2
<1>6. ASSUME NEW s \in Session, ForkJob(s)
      PROVE  listing[session][n] \in present'
  BY <1>0, <1>3, <1>4, <1>6 DEF ForkJob
<1>7. ASSUME job' = job
      PROVE  listing[session][n] \in present'
  <2>1. job[<<session, n>>] \in {"open", "unlinked", "measured"}
    BY <1>0, <1>7
  <2>. QED
    BY <2>1, <1>4
<1>. QED
  BY <1>0, <1>2, <1>5, <1>6, <1>7, Writers DEF RemoveWorkDir

(* A file is empty only while a job has it open, or when that job failed.  *)
LEMMA EmptyIsOpenStep ==
  ASSUME IInv, EmptyIsOpen, [Next]_vars
  PROVE  EmptyIsOpen'
<1> SUFFICES ASSUME NEW b \in present', lines'[b] = {}
             PROVE  \E j \in Job : job'[j] \in {"open", "failed"} /\ Serial(j)' = b
  BY DEF EmptyIsOpen
<1>0. /\ job \in [Job -> JobState] /\ lines \in [Board -> SUBSET Job]
      /\ \A j \in Job : j[1] \in Session /\ j[2] \in Line /\ j = <<j[1], j[2]>>
      /\ present \subseteq Board
  BY Shape DEF IInv, TypeOK
<1>1. ~RemoveWorkDir
  BY DEF RemoveWorkDir
<1>2. \A j \in Job : job[j] # "none" => Serial(j)' = Serial(j)
  <2>1. SUFFICES ASSUME NEW j \in Job, job[j] # "none" PROVE listing'[j[1]] = listing[j[1]]
    BY DEF Serial
  <2>2. ~(j[1] = session /\ pc = "devices")
    BY <1>0, <2>1 DEF IInv, SessionFlow, Fresh, NotBegun
  <2>. QED
    BY <1>0, <2>2, Steady DEF AdbDevices
<1>3. ASSUME NEW j \in Job, OpenResult(j)
      PROVE  \E k \in Job : job'[k] \in {"open", "failed"} /\ Serial(k)' = b
  <2>1. CASE Serial(j) = b
    BY <1>0, <1>2, <1>3, <2>1 DEF OpenResult
  <2>2. CASE Serial(j) # b
    <3>1. b \in present /\ lines[b] = {}
      BY <1>0, <1>3, <2>2 DEF OpenResult
    <3>2. PICK k \in Job : job[k] \in {"open", "failed"} /\ Serial(k) = b
      BY <3>1 DEF EmptyIsOpen
    <3>3. job'[k] = job[k]
      BY <1>0, <1>3, <2>2, <3>2 DEF OpenResult
    <3>. QED
      BY <1>2, <3>2, <3>3
  <2>. QED
    BY <2>1, <2>2
<1>4. ASSUME NEW j \in Job, WriteResult(j)
      PROVE  \E k \in Job : job'[k] \in {"open", "failed"} /\ Serial(k)' = b
  <2>1. b \in present /\ lines[b] = {} /\ (job[j] = "open" => Serial(j) # b)
    BY <1>0, <1>4 DEF WriteResult
  <2>2. PICK k \in Job : job[k] \in {"open", "failed"} /\ Serial(k) = b
    BY <2>1 DEF EmptyIsOpen
  <2>3. k # j
    BY <1>4, <2>1, <2>2 DEF WriteResult
  <2>4. job'[k] = job[k]
    BY <1>0, <1>4, <2>3 DEF WriteResult
  <2>. QED
    BY <1>2, <2>2, <2>4
<1>5. CASE UNCHANGED <<present, lines>>
  <2>1. PICK k \in Job : job[k] \in {"open", "failed"} /\ Serial(k) = b
    BY <1>5 DEF EmptyIsOpen
  <2>2. job'[k] \in {"open", "failed"}
    <3>1. ASSUME NEW j \in Job, JobStep(j), ~OpenResult(j), ~WriteResult(j)
          PROVE  job'[k] \in {"open", "failed"}
      BY <1>0, <2>1, <3>1 DEF JobStep, CannotOpenResult, NoResult
    <3>2. ASSUME NEW j \in Job, OpenResult(j) \/ WriteResult(j)
          PROVE  job'[k] \in {"open", "failed"}
      <4>1. CASE OpenResult(j)
        BY <1>0, <2>1, <4>1 DEF OpenResult
      <4>2. CASE WriteResult(j)
        <5>1. k # j
          BY <1>0, <1>5, <2>1, <4>2 DEF WriteResult
        <5>. QED
          BY <1>0, <2>1, <4>2, <5>1 DEF WriteResult
      <4>. QED
        BY <3>2, <4>1, <4>2
    <3>3. ASSUME NEW s \in Session, ForkJob(s)
          PROVE  job'[k] \in {"open", "failed"}
      <4>1. k # <<s, line[s]>>
        BY <1>0, <2>1, <3>3 DEF ForkJob, IInv, JobFlow, ForkedUpTo
      <4>. QED
        BY <1>0, <2>1, <3>3, <4>1 DEF ForkJob
    <3>4. CASE UNCHANGED job
      BY <2>1, <3>4
    <3>. QED
      BY <1>1, <3>1, <3>2, <3>3, <3>4, Writers
  <2>. QED
    BY <1>2, <2>1, <2>2
<1>. QED
  BY <1>1, <1>3, <1>4, <1>5, Writers DEF OpenResult, WriteResult

(* The second wait reads the id_list of a session whose loop alone wrote.  *)
LEMMA PollsOwnStep ==
  ASSUME IInv, PollsOwn, [Next]_vars
  PROVE  PollsOwn'
<1> SUFFICES ASSUME pc' = "polling", NoLoopLeft'
             PROVE  \A i \in 1 .. Len(todo') : todo'[i] \in Listed(session)'
  BY DEF PollsOwn
<1>0. /\ session' = session /\ NoLoopLeft /\ todo \in Seq(Board)
  BY NoLoopLeftStays DEF IInv, TypeOK
<1>1. Listed(session)' = Listed(session) /\ (pc = "polling" \/ GatherIds)
  BY <1>0, Writers, Moves DEF AdbDevices, GatherIds, Listed
<1>2. CASE GatherIds
  BY <1>0, <1>1, <1>2 DEF GatherIds, IInv, OwnIds
<1>3. CASE PollResult
  <2>1. pc = "polling" /\ todo # << >> /\ todo' = Tail(todo)
    BY <1>3 DEF PollResult
  <2>. QED
    BY <1>0, <1>1, <2>1, InTail DEF PollsOwn
<1>4. CASE UNCHANGED todo /\ pc = "polling"
  BY <1>0, <1>1, <1>4 DEF PollsOwn
<1>. QED
  BY <1>1, <1>2, <1>3, <1>4, Writers DEF StartPrinting, PrintResult

(* With every line's file there, and no two boards of one serial, there    *)
(* are as many files as lines.                                             *)
LEMMA EnoughFiles ==
  ASSUME IInv, pc = "compare", NoLoopLeft, ~Twins(session),
         \A n \in DOMAIN listing[session] : listing[session][n] \in present
  PROVE  ~TooFew(Cardinality(present))
<1> DEFINE L == DOMAIN listing[session]
           g == [n \in L |-> listing[session][n]]
<1>0. /\ session \in Session /\ L = 1 .. Len(listing[session])
      /\ Len(listing[session]) \in Nat /\ id_cnt = Len(listing[session])
      /\ present \subseteq Board
  BY Shape DEF IInv, TypeOK, BarrierCount
<1>1. IsFiniteSet(L) /\ Cardinality(L) = Len(listing[session])
  BY <1>0, FS_Interval, SMT
<1>2. IsFiniteSet(present)
  BY <1>0, BoardAssumption, FS_Subset
<1>3. g \in Injection(L, present)
  <2>1. g \in [L -> present]
    OBVIOUS
  <2>2. \A m, n \in L : g[m] = g[n] => m = n
    BY DEF Twins
  <2>. QED
    BY <2>1, <2>2 DEF Injection, IsInjective
<1>4. /\ Cardinality(L) <= Cardinality(present)
      /\ Cardinality(L) \in Nat /\ Cardinality(present) \in Nat
  BY <1>1, <1>2, <1>3, FS_Injection, FS_CardinalityType
<1>. QED
  BY <1>0, <1>1, <1>4, SMT DEF TooFew

(* All measured: each board's file is there, and has its line.             *)
LEMMA NobodyToWaitFor ==
  ASSUME IInv, WaitInv, pc \in Waiting, NobodyAtWork, NEW n \in DOMAIN listing[session]
  PROVE  listing[session][n] \in present /\ lines[listing[session][n]] # {}
<1>0. /\ session \in Session /\ n \in Line /\ <<session, n>> \in Job
      /\ n \in Nat /\ DOMAIN listing[session] = 1 .. Len(listing[session])
      /\ Len(listing[session]) \in Nat
  BY Shape DEF IInv, Waiting
<1>1. n < line[session] /\ n <= Len(listing[session])
  BY <1>0, SMT DEF IInv, LoopFlow
<1>2. job[<<session, n>>] = "measured"
  BY <1>0, <1>1 DEF IInv, JobFlow, ForkedUpTo, NobodyAtWork
<1>3. listing[session][n] \in present
  BY <1>2 DEF WaitInv, OpenedIsPresent
<1>4. lines[listing[session][n]] # {}
  BY <1>3 DEF WaitInv, EmptyIsOpen, NobodyAtWork
<1>. QED
  BY <1>3, <1>4

(* No wait of wait_done outlasts the loop and the jobs it waits for, if    *)
(* none fails: not when an earlier session was stopped whose jobs leave    *)
(* files and lines of their own, and not for any number of boards.         *)
THEOREM WaitsEnd == Spec => []WaitsAreOver
<1>1. Init => WaitInv
  BY DEF Init, WaitInv, OpenedIsPresent, EmptyIsOpen, PollsOwn, Waiting
<1>2. IInv /\ WaitInv /\ [Next]_vars => WaitInv'
  BY OpenedIsPresentStep, EmptyIsOpenStep, PollsOwnStep DEF WaitInv
<1>3. IInv /\ WaitInv => WaitsAreOver
  <2> SUFFICES ASSUME IInv, WaitInv, pc # "idle", NobodyAtWork, NoLoopLeft, ~Twins(session)
               PROVE  /\ pc = "starting" => starter[session] \in {"read", "note"}
                      /\ pc = "compare" => ~TooFew(Cardinality(present))
                      /\ pc = "polling" /\ todo # << >> => Answered(Head(todo))
    BY DEF WaitsAreOver
  <2>1. pc = "starting" => starter[session] \in {"read", "note"}
    BY DEF IInv, LoopFlow
  <2>2. pc = "compare" => ~TooFew(Cardinality(present))
    BY NobodyToWaitFor, EnoughFiles DEF Waiting
  <2>3. ASSUME pc = "polling", todo # << >> PROVE Answered(Head(todo))
    <3>1. Head(todo) = todo[1] /\ 1 \in 1 .. Len(todo)
      BY <2>3, SMT DEF IInv, TypeOK
    <3>2. PICK n \in DOMAIN listing[session] : Head(todo) = listing[session][n]
      BY <2>3, <3>1 DEF WaitInv, PollsOwn, Listed
    <3>. QED
      BY <2>3, <3>2, NobodyToWaitFor DEF Answered, Waiting
  <2>. QED
    BY <2>1, <2>2, <2>3
<1>. QED
  BY <1>1, <1>2, <1>3, Invariance, PTL DEF Spec
=============================================================================

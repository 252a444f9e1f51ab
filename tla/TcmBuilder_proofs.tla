-------------------------- MODULE TcmBuilder_proofs --------------------------
(***************************************************************************)
(* Proofs about module TcmBuilder, for any runs, names, headers and tables *)
(* of functions: a module's files come from one run, an entry leads to a   *)
(* module that compiles and is added once, and what is complete stays.     *)
(***************************************************************************)
EXTENDS TcmBuilder, FiniteSetTheorems, TLAPS

----------------------------------------------------------------------------
(* The commands of a run in their order, and those that open and write a   *)
(* file: how far the files of a run are follows from where it is.          *)
Pos(p) ==
  CASE p = "base" -> 0 [] p = "base write" -> 1 [] p = "header" -> 2 [] p = "scan" -> 3
    [] p = "fabric.c" -> 4 [] p = "fabric.h" -> 5
    [] p = "fabric.c write" -> 6 [] p = "fabric.h write" -> 7
    [] p = "configfs" -> 8 [] p = "configfs write" -> 9
    [] p = "Makefile" -> 10 [] p = "Makefile write" -> 11
    [] p = "Kconfig" -> 12 [] p = "Kconfig write" -> 13
    [] p = "ask kbuild" -> 14 [] p = "ask kconfig" -> 15 [] OTHER -> 16

OpenPos(f) ==
  CASE f = "base.h" -> 0 [] f = "fabric.c" -> 4 [] f = "fabric.h" -> 5
    [] f = "configfs.c" -> 8 [] f = "Makefile" -> 10 [] OTHER -> 12

WritePos(f) ==
  CASE f = "base.h" -> 1 [] f = "fabric.c" -> 6 [] f = "fabric.h" -> 7
    [] f = "configfs.c" -> 9 [] f = "Makefile" -> 11 [] OTHER -> 13

FileAt(r, p, f) ==
  IF Pos(p) <= OpenPos(f) THEN Missing
  ELSE IF Pos(p) <= WritePos(f) THEN <<r, "empty">> ELSE <<r, "whole">>

Working == Control \ {"start", "mkdir", "done", "exit"}

(* Runs that have made their directory and not failed, or that have added  *)
(* an entry.                                                               *)
Live(r) == pc[r] \in Working \cup {"done"} \/ r \in kbuild \cup kconfig

NoDir == \A n \in Name : owner[n] = NoRun => file[n] = NoFiles

Owned == \A r \in Run : Live(r) => owner[name[r]] = r \/ r \in removed

Pulled == \A r \in Run : pc[r] \in Working /\ r \in removed => name[r] \in pulled

Staged ==
  \A r \in Run : Live(r) /\ r \notin removed /\ name[r] \notin pulled =>
    \A f \in FileName : file[name[r]][f] = FileAt(r, pc[r], f)

Asked ==
  /\ \A r \in kbuild : pc[r] \in {"ask kconfig", "done", "exit"}
  /\ \A r \in kconfig : pc[r] = "done"

(* A run that has not made a directory owns none.                          *)
Made ==
  \A r \in Run : pc[r] \in {"start", "mkdir"} =>
    r \notin removed /\ \A n \in Name : owner[n] # r

Named == \A n \in Name : IsDir(n) => name[owner[n]] = n

TcmInv ==
  /\ TcmTypeOK /\ NoDir /\ Named /\ FilesOfOneRun /\ Made /\ Owned /\ Pulled /\ Staged /\ Asked

LEMMA Positions ==
  /\ \A p \in Control : Pos(p) \in 0 .. 16
  /\ \A f \in FileName : OpenPos(f) \in Nat /\ WritePos(f) \in Nat /\ OpenPos(f) < WritePos(f)
BY DEF Control, FileName, Pos, OpenPos, WritePos

Line == [struct : BOOLEAN, pointer : BOOLEAN, matches : SUBSET Fn]
LEMMA Options ==
  TcmTypeOK => name \in [Run -> Name] /\ proto \in [Run -> Proto] /\ header \in Seq(Line)
<1> SUFFICES ASSUME TcmTypeOK
             PROVE  name \in [Run -> Name] /\ proto \in [Run -> Proto] /\ header \in Seq(Line)
  OBVIOUS
<1>1. [header |-> header, name |-> name, proto |-> proto]
        \in [header : Seq(Line), name : [Run -> Name], proto : [Run -> Proto]]
  BY TcmAssumption DEF TcmTypeOK, Line
<1>. QED
  BY <1>1

LEMMA PairIsNotMissing == \A a, b : <<a, b>> # Missing
BY DEF Missing

LEMMA FileAtType ==
  ASSUME NEW r \in Run, NEW p \in Control, NEW f \in FileName
  PROVE  FileAt(r, p, f) # Missing => FileAt(r, p, f)[1] = r
BY DEF FileAt

LEMMA Behind ==
  ASSUME NEW a \in {14, 15, 16}, NEW b \in {0, 4, 5, 8, 10, 12}, NEW c \in {1, 6, 7, 9, 11, 13}
  PROVE  ~(a <= b) /\ ~(a <= c)
OBVIOUS

(* At the questions, and behind them, all files are whole.                 *)
LEMMA WholeAtEnd ==
  ASSUME NEW r, NEW p \in {"ask kbuild", "ask kconfig", "done", "exit"}, NEW f \in FileName
  PROVE  FileAt(r, p, f) = <<r, "whole">>
<1>1. Pos(p) \in {14, 15, 16}
  <2>1. Pos("ask kbuild") = 14 /\ Pos("ask kconfig") = 15
    BY DEF Pos
  <2>2. Pos("done") = 16 /\ Pos("exit") = 16
    BY DEF Pos
  <2>. QED
    BY <2>1, <2>2
<1>2. OpenPos(f) \in {0, 4, 5, 8, 10, 12}
  BY DEF FileName, OpenPos
<1>3. WritePos(f) \in {1, 6, 7, 9, 11, 13}
  BY DEF FileName, WritePos
<1>4. ~(Pos(p) <= OpenPos(f)) /\ ~(Pos(p) <= WritePos(f))
  BY ONLY <1>1, <1>2, <1>3, Behind
<1>. QED
  BY <1>4 DEF FileAt

LEMMA InitInv == Init => TcmInv
<1> SUFFICES ASSUME Init PROVE TcmInv
  OBVIOUS
<1> USE DEF Init
<1>1. TcmTypeOK
  <2>1. PICK s \in Setting : header = s.header /\ name = s.name /\ proto = s.proto
    OBVIOUS
  <2>2. [header |-> header, name |-> name, proto |-> proto] \in Setting
    BY <2>1, TcmAssumption
  <2>. QED
    BY <2>2 DEF TcmTypeOK, NoFiles, Control, FileName
<1>2. NoDir /\ Named /\ FilesOfOneRun /\ Made
  BY TcmAssumption DEF NoDir, Named, IsDir, FilesOfOneRun, NoFiles, Made
<1>3. Owned /\ Pulled /\ Staged /\ Asked
  BY DEF Owned, Pulled, Staged, Asked, Live, Working
<1>. QED
  BY <1>1, <1>2, <1>3 DEF TcmInv

----------------------------------------------------------------------------
(* Steps of r before it has made its directory, to its end, or from one    *)
(* command to the next without a file.                                     *)
LEMMA PcStep ==
  ASSUME TcmInv, NEW r \in Run, NEW to \in Control,
         pc' = [pc EXCEPT ![r] = to],
         \/ to = "exit" /\ pc[r] \notin {"done", "exit"}
         \/ to = "mkdir" /\ pc[r] = "start"
         \/ pc[r] \in Working \ {"ask kbuild", "ask kconfig"} /\ to \in Working
              /\ \A f \in FileName : FileAt(r, to, f) = FileAt(r, pc[r], f),
         i' \in [Run -> 0 .. Len(header) + 1], process_fo' \in [Run -> BOOLEAN],
         fabric_ops' \in [Run -> Seq([struct : BOOLEAN, pointer : BOOLEAN, matches : SUBSET Fn])],
         UNCHANGED <<header, name, proto, treeVars, history>>
  PROVE  TcmInv'
<1> USE DEF TcmInv, treeVars, history
<1>1. TcmTypeOK'
  BY DEF TcmTypeOK
<1>2. (NoDir /\ Named /\ FilesOfOneRun /\ Made)'
  BY DEF NoDir, Named, IsDir, FilesOfOneRun, Made, Working, TcmTypeOK
<1>3. \A s \in Run : Live(s)' => Live(s)
  BY DEF Live, Working, TcmTypeOK
<1>4. Owned'
  BY <1>3 DEF Owned
<1>5. Pulled'
  BY DEF Pulled, Working, TcmTypeOK
<1>6. Staged'
  <2> SUFFICES ASSUME NEW s \in Run, Live(s)', s \notin removed, name[s] \notin pulled,
                      NEW f \in FileName
               PROVE  file[name[s]][f] = FileAt(s, pc'[s], f)
    BY DEF Staged
  <2>1. file[name[s]][f] = FileAt(s, pc[s], f)
    BY <1>3 DEF Staged
  <2>2. s # r => pc'[s] = pc[s]
    BY DEF TcmTypeOK
  <2>3. ASSUME s = r PROVE FileAt(s, pc'[s], f) = FileAt(s, pc[s], f)
    <3>1. pc'[s] = to
      BY <2>3 DEF TcmTypeOK
    <3>2. CASE to = "exit"
      <4>1. pc[r] = "ask kconfig"
        BY <2>3, <3>1, <3>2 DEF Live, Working, Asked
      <4>. QED
        BY <2>3, <3>1, <3>2, <4>1, WholeAtEnd
    <3>3. CASE to = "mkdir"
      BY <2>3, <3>1, <3>3 DEF Live, Working, Asked
    <3>. QED
      BY <2>3, <3>1, <3>2, <3>3 DEF TcmTypeOK
  <2>. QED
    BY <2>1, <2>2, <2>3
<1>7. Asked'
  <2>1. \A s \in Run : pc'[s] = IF s = r THEN to ELSE pc[s]
    BY DEF TcmTypeOK
  <2>2. r \notin kconfig /\ (r \in kbuild => pc[r] = "ask kconfig")
    BY DEF Asked, TcmTypeOK, Working
  <2>3. r \in kbuild => to = "exit"
    BY <2>2
  <2>. QED
    BY <2>1, <2>2, <2>3 DEF Asked, TcmTypeOK
<1>. QED
  BY <1>1, <1>2, <1>4, <1>5, <1>6, <1>7

----------------------------------------------------------------------------
(* A run makes its directory: nobody else's is there, and no file.         *)
LEMMA CreateStep ==
  ASSUME TcmInv, NEW r \in Run, CreateSubdir(r)
  PROVE  TcmInv'
<1> USE DEF TcmInv, CreateSubdir, Goto, scanVars, history
<1> USE Options
<1>1. CASE IsDir(name[r])
  BY <1>1, PcStep DEF treeVars, Control, TcmTypeOK
<1>2. CASE ~IsDir(name[r])
  <2>. DEFINE n == name[r]
  <2>1. n \in Name /\ owner[n] = NoRun /\ file[n] = NoFiles
    BY <1>2 DEF TcmTypeOK, IsDir, NoDir, CreateSubdir
  <2>2. owner' = [owner EXCEPT ![n] = r] /\ pc' = [pc EXCEPT ![r] = "base"]
    BY <1>2
  <2>3. TcmTypeOK'
    BY <2>1, <2>2 DEF TcmTypeOK, Control
  <2>4. NoDir' /\ Named'
    BY <2>1, <2>2, TcmAssumption DEF NoDir, Named, IsDir, TcmTypeOK
  <2>5. FilesOfOneRun'
    BY <2>1, <2>2 DEF FilesOfOneRun, NoFiles, TcmTypeOK
  <2>6. \A s \in Run : s # r => (Live(s)' <=> Live(s)) /\ pc'[s] = pc[s]
    BY <2>2 DEF Live, TcmTypeOK
  <2>7. ~Live(r) /\ pc'[r] = "base"
    BY <2>2 DEF Live, TcmTypeOK, Working, Asked
  <2>8. \A s \in Run : Live(s) => owner[name[s]] = s \/ s \in removed
    BY DEF Owned
  <2>9. Owned'
    <3> SUFFICES ASSUME NEW s \in Run, Live(s)'
                 PROVE  owner'[name[s]] = s \/ s \in removed
      BY DEF Owned
    <3>1. owner \in [Name -> Run \cup {NoRun}] /\ name[s] \in Name
      BY Options DEF TcmTypeOK
    <3>2. CASE s = r
      BY <2>1, <2>2, <3>1, <3>2
    <3>3. CASE s # r
      BY <2>1, <2>2, <2>6, <2>8, <3>1, <3>3, TcmAssumption
    <3>. QED
      BY <3>2, <3>3
  <2>10. r \notin removed
    BY DEF Made
  <2>11. (Pulled /\ Asked /\ Made)'
    BY <2>1, <2>2, <2>6, <2>7, <2>10 DEF Pulled, Asked, Made, TcmTypeOK
  <2>12. \A f \in FileName : FileAt(r, "base", f) = Missing
    BY DEF FileAt, Pos, OpenPos, FileName
  <2>13. Staged'
    <3> SUFFICES ASSUME NEW s \in Run, Live(s)', s \notin removed, name[s] \notin pulled,
                        NEW f \in FileName
                 PROVE  file[name[s]][f] = FileAt(s, pc'[s], f)
      BY DEF Staged
    <3>1. CASE s = r
      BY <2>1, <2>7, <2>12, <3>1 DEF NoFiles
    <3>2. CASE s # r
      BY <2>6, <3>2 DEF Staged
    <3>. QED
      BY <3>1, <3>2
  <2>. QED
    BY <2>3, <2>4, <2>5, <2>9, <2>11, <2>13
<1>. QED
  BY <1>1, <1>2

(* A run opens or writes a file, and goes on or fails.                     *)
LEMMA FileStep ==
  ASSUME TcmInv, NEW r \in Run, NEW f \in FileName, NEW to \in Working \cup {"exit"},
         NEW v \in (Run \X Amount) \cup {Missing},
         pc[r] \in Working \ {"ask kbuild", "ask kconfig"},
         pc' = [pc EXCEPT ![r] = to],
         file' = [file EXCEPT ![name[r]][f] = v],
         IsDir(name[r]) \/ v = Missing,
         v # Missing /\ name[r] \notin pulled => v[1] = r,
         to # "exit" /\ r \notin removed /\ name[r] \notin pulled =>
           /\ v = FileAt(r, to, f)
           /\ \A g \in FileName \ {f} : FileAt(r, to, g) = FileAt(r, pc[r], g),
         UNCHANGED <<header, name, proto, scanVars, owner, kbuild, kconfig, history>>
  PROVE  TcmInv'
<1> USE DEF TcmInv, scanVars, history
<1> DEFINE n == name[r]
<1>1. n \in Name
  BY Options
<1>2. TcmTypeOK'
  <2>1. file' \in [Name -> [FileName -> (Run \X Amount) \cup {Missing}]]
    <3>1. [file[n] EXCEPT ![f] = v] \in [FileName -> (Run \X Amount) \cup {Missing}]
      BY <1>1 DEF TcmTypeOK
    <3>2. file' = [file EXCEPT ![n] = [file[n] EXCEPT ![f] = v]]
      OBVIOUS
    <3>. QED
      BY <1>1, <3>1, <3>2 DEF TcmTypeOK
  <2>2. to \in Control
    BY DEF Working, Control
  <2>. QED
    BY <2>1, <2>2 DEF TcmTypeOK
<1>3. \A m \in Name, g \in FileName :
        file'[m][g] = IF m = n /\ g = f THEN v ELSE file[m][g]
  BY <1>1 DEF TcmTypeOK
<1>4. NoDir'
  <2> SUFFICES ASSUME NEW m \in Name, owner[m] = NoRun PROVE file'[m] = NoFiles
    BY DEF NoDir
  <2>1. file[m] = NoFiles
    BY DEF NoDir
  <2>2. m = n => v = Missing
    BY DEF IsDir
  <2>3. \A g \in FileName : file'[m][g] = Missing
    <3> SUFFICES ASSUME NEW g \in FileName PROVE file'[m][g] = Missing
      OBVIOUS
    <3>1. file[m][g] = Missing
      BY <2>1 DEF NoFiles
    <3>2. file'[m][g] = IF m = n /\ g = f THEN v ELSE file[m][g]
      BY <1>3
    <3>. QED
      BY <2>2, <3>1, <3>2, Zenon
  <2>4. file'[m] \in [FileName -> (Run \X Amount) \cup {Missing}]
    BY <1>2 DEF TcmTypeOK
  <2>. QED
    BY <2>3, <2>4 DEF NoFiles
<1>5. Named' /\ Made'
  BY DEF Named, IsDir, Made, Working, TcmTypeOK
<1>6. n \notin pulled => owner[n] = r /\ r \notin removed
  BY DEF Owned, Pulled, Live
<1>7. FilesOfOneRun'
  <2> SUFFICES ASSUME NEW m \in Name \ pulled, NEW g \in FileName, file'[m][g] # Missing
               PROVE  file'[m][g][1] = owner[m]
    BY ZenonT(60) DEF FilesOfOneRun
  <2>1. CASE m = n /\ g = f
    BY <1>3, <1>6, <2>1
  <2>2. CASE ~(m = n /\ g = f)
    <3>1. file'[m][g] = file[m][g]
      BY <1>3, <2>2
    <3>. QED
      BY <3>1 DEF FilesOfOneRun
  <2>. QED
    BY <2>1, <2>2
<1>8. \A s \in Run : s # r => pc'[s] = pc[s] /\ (Live(s)' <=> Live(s))
  BY DEF TcmTypeOK, Live
<1>9. r \notin kbuild \cup kconfig /\ pc'[r] = to /\ Live(r)
  BY DEF Asked, TcmTypeOK, Live, Working
<1>10. Owned'
  BY <1>8, <1>9 DEF Owned
<1>11. Pulled' /\ Asked'
  BY <1>8, <1>9 DEF Pulled, Asked, TcmTypeOK, Working
<1>12. Staged'
  <2> SUFFICES ASSUME NEW s \in Run, Live(s)', s \notin removed, name[s] \notin pulled,
                      NEW g \in FileName
               PROVE  file'[name[s]][g] = FileAt(s, pc'[s], g)
    BY DEF Staged
  <2>0. name[s] \in Name
    BY Options
  <2>1. CASE s = r
    <3>1. to # "exit"
      BY <1>9, <2>1 DEF Live, Working
    <3>2. file[n][g] = FileAt(r, pc[r], g)
      BY <1>9, <2>1 DEF Staged
    <3>. QED
      BY <1>1, <1>3, <1>9, <2>1, <3>1, <3>2
  <2>2. CASE s # r
    <3>1. owner[name[s]] = s
      BY <1>8, <2>2 DEF Owned
    <3>2. name[s] # n
      BY <1>6, <2>2, <3>1
    <3>. QED
      <4>1. file'[name[s]][g] = file[name[s]][g]
        BY <1>3, <2>0, <3>2
      <4>2. Live(s) /\ pc'[s] = pc[s]
        BY <1>8, <2>2
      <4>. QED
        BY <4>1, <4>2 DEF Staged
  <2>. QED
    BY <2>1, <2>2
<1>. QED
  BY <1>2, <1>4, <1>5, <1>7, <1>10, <1>11, <1>12

LEMMA OpenStep ==
  ASSUME TcmInv, NEW r \in Run, NEW f \in FileName,
         NEW from \in Working \ {"ask kbuild", "ask kconfig"}, NEW to \in Working,
         Open(r, f, from, to),
         FileAt(r, to, f) = <<r, "empty">>,
         \A g \in FileName \ {f} : FileAt(r, to, g) = FileAt(r, from, g)
  PROVE  TcmInv'
<1> USE DEF Open, Goto
<1>1. CASE IsDir(name[r])
  <2>1. <<r, "empty">> \in (Run \X Amount) \cup {Missing} /\ <<r, "empty">>[1] = r
    BY DEF Amount
  <2>. QED
    BY <1>1, <2>1, FileStep
<1>2. CASE ~IsDir(name[r])
  BY <1>2, PcStep DEF Control, Working, TcmInv, TcmTypeOK, treeVars, scanVars, history
<1>. QED
  BY <1>1, <1>2

LEMMA WriteStep ==
  ASSUME TcmInv, NEW r \in Run, NEW f \in FileName,
         NEW from \in Working \ {"ask kbuild", "ask kconfig"}, NEW to \in Working,
         Write(r, f, from, to),
         FileAt(r, from, f) = <<r, "empty">>, FileAt(r, to, f) = <<r, "whole">>,
         \A g \in FileName \ {f} : FileAt(r, to, g) = FileAt(r, from, g)
  PROVE  TcmInv'
<1> USE DEF Write, Goto
<1> DEFINE n == name[r]  old == file[n][f]
<1>1. n \in Name /\ file \in [Name -> [FileName -> (Run \X Amount) \cup {Missing}]]
  BY Options DEF TcmInv, TcmTypeOK
<1>2. old \in (Run \X Amount) \cup {Missing}
  BY <1>1
<1>3. old # Missing => IsDir(n)
  <2>1. owner[n] = NoRun => file[n] = NoFiles
    BY <1>1 DEF TcmInv, NoDir
  <2>2. file[n] = NoFiles => old = Missing
    BY DEF NoFiles
  <2>. QED
    BY <2>1, <2>2 DEF IsDir
<1>4. n \notin pulled => owner[n] = r /\ r \notin removed
  BY DEF TcmInv, Owned, Pulled, Live
<1>5. n \notin pulled /\ old # Missing => old[1] = r
  BY <1>1, <1>4 DEF TcmInv, FilesOfOneRun
<1>6. r \notin removed /\ n \notin pulled => old = <<r, "empty">>
  BY DEF TcmInv, Staged, Live
<1>7. ASSUME NEW v \in (Run \X Amount) \cup {Missing}, NEW there \in {to, "exit"},
             pc' = [pc EXCEPT ![r] = there], file' = [file EXCEPT ![n][f] = v],
             v = Missing <=> old = Missing,
             v # Missing => v[1] = old[1],
             there # "exit" /\ old # Missing /\ old[1] = r => v = <<r, "whole">>
      PROVE  TcmInv'
  <2>1. there \in Working \cup {"exit"}
    OBVIOUS
  <2>2. IsDir(n) \/ v = Missing
    BY <1>3, <1>7
  <2>3. v # Missing /\ n \notin pulled => v[1] = r
    BY <1>5, <1>7
  <2>4. there # "exit" /\ r \notin removed /\ n \notin pulled => v = <<r, "whole">>
    BY <1>5, <1>6, <1>7, PairIsNotMissing
  <2>5. there # "exit" => there = to
    BY <1>7
  <2>. QED
    BY <1>7, <2>1, <2>2, <2>3, <2>4, <2>5, FileStep
<1>8. CASE old = Missing
  <2>1. file' = [file EXCEPT ![n][f] = old]
    BY <1>1, <1>8
  <2>. QED
    BY <1>2, <1>7, <1>8, <2>1
<1>9. CASE old # Missing
  <2>1. old[1] \in Run /\ <<old[1], "part">> \in Run \X Amount /\ <<r, "whole">> \in Run \X Amount
    BY <1>2, <1>9 DEF Amount
  <2>2. CASE pc' = [pc EXCEPT ![r] = "exit"] /\ file' = [file EXCEPT ![n][f] = <<@[1], "part">>]
    <3>1. file' = [file EXCEPT ![n][f] = <<old[1], "part">>]
      BY <2>2
    <3>2. <<old[1], "part">> # Missing /\ <<old[1], "part">>[1] = old[1]
      BY PairIsNotMissing
    <3>. QED
      BY <1>7, <1>9, <2>1, <2>2, <3>1, <3>2
  <2>3. CASE pc' = [pc EXCEPT ![r] = to] /\ old[1] = r /\ file' = [file EXCEPT ![n][f] = <<r, "whole">>]
    <3>1. file' = [file EXCEPT ![n][f] = <<r, "whole">>]
      BY <2>3
    <3>2. <<r, "whole">> # Missing /\ <<r, "whole">>[1] = r
      BY PairIsNotMissing
    <3>. QED
      BY <1>7, <1>9, <2>1, <2>3, <3>1, <3>2
  <2>4. CASE pc' = [pc EXCEPT ![r] = to] /\ old[1] # r /\ file' = [file EXCEPT ![n][f] = <<@[1], "part">>]
    <3>1. file' = [file EXCEPT ![n][f] = <<old[1], "part">>]
      BY <2>4
    <3>2. <<old[1], "part">> # Missing /\ <<old[1], "part">>[1] = old[1]
      BY PairIsNotMissing
    <3>. QED
      BY <1>7, <1>9, <2>1, <2>4, <3>1, <3>2
  <2>. QED
    BY <1>9, <2>2, <2>3, <2>4
<1>. QED
  BY <1>8, <1>9

----------------------------------------------------------------------------
(* The other steps of a run, and the removal of a module.                  *)
LEMMA ScanStep ==
  ASSUME TcmInv, NEW r \in Run, ScanLine(r)
  PROVE  TcmInv'
<1> USE DEF ScanLine, treeVars, history
<1>1. TcmTypeOK'
  <2>1. header \in Seq(Line) /\ i[r] \in 0 .. Len(header) + 1 /\ fabric_ops[r] \in Seq(Line)
    BY Options DEF TcmInv, TcmTypeOK, Line
  <2>2. i[r] + 1 \in 0 .. Len(header) + 1
    BY <2>1
  <2>3. i' \in [Run -> 0 .. Len(header) + 1] /\ process_fo' \in [Run -> BOOLEAN]
    BY <2>2 DEF TcmInv, TcmTypeOK
  <2>4. ASSUME i[r] + 1 <= Len(header)
        PROVE  Append(fabric_ops[r], header[i[r] + 1]) \in Seq(Line)
    BY <2>1, <2>4
  <2>5. fabric_ops' \in [Run -> Seq(Line)]
    <3>1. fabric_ops \in [Run -> Seq(Line)]
      BY DEF TcmInv, TcmTypeOK, Line
    <3>. QED
      BY <2>4, <3>1
  <2>. QED
    BY <2>3, <2>5 DEF TcmInv, TcmTypeOK, Line
<1>2. (NoDir /\ Named /\ FilesOfOneRun /\ Made)'
  BY DEF TcmInv, NoDir, Named, IsDir, FilesOfOneRun, Made
<1>3. (Owned /\ Pulled /\ Asked)'
  BY DEF TcmInv, Owned, Pulled, Asked, Live
<1>4. Staged'
  BY DEF TcmInv, Staged, Live
<1>. QED
  BY <1>1, <1>2, <1>3, <1>4 DEF TcmInv

LEMMA AddStep ==
  ASSUME TcmInv, NEW r \in Run, AddKbuild(r) \/ AddKconfig(r)
  PROVE  TcmInv'
<1> USE DEF AddKbuild, AddKconfig, Goto, scanVars, history
<1>1. TcmTypeOK'
  BY DEF TcmInv, TcmTypeOK, Control
<1>2. (NoDir /\ Named /\ FilesOfOneRun)'
  BY DEF TcmInv, NoDir, Named, IsDir, FilesOfOneRun
<1>3. Live(r) /\ pc[r] \in {"ask kbuild", "ask kconfig"} /\ pc'[r] \in {"ask kconfig", "done"}
  BY DEF TcmInv, TcmTypeOK, Live, Working, Control
<1>4. \A s \in Run : (Live(s)' => Live(s)) /\ (s # r => pc'[s] = pc[s])
  BY <1>3 DEF TcmInv, TcmTypeOK, Live
<1>5. Owned' /\ Made'
  BY <1>3, <1>4 DEF TcmInv, Owned, Made
<1>6. (Pulled /\ Asked)'
  BY <1>3, <1>4 DEF TcmInv, TcmTypeOK, Pulled, Asked, Working, Control
<1>7. Staged'
  <2> SUFFICES ASSUME NEW s \in Run, Live(s)', s \notin removed, name[s] \notin pulled,
                      NEW f \in FileName
               PROVE  file[name[s]][f] = FileAt(s, pc'[s], f)
    BY DEF Staged
  <2>1. file[name[s]][f] = FileAt(s, pc[s], f)
    BY <1>4 DEF TcmInv, Staged
  <2>2. CASE s = r
    <3>1. FileAt(r, pc[r], f) = <<r, "whole">> /\ FileAt(r, pc'[r], f) = <<r, "whole">>
      BY <1>3, WholeAtEnd
    <3>. QED
      BY <2>1, <2>2, <3>1
  <2>3. CASE s # r
    BY <1>4, <2>1, <2>3
  <2>. QED
    BY <2>2, <2>3
<1>. QED
  BY <1>1, <1>2, <1>5, <1>6, <1>7 DEF TcmInv

LEMMA RemoveStep ==
  ASSUME TcmInv, NEW n \in Name, Remove(n)
  PROVE  TcmInv'
<1> USE DEF Remove, scanVars
<1>1. owner \in [Name -> Run \cup {NoRun}] /\ owner[n] \in Run /\ name[owner[n]] = n
  BY DEF TcmInv, TcmTypeOK, IsDir, Named
<1>2. TcmTypeOK'
  <2>1. NoFiles \in [FileName -> (Run \X Amount) \cup {Missing}]
    BY DEF NoFiles
  <2>2. file' \in [Name -> [FileName -> (Run \X Amount) \cup {Missing}]]
    BY <2>1 DEF TcmInv, TcmTypeOK
  <2>. QED
    BY <1>1, <2>2 DEF TcmInv, TcmTypeOK
<1>3. \A m \in Name : /\ file'[m] = IF m = n THEN NoFiles ELSE file[m]
                      /\ owner'[m] = IF m = n THEN NoRun ELSE owner[m]
  BY DEF TcmInv, TcmTypeOK
<1>4. (NoDir /\ Named)'
  BY <1>3 DEF TcmInv, NoDir, Named, IsDir
<1>5. FilesOfOneRun'
  <2> SUFFICES ASSUME NEW m \in Name \ pulled', NEW f \in FileName, file'[m][f] # Missing
               PROVE  file'[m][f][1] = owner'[m]
    BY DEF FilesOfOneRun
  <2>1. m # n
    BY <1>3 DEF NoFiles
  <2>2. m \notin pulled
    OBVIOUS
  <2>. QED
    BY <1>3, <2>1, <2>2 DEF TcmInv, FilesOfOneRun
<1>6. Made'
  BY <1>1, <1>3, TcmAssumption DEF TcmInv, Made
<1>7. \A s \in Run : Live(s)' <=> Live(s)
  BY DEF Live
<1>8. Owned'
  BY <1>3, <1>7, Options DEF TcmInv, Owned
<1>9. (Pulled /\ Asked)'
  <2>1. pc[owner[n]] \in Working => owner[n] \in AtWork(n)
    BY <1>1 DEF AtWork, Working
  <2>. QED
    BY <1>1, <2>1 DEF TcmInv, Pulled, Asked
<1>10. Staged'
  <2> SUFFICES ASSUME NEW s \in Run, Live(s), s \notin removed', name[s] \notin pulled',
                      NEW f \in FileName
               PROVE  file'[name[s]][f] = FileAt(s, pc[s], f)
    BY <1>7 DEF Staged
  <2>1. s \notin removed /\ s # owner[n] /\ name[s] \notin pulled /\ name[s] \in Name
    BY Options DEF TcmInv
  <2>2. name[s] # n
    BY <2>1 DEF TcmInv, Owned
  <2>. QED
    BY <1>3, <2>1, <2>2 DEF TcmInv, Staged
<1>. QED
  BY <1>2, <1>4, <1>5, <1>6, <1>8, <1>9, <1>10 DEF TcmInv

LEMMA Stutter ==
  ASSUME TcmInv, UNCHANGED vars
  PROVE  TcmInv'
BY DEF TcmInv, vars, scanVars, treeVars, history, TcmTypeOK, NoDir, Named, IsDir,
       FilesOfOneRun, Made, Owned, Pulled, Staged, Asked, Live

(* What the files of a run look like when it has opened or written one.    *)
LEMMA Stages ==
  ASSUME NEW r
  PROVE
    /\ FileAt(r, "base write", "base.h") = <<r, "empty">>
    /\ \A g \in FileName \ {"base.h"} : FileAt(r, "base write", g) = FileAt(r, "base", g)
    /\ FileAt(r, "fabric.h", "fabric.c") = <<r, "empty">>
    /\ \A g \in FileName \ {"fabric.c"} : FileAt(r, "fabric.h", g) = FileAt(r, "fabric.c", g)
    /\ FileAt(r, "fabric.c write", "fabric.h") = <<r, "empty">>
    /\ \A g \in FileName \ {"fabric.h"} : FileAt(r, "fabric.c write", g) = FileAt(r, "fabric.h", g)
    /\ FileAt(r, "configfs write", "configfs.c") = <<r, "empty">>
    /\ \A g \in FileName \ {"configfs.c"} : FileAt(r, "configfs write", g) = FileAt(r, "configfs", g)
    /\ FileAt(r, "Makefile write", "Makefile") = <<r, "empty">>
    /\ \A g \in FileName \ {"Makefile"} : FileAt(r, "Makefile write", g) = FileAt(r, "Makefile", g)
    /\ FileAt(r, "Kconfig write", "Kconfig") = <<r, "empty">>
    /\ \A g \in FileName \ {"Kconfig"} : FileAt(r, "Kconfig write", g) = FileAt(r, "Kconfig", g)
    /\ FileAt(r, "base write", "base.h") = <<r, "empty">> /\ FileAt(r, "header", "base.h") = <<r, "whole">>
    /\ \A g \in FileName \ {"base.h"} : FileAt(r, "header", g) = FileAt(r, "base write", g)
    /\ FileAt(r, "fabric.c write", "fabric.c") = <<r, "empty">> /\ FileAt(r, "fabric.h write", "fabric.c") = <<r, "whole">>
    /\ \A g \in FileName \ {"fabric.c"} : FileAt(r, "fabric.h write", g) = FileAt(r, "fabric.c write", g)
    /\ FileAt(r, "fabric.h write", "fabric.h") = <<r, "empty">> /\ FileAt(r, "configfs", "fabric.h") = <<r, "whole">>
    /\ \A g \in FileName \ {"fabric.h"} : FileAt(r, "configfs", g) = FileAt(r, "fabric.h write", g)
    /\ FileAt(r, "configfs write", "configfs.c") = <<r, "empty">> /\ FileAt(r, "Makefile", "configfs.c") = <<r, "whole">>
    /\ \A g \in FileName \ {"configfs.c"} : FileAt(r, "Makefile", g) = FileAt(r, "configfs write", g)
    /\ FileAt(r, "Makefile write", "Makefile") = <<r, "empty">> /\ FileAt(r, "Kconfig", "Makefile") = <<r, "whole">>
    /\ \A g \in FileName \ {"Makefile"} : FileAt(r, "Kconfig", g) = FileAt(r, "Makefile write", g)
    /\ FileAt(r, "Kconfig write", "Kconfig") = <<r, "empty">> /\ FileAt(r, "ask kbuild", "Kconfig") = <<r, "whole">>
    /\ \A g \in FileName \ {"Kconfig"} : FileAt(r, "ask kbuild", g) = FileAt(r, "Kconfig write", g)
    /\ \A g \in FileName : FileAt(r, "scan", g) = FileAt(r, "header", g)
    /\ \A g \in FileName : FileAt(r, "fabric.c", g) = FileAt(r, "scan", g)
BY DEF FileAt, Pos, OpenPos, WritePos, FileName

LEMMA StepInv == TcmInv /\ [Next]_vars => TcmInv'
<1> SUFFICES ASSUME TcmInv, [Next]_vars PROVE TcmInv'
  OBVIOUS
<1>1. ASSUME NEW r \in Run, Step(r) \/ Stop(r) PROVE TcmInv'
  <2>0. /\ pc \in [Run -> Control] /\ i \in [Run -> 0 .. Len(header) + 1]
        /\ process_fo \in [Run -> BOOLEAN]
        /\ fabric_ops \in [Run -> Seq([struct : BOOLEAN, pointer : BOOLEAN, matches : SUBSET Fn])]
    BY DEF TcmInv, TcmTypeOK
  <2>00. Len(header) \in Nat
    BY Options DEF TcmInv
  <2>1. CASE Main(r)
    BY <2>0, <2>1, PcStep DEF Main, Goto, Control, scanVars
  <2>2. CASE CreateSubdir(r)
    BY <2>2, CreateStep
  <2>3. CASE BuildBaseIncludes(r)
    <3>1. CASE Open(r, "base.h", "base", "base write")
      BY ZenonT(60), <3>1, Stages, OpenStep DEF FileName, Working, Control
    <3>2. CASE Write(r, "base.h", "base write", "header")
      BY ZenonT(60), <3>2, Stages, WriteStep DEF FileName, Working, Control
    <3>. QED
      BY <2>3, <3>1, <3>2 DEF BuildBaseIncludes
  <2>4. CASE DumpFabricOps(r)
    <3>1. CASE Open(r, "fabric.c", "fabric.c", "fabric.h")
      BY ZenonT(60), <3>1, Stages, OpenStep DEF FileName, Working, Control
    <3>2. CASE Open(r, "fabric.h", "fabric.h", "fabric.c write")
      BY ZenonT(60), <3>2, Stages, OpenStep DEF FileName, Working, Control
    <3>3. CASE Write(r, "fabric.c", "fabric.c write", "fabric.h write")
      BY ZenonT(60), <3>3, Stages, WriteStep DEF FileName, Working, Control
    <3>4. CASE Write(r, "fabric.h", "fabric.h write", "configfs")
      BY ZenonT(60), <3>4, Stages, WriteStep DEF FileName, Working, Control
    <3>. QED
      BY <2>4, <3>1, <3>2, <3>3, <3>4 DEF DumpFabricOps
  <2>5. CASE BuildConfigfs(r)
    <3>1. CASE Open(r, "configfs.c", "configfs", "configfs write")
      BY ZenonT(60), <3>1, Stages, OpenStep DEF FileName, Working, Control
    <3>2. CASE Write(r, "configfs.c", "configfs write", "Makefile")
      BY ZenonT(60), <3>2, Stages, WriteStep DEF FileName, Working, Control
    <3>. QED
      BY <2>5, <3>1, <3>2 DEF BuildConfigfs
  <2>6. CASE BuildKbuild(r)
    <3>1. CASE Open(r, "Makefile", "Makefile", "Makefile write")
      BY ZenonT(60), <3>1, Stages, OpenStep DEF FileName, Working, Control
    <3>2. CASE Write(r, "Makefile", "Makefile write", "Kconfig")
      BY ZenonT(60), <3>2, Stages, WriteStep DEF FileName, Working, Control
    <3>. QED
      BY <2>6, <3>1, <3>2 DEF BuildKbuild
  <2>7. CASE BuildKconfig(r)
    <3>1. CASE Open(r, "Kconfig", "Kconfig", "Kconfig write")
      BY ZenonT(60), <3>1, Stages, OpenStep DEF FileName, Working, Control
    <3>2. CASE Write(r, "Kconfig", "Kconfig write", "ask kbuild")
      BY ZenonT(60), <3>2, Stages, WriteStep DEF FileName, Working, Control
    <3>. QED
      BY <2>7, <3>1, <3>2 DEF BuildKconfig
  <2>8. CASE OpenHeader(r)
    <3>1. i' \in [Run -> 0 .. Len(header) + 1]
      BY <2>0, <2>00, <2>8 DEF OpenHeader
    <3>2. /\ pc[r] = "header"
          /\ process_fo' \in [Run -> BOOLEAN]
          /\ fabric_ops' \in [Run -> Seq([struct : BOOLEAN, pointer : BOOLEAN, matches : SUBSET Fn])]
          /\ UNCHANGED <<header, name, proto, treeVars, history>>
      BY <2>0, <2>8 DEF OpenHeader
    <3>3. \A f \in FileName : FileAt(r, "scan", f) = FileAt(r, pc[r], f)
      <4>1. \A f \in FileName : FileAt(r, "scan", f) = FileAt(r, "header", f)
        BY Stages
      <4>. QED
        BY <3>2, <4>1
    <3>4. CASE pc' = [pc EXCEPT ![r] = "scan"]
      BY <3>1, <3>2, <3>3, <3>4, PcStep DEF Control, Working
    <3>5. CASE pc' = [pc EXCEPT ![r] = "exit"]
      BY <3>1, <3>2, <3>5, PcStep DEF Control, Working
    <3>. QED
      BY <2>8, <3>4, <3>5 DEF OpenHeader, Goto
  <2>9. CASE ScanLine(r)
    BY <2>9, ScanStep
  <2>10. CASE HeaderRead(r)
    <3>1. /\ pc[r] = "scan" /\ pc' = [pc EXCEPT ![r] = "fabric.c"]
          /\ UNCHANGED <<header, name, proto, scanVars, treeVars, history>>
      BY <2>10 DEF HeaderRead, Goto
    <3>2. \A f \in FileName : FileAt(r, "fabric.c", f) = FileAt(r, pc[r], f)
      <4>1. \A f \in FileName : FileAt(r, "fabric.c", f) = FileAt(r, "scan", f)
        BY Stages
      <4>. QED
        BY <3>1, <4>1
    <3>. QED
      BY <2>0, <3>1, <3>2, PcStep DEF Control, Working, scanVars
  <2>11. CASE AddKbuild(r) \/ AddKconfig(r)
    BY <2>11, AddStep
  <2>12. CASE Stop(r)
    BY <2>0, <2>12, PcStep DEF Stop, Goto, Control, scanVars
  <2>. QED
    BY <1>1, <2>1, <2>2, <2>3, <2>4, <2>5, <2>6, <2>7, <2>8, <2>9, <2>10, <2>11, <2>12 DEF Step
<1>2. ASSUME NEW n \in Name, Remove(n) PROVE TcmInv'
  BY <1>2, RemoveStep
<1>3. CASE UNCHANGED vars
  BY <1>3, Stutter
<1>. QED
  BY <1>1, <1>2, <1>3 DEF Next

(* Whatever runs are started and stopped, and whatever the user removes,   *)
(* the files of a run that has its directory are as far as the run is.     *)
THEOREM TcmInvariance == Spec => []TcmInv
BY InitInv, StepInv, PTL DEF Spec

(* The files of a module come from the run that made its directory, for    *)
(* any number of runs of any names, unless it was removed under a run.     *)
THEOREM FilesOfOneRunAlways == Spec => []FilesOfOneRun
<1>1. TcmInv => FilesOfOneRun
  BY DEF TcmInv
<1>. QED
  BY <1>1, TcmInvariance, PTL

(* Nothing a run or a user does leaves the types of the model.             *)
THEOREM TcmTypeOKAlways == Spec => []TcmTypeOK
<1>1. TcmInv => TcmTypeOK
  BY DEF TcmInv
<1>. QED
  BY <1>1, TcmInvariance, PTL

(* Of two runs that add the same line one has had its module removed:      *)
(* both have owned the directory, and nobody takes it from an owner.       *)
THEOREM EntriesOnceAlways == Spec => []EntriesOnce
<1>1. ASSUME TcmInv PROVE EntriesOnce
  <2> SUFFICES ASSUME NEW added \in {kbuild, kconfig}, NEW r \in added, NEW s \in added,
                      r # s, name[r] = name[s], removed \cap {r, s} = {}
               PROVE  FALSE
    BY DEF EntriesOnce
  <2>1. r \in Run /\ s \in Run /\ Live(r) /\ Live(s)
    BY <1>1 DEF TcmInv, TcmTypeOK, Live
  <2>2. owner[name[r]] = r /\ owner[name[s]] = s
    BY <1>1, <2>1 DEF TcmInv, Owned
  <2>. QED
    BY <2>2
<1>. QED
  BY <1>1, TcmInvariance, PTL

----------------------------------------------------------------------------
(* A run that is about to open or to write a file has not completed it:    *)
(* the file it works on is never one of a complete module.                 *)
LEMMA KeptByStep ==
  ASSUME TcmInv, NEW r \in Run, NEW f \in FileName, pc[r] \in Working,
         FileAt(r, pc[r], f) \in {Missing, <<r, "empty">>},
         NEW v, file' = file \/ file' = [file EXCEPT ![name[r]][f] = v],
         NEW n \in Name, Complete(n), n \notin pulled
  PROVE  file'[n] = file[n]
<1>1. CASE name[r] = n
  <2>1. Live(r) /\ r \notin removed
    BY <1>1 DEF TcmInv, Pulled, Live
  <2>2. file[n][f] = FileAt(r, pc[r], f)
    BY <1>1, <2>1 DEF TcmInv, Staged
  <2>3. file[n][f] # Missing /\ file[n][f][2] = "whole"
    BY DEF Complete
  <2>4. <<r, "empty">>[2] # "whole"
    OBVIOUS
  <2>. QED
    BY <2>2, <2>3, <2>4
<1>2. CASE name[r] # n
  BY <1>2 DEF TcmInv, TcmTypeOK
<1>. QED
  BY <1>1, <1>2

LEMMA KeptByOpen ==
  ASSUME TcmInv, NEW r \in Run, NEW f \in FileName, NEW from \in Working, NEW to,
         Open(r, f, from, to), FileAt(r, from, f) = Missing,
         NEW n \in Name, Complete(n), n \notin pulled
  PROVE  file'[n] = file[n]
<1>1. pc[r] = from /\ (file' = file \/ file' = [file EXCEPT ![name[r]][f] = <<r, "empty">>])
  BY DEF Open
<1>. QED
  BY <1>1, KeptByStep

LEMMA KeptByWrite ==
  ASSUME TcmInv, NEW r \in Run, NEW f \in FileName, NEW from \in Working, NEW to,
         Write(r, f, from, to), FileAt(r, from, f) = <<r, "empty">>,
         NEW n \in Name, Complete(n), n \notin pulled
  PROVE  file'[n] = file[n]
<1>1. pc[r] = from
  BY DEF Write
<1>2. \/ file' = file \/ file' = [file EXCEPT ![name[r]][f] = <<r, "whole">>]
      \/ file' = [file EXCEPT ![name[r]][f] = <<file[name[r]][f][1], "part">>]
  BY DEF Write
<1>. QED
  BY <1>1, <1>2, KeptByStep

LEMMA NotOpened ==
  ASSUME NEW r
  PROVE
    /\ FileAt(r, "base", "base.h") = Missing
    /\ FileAt(r, "fabric.c", "fabric.c") = Missing
    /\ FileAt(r, "fabric.h", "fabric.h") = Missing
    /\ FileAt(r, "configfs", "configfs.c") = Missing
    /\ FileAt(r, "Makefile", "Makefile") = Missing
    /\ FileAt(r, "Kconfig", "Kconfig") = Missing
BY DEF FileAt, Pos, OpenPos, WritePos

LEMMA KeptStep ==
  ASSUME TcmInv, Next, NEW n \in Name, Complete(n), IsDir(n)
  PROVE  file'[n] = file[n] \/ ~IsDir(n)' \/ n \in pulled
<1> SUFFICES ASSUME n \notin pulled PROVE file'[n] = file[n] \/ ~IsDir(n)'
  OBVIOUS
<1>1. ASSUME NEW r \in Run, BuildBaseIncludes(r) PROVE file'[n] = file[n]
  <2>1. CASE Open(r, "base.h", "base", "base write")
    BY <2>1, NotOpened, KeptByOpen DEF FileName, Working, Control
  <2>2. CASE Write(r, "base.h", "base write", "header")
    BY <2>2, Stages, KeptByWrite DEF FileName, Working, Control
  <2>. QED
    BY <1>1, <2>1, <2>2 DEF BuildBaseIncludes
<1>2. ASSUME NEW r \in Run, DumpFabricOps(r) PROVE file'[n] = file[n]
  <2>1. CASE Open(r, "fabric.c", "fabric.c", "fabric.h")
    BY <2>1, NotOpened, KeptByOpen DEF FileName, Working, Control
  <2>2. CASE Open(r, "fabric.h", "fabric.h", "fabric.c write")
    BY <2>2, NotOpened, KeptByOpen DEF FileName, Working, Control
  <2>3. CASE Write(r, "fabric.c", "fabric.c write", "fabric.h write")
    BY <2>3, Stages, KeptByWrite DEF FileName, Working, Control
  <2>4. CASE Write(r, "fabric.h", "fabric.h write", "configfs")
    BY <2>4, Stages, KeptByWrite DEF FileName, Working, Control
  <2>. QED
    BY <1>2, <2>1, <2>2, <2>3, <2>4 DEF DumpFabricOps
<1>3. ASSUME NEW r \in Run, BuildConfigfs(r) PROVE file'[n] = file[n]
  <2>1. CASE Open(r, "configfs.c", "configfs", "configfs write")
    BY <2>1, NotOpened, KeptByOpen DEF FileName, Working, Control
  <2>2. CASE Write(r, "configfs.c", "configfs write", "Makefile")
    BY <2>2, Stages, KeptByWrite DEF FileName, Working, Control
  <2>. QED
    BY <1>3, <2>1, <2>2 DEF BuildConfigfs
<1>4. ASSUME NEW r \in Run, BuildKbuild(r) PROVE file'[n] = file[n]
  <2>1. CASE Open(r, "Makefile", "Makefile", "Makefile write")
    BY <2>1, NotOpened, KeptByOpen DEF FileName, Working, Control
  <2>2. CASE Write(r, "Makefile", "Makefile write", "Kconfig")
    BY <2>2, Stages, KeptByWrite DEF FileName, Working, Control
  <2>. QED
    BY <1>4, <2>1, <2>2 DEF BuildKbuild
<1>5. ASSUME NEW r \in Run, BuildKconfig(r) PROVE file'[n] = file[n]
  <2>1. CASE Open(r, "Kconfig", "Kconfig", "Kconfig write")
    BY <2>1, NotOpened, KeptByOpen DEF FileName, Working, Control
  <2>2. CASE Write(r, "Kconfig", "Kconfig write", "ask kbuild")
    BY <2>2, Stages, KeptByWrite DEF FileName, Working, Control
  <2>. QED
    BY <1>5, <2>1, <2>2 DEF BuildKconfig
<1>6. ASSUME NEW r \in Run,
             \/ Main(r) \/ CreateSubdir(r) \/ OpenHeader(r) \/ ScanLine(r) \/ HeaderRead(r)
             \/ AddKbuild(r) \/ AddKconfig(r) \/ Stop(r)
      PROVE  file'[n] = file[n]
  BY <1>6 DEF Main, CreateSubdir, OpenHeader, ScanLine, HeaderRead, AddKbuild, AddKconfig,
              Stop, treeVars
<1>7. ASSUME NEW m \in Name, Remove(m) PROVE file'[n] = file[n] \/ ~IsDir(n)'
  BY <1>7 DEF Remove, IsDir, TcmInv, TcmTypeOK
<1>. QED
  BY <1>1, <1>2, <1>3, <1>4, <1>5, <1>6, <1>7 DEF Next, Step

(* No step changes a file of a complete module, whoever takes it, as long  *)
(* as the user leaves the module alone.                                    *)
THEOREM ModuleKeptAlways == Spec => ModuleKept
<1>1. TcmInv /\ [Next]_vars =>
        [\A n \in Name : Complete(n) /\ IsDir(n) =>
           file'[n] = file[n] \/ ~IsDir(n)' \/ n \in pulled]_vars
  BY KeptStep
<1>. QED
  BY <1>1, TcmInvariance, PTL DEF Spec, ModuleKept

----------------------------------------------------------------------------
(* What the loop has found when it has read up to a line: its counter and  *)
(* process_fo go together, and of the lines that make fabric.c define f it *)
(* has taken each one it has passed.                                       *)
Early == {"start", "mkdir", "base", "base write", "header"}
Ended(r) == Live(r) /\ pc[r] \notin Early \cup {"scan"}

Passed(r, f) == {k \in Pointers(f) : k <= i[r]}
Taken(r, f) == {k \in DOMAIN fabric_ops[r] : Generates(fabric_ops[r][k], f)}

Counted(r) ==
  /\ i[r] <= 1 => fabric_ops[r] = <<>>
  /\ HeaderHasTable =>
       /\ i[r] >= 2 => process_fo[r]
       /\ \A f \in Fn : Cardinality(Taken(r, f)) = Cardinality(Passed(r, f))

Scanned(r) ==
  /\ pc[r] \in Early => i[r] = 0
  /\ pc[r] = "scan" => i[r] >= 1
  /\ Ended(r) => i[r] > Len(header)

Checked(r) == pc[r] \notin {"start", "exit"} \/ Live(r) => proto[r] \in Supported

Found == \A r \in Run : Counted(r) /\ Scanned(r) /\ Checked(r)

LeadInv == TcmInv /\ Found

LEMMA PassedFinite ==
  ASSUME TcmInv, NEW r \in Run, NEW f \in Fn
  PROVE  IsFiniteSet(Passed(r, f)) /\ IsFiniteSet(Pointers(f))
<1>1. Len(header) \in Nat
  BY Options DEF TcmInv
<1>2. IsFiniteSet(2 .. Len(header))
  BY <1>1, FS_Interval
<1>. QED
  BY <1>2, FS_Subset DEF Passed, Pointers

LEMMA LeadInit == Init => LeadInv
<1> SUFFICES ASSUME Init PROVE LeadInv
  OBVIOUS
<1>1. TcmInv
  BY InitInv
<1>2. ASSUME NEW r \in Run PROVE Counted(r) /\ Scanned(r) /\ Checked(r)
  <2>1. pc[r] = "start" /\ i[r] = 0 /\ fabric_ops[r] = <<>> /\ ~Live(r)
    BY <1>2 DEF Init, Live, Working
  <2>2. ASSUME NEW f \in Fn PROVE Taken(r, f) = {} /\ Passed(r, f) = {}
    <3>1. Taken(r, f) = {}
      BY <2>1 DEF Taken
    <3>2. Passed(r, f) = {}
      BY <2>1 DEF Passed, Pointers
    <3>. QED
      BY <3>1, <3>2
  <2>3. ~(i[r] >= 2)
    BY <2>1
  <2>4. Counted(r)
    BY <2>1, <2>2, <2>3 DEF Counted
  <2>5. Scanned(r) /\ Checked(r)
    BY <2>1 DEF Scanned, Checked, Ended, Early
  <2>. QED
    BY <2>4, <2>5
<1>. QED
  BY <1>1, <1>2 DEF LeadInv, Found

LEMMA CountedKept ==
  ASSUME NEW r \in Run, Counted(r), UNCHANGED header,
         i'[r] = i[r], process_fo'[r] = process_fo[r], fabric_ops'[r] = fabric_ops[r]
  PROVE  Counted(r)'
<1>1. HeaderHasTable' = HeaderHasTable
  BY DEF HeaderHasTable, Pointers, Generates
<1>2. \A f : Taken(r, f)' = Taken(r, f)
  BY DEF Taken, Generates
<1>3. \A f : Passed(r, f)' = Passed(r, f)
  BY DEF Passed, Pointers, Generates
<1>. QED
  BY <1>1, <1>2, <1>3 DEF Counted

(* A step of s that leaves the counter and the lines taken alone           *)
LEMMA ScanKept ==
  ASSUME LeadInv, NEW s \in Run,
         \A r \in Run \ {s} : pc'[r] = pc[r] /\ (Live(r)' => Live(r)),
         pc'[s] \in Early => pc[s] \in Early,
         pc'[s] # "scan",
         Ended(s)' => Ended(s) \/ i[s] > Len(header),
         Checked(s)',
         UNCHANGED <<header, proto, scanVars>>
  PROVE  Found'
<1> SUFFICES ASSUME NEW r \in Run PROVE (Counted(r) /\ Scanned(r) /\ Checked(r))'
  BY DEF Found
<1>1. Counted(r) /\ Scanned(r) /\ Checked(r) /\ Scanned(s)
  BY DEF LeadInv, Found
<1>2. Counted(r)'
  BY <1>1, CountedKept DEF scanVars
<1>3. CASE r = s
  BY <1>1, <1>2, <1>3 DEF Scanned, scanVars
<1>4. CASE r # s
  <2>1. pc'[r] = pc[r] /\ (Live(r)' => Live(r))
    BY <1>4
  <2>2. Ended(r)' => Ended(r)
    BY <2>1 DEF Ended
  <2>3. Scanned(r)'
    BY <1>1, <2>1, <2>2 DEF Scanned, scanVars
  <2>4. Checked(r)'
    BY <1>1, <2>1 DEF Checked
  <2>. QED
    BY <1>2, <2>3, <2>4
<1>. QED
  BY <1>3, <1>4

(* One turn of the loop: if the line read next makes fabric.c define f, it *)
(* is taken and passed, and otherwise neither.                             *)
LEMMA CountedScan ==
  ASSUME LeadInv, NEW r \in Run, ScanLine(r)
  PROVE  Counted(r)'
<1> DEFINE next == i[r] + 1
<1>1. /\ header \in Seq(Line) /\ Len(header) \in Nat /\ i[r] \in 1 .. Len(header)
      /\ fabric_ops[r] \in Seq(Line) /\ i'[r] = next /\ header' = header
  <2>1. header \in Seq(Line) /\ i \in [Run -> 0 .. Len(header) + 1] /\ fabric_ops[r] \in Seq(Line)
    BY Options DEF LeadInv, Found, TcmInv, TcmTypeOK, Line
  <2>2. i[r] >= 1 /\ i[r] <= Len(header)
    BY DEF LeadInv, Found, Scanned, ScanLine
  <2>. QED
    BY <2>1, <2>2 DEF ScanLine
<1>2. ~(i'[r] <= 1) /\ HeaderHasTable' = HeaderHasTable
  BY <1>1 DEF HeaderHasTable, Pointers, Generates
<1> SUFFICES ASSUME HeaderHasTable
             PROVE  /\ process_fo'[r]
                    /\ \A f \in Fn : Cardinality(Taken(r, f)') = Cardinality(Passed(r, f)')
  BY <1>2 DEF Counted
<1>3. process_fo[r] \/ ~header[i[r]].struct
  <2>1. Counted(r)
    BY DEF LeadInv, Found
  <2>2. CASE i[r] = 1
    BY <2>2 DEF HeaderHasTable
  <2>3. CASE i[r] # 1
    BY <1>1, <2>1, <2>3 DEF Counted
  <2>. QED
    BY <2>2, <2>3
<1>4. process_fo'[r] /\ fabric_ops'[r] = IF next <= Len(header) /\ header[next].pointer
                                         THEN Append(fabric_ops[r], header[next])
                                         ELSE fabric_ops[r]
  BY <1>3 DEF ScanLine, LeadInv, Found, TcmInv, TcmTypeOK
<1>5. ASSUME NEW f \in Fn PROVE Cardinality(Taken(r, f)') = Cardinality(Passed(r, f)')
  <2>1. Cardinality(Taken(r, f)) = Cardinality(Passed(r, f))
    BY DEF LeadInv, Found, Counted
  <2>2. Taken(r, f)' = {k \in DOMAIN fabric_ops'[r] : Generates(fabric_ops'[r][k], f)}
    BY DEF Taken, Generates
  <2>3. Passed(r, f)' = {k \in Pointers(f) : k <= next}
    BY <1>1 DEF Passed, Pointers, Generates
  <2>4. IsFiniteSet(Taken(r, f)) /\ IsFiniteSet(Passed(r, f))
    <3>0. Len(fabric_ops[r]) \in Nat
      BY <1>1
    <3>1. IsFiniteSet(1 .. Len(fabric_ops[r]))
      BY <3>0, FS_Interval
    <3>2. Taken(r, f) \subseteq 1 .. Len(fabric_ops[r])
      BY <1>1 DEF Taken
    <3>. QED
      BY <3>1, <3>2, FS_Subset, PassedFinite DEF LeadInv, Found
  <2>5. CASE next \in Pointers(f)
    <3>1. next <= Len(header) /\ header[next].pointer /\ Generates(header[next], f)
      BY <1>1, <2>5 DEF Pointers
    <3>2. fabric_ops'[r] = Append(fabric_ops[r], header[next])
      BY <1>4, <3>1
    <3>3. Taken(r, f)' = Taken(r, f) \cup {Len(fabric_ops[r]) + 1}
      BY <1>1, <2>2, <3>1, <3>2 DEF Taken
    <3>4. Len(fabric_ops[r]) + 1 \notin Taken(r, f)
      BY <1>1 DEF Taken
    <3>5. Passed(r, f)' = Passed(r, f) \cup {next} /\ next \notin Passed(r, f)
      BY <1>1, <2>3, <2>5 DEF Passed, Pointers
    <3>6. Cardinality(Taken(r, f)') = Cardinality(Taken(r, f)) + 1
      BY <2>4, <3>3, <3>4, FS_AddElement
    <3>7. Cardinality(Passed(r, f)') = Cardinality(Passed(r, f)) + 1
      BY <2>4, <3>5, FS_AddElement
    <3>. QED
      BY <2>1, <3>6, <3>7
  <2>6. CASE next \notin Pointers(f)
    <3>1. Passed(r, f)' = Passed(r, f)
      BY <1>1, <2>3, <2>6 DEF Passed, Pointers
    <3>2. Taken(r, f)' = Taken(r, f)
      <4>1. CASE next <= Len(header) /\ header[next].pointer
        <5>1. fabric_ops'[r] = Append(fabric_ops[r], header[next])
          BY <1>4, <4>1
        <5>2. ~Generates(header[next], f)
          BY <1>1, <2>6, <4>1 DEF Pointers
        <5>. QED
          BY <1>1, <2>2, <5>1, <5>2 DEF Taken
      <4>2. CASE ~(next <= Len(header) /\ header[next].pointer)
        BY <1>4, <2>2, <4>2 DEF Taken
      <4>. QED
        BY <4>1, <4>2
    <3>. QED
      BY <2>1, <3>1, <3>2
  <2>. QED
    BY <2>5, <2>6
<1>. QED
  BY <1>4, <1>5

(* A run goes from one command to the next, or fails.                      *)
LEMMA Onward ==
  ASSUME LeadInv, NEW s \in Run, NEW to \in Control \ {"scan", "start"},
         pc' = [pc EXCEPT ![s] = to],
         \/ to = "exit" /\ pc[s] \notin {"done", "exit"}
         \/ to = "mkdir" /\ pc[s] = "start" /\ proto[s] \in Supported
         \/ to \in Early /\ pc[s] \in Early \ {"start"}
         \/ to \notin Early /\ Ended(s) /\ pc[s] \in Working
         \/ to = "fabric.c" /\ pc[s] = "scan" /\ i[s] > Len(header),
         kbuild' \cup kconfig' \subseteq kbuild \cup kconfig \cup {s},
         kbuild' # kbuild \/ kconfig' # kconfig => Ended(s) /\ to # "exit",
         UNCHANGED <<header, proto, scanVars>>
  PROVE  Found'
<1>1. /\ pc'[s] = to /\ pc[s] \in Control
      /\ \A r \in Run \ {s} : pc'[r] = pc[r] /\ (Live(r)' => Live(r))
  BY DEF LeadInv, Found, TcmInv, TcmTypeOK, Live
<1>2. to = "exit" => (Live(s)' <=> s \in kbuild \cup kconfig)
  BY <1>1 DEF Live, Working
<1>3. to = "exit" /\ Live(s)' => Ended(s)
  <2>1. s \in kbuild \cup kconfig => pc[s] \in {"ask kconfig", "done", "exit"}
    BY DEF LeadInv, Found, TcmInv, Asked
  <2>. QED
    BY <1>2, <2>1 DEF Ended, Early, Live
<1>4. to = "mkdir" => ~Ended(s)'
  BY <1>1 DEF Ended, Early
<1>5. Ended(s)' => Ended(s) \/ i[s] > Len(header)
  BY <1>1, <1>3, <1>4 DEF Ended
<1>6. Checked(s) /\ Scanned(s)
  BY DEF LeadInv, Found
<1>7. Checked(s)'
  <2>1. to = "exit" /\ Live(s)' => proto[s] \in Supported
    BY <1>3, <1>6 DEF Ended, Checked
  <2>2. to # "exit" => proto[s] \in Supported
    BY <1>6 DEF Checked, Ended, Early, Working
  <2>. QED
    BY <1>1, <2>1, <2>2 DEF Checked
<1>8. pc'[s] \in Early => pc[s] \in Early
  BY <1>1 DEF Early
<1>. QED
  BY <1>1, <1>5, <1>7, <1>8, ScanKept

LEMMA LeadFile ==
  ASSUME LeadInv, NEW r \in Run, NEW f \in FileName, NEW from \in Working, NEW to \in Working,
         Open(r, f, from, to) \/ Write(r, f, from, to), to # "scan",
         (from \in Early /\ to \in Early) \/ (from \notin Early \cup {"scan"} /\ to \notin Early)
  PROVE  Found'
<1>1. /\ pc[r] = from /\ (pc' = [pc EXCEPT ![r] = to] \/ pc' = [pc EXCEPT ![r] = "exit"])
      /\ UNCHANGED <<header, proto, scanVars, kbuild, kconfig>>
  BY DEF Open, Write, Goto
<1>2. from \notin Early \cup {"scan"} => Ended(r)
  BY <1>1 DEF Ended, Live
<1>3. from \notin {"start", "done", "exit"} /\ to \in Control \ {"scan", "start"}
  BY DEF Working
<1>4. CASE pc' = [pc EXCEPT ![r] = to]
  BY <1>1, <1>2, <1>3, <1>4, Onward
<1>5. CASE pc' = [pc EXCEPT ![r] = "exit"]
  BY <1>1, <1>3, <1>5, Onward DEF Control
<1>. QED
  BY <1>1, <1>4, <1>5

(* Two commands are both before the header is read, or both after.         *)
SameSide(from, to) ==
  /\ to # "scan"
  /\ (from \in Early /\ to \in Early) \/ (from \notin Early \cup {"scan"} /\ to \notin Early)

LEMMA LeadOpen ==
  ASSUME LeadInv, NEW r \in Run, NEW f \in FileName, NEW from \in Working, NEW to \in Working,
         Open(r, f, from, to), SameSide(from, to)
  PROVE  Found'
BY LeadFile DEF SameSide

LEMMA LeadWrite ==
  ASSUME LeadInv, NEW r \in Run, NEW f \in FileName, NEW from \in Working, NEW to \in Working,
         Write(r, f, from, to), SameSide(from, to)
  PROVE  Found'
BY LeadFile DEF SameSide

LEMMA LeadStep == LeadInv /\ [Next]_vars => LeadInv'
<1> SUFFICES ASSUME LeadInv, [Next]_vars
             PROVE  TcmInv' /\ Found'
  BY DEF LeadInv, Found
<1>0. TcmInv'
  BY StepInv DEF LeadInv, Found
<1>1. ASSUME NEW s \in Run, Step(s) \/ Stop(s) PROVE Found'
  <2>0. pc[s] \in Control
    BY DEF LeadInv, Found, TcmInv, TcmTypeOK
  <2>1. CASE Main(s) \/ CreateSubdir(s)
    <3>1. /\ UNCHANGED <<header, proto, scanVars, kbuild, kconfig>>
          /\ \/ pc[s] \in {"start", "mkdir"} /\ pc' = [pc EXCEPT ![s] = "exit"]
             \/ pc[s] = "start" /\ pc' = [pc EXCEPT ![s] = "mkdir"] /\ proto[s] \in Supported
             \/ pc[s] = "mkdir" /\ pc' = [pc EXCEPT ![s] = "base"]
      BY <2>1 DEF Main, CreateSubdir, Goto, treeVars
    <3>2. CASE pc[s] \in {"start", "mkdir"} /\ pc' = [pc EXCEPT ![s] = "exit"]
      BY <3>1, <3>2, Onward DEF Control
    <3>3. CASE pc[s] = "start" /\ pc' = [pc EXCEPT ![s] = "mkdir"] /\ proto[s] \in Supported
      BY <3>1, <3>3, Onward DEF Control
    <3>4. CASE pc[s] = "mkdir" /\ pc' = [pc EXCEPT ![s] = "base"]
      BY <3>1, <3>4, Onward DEF Control, Early
    <3>. QED
      BY <3>1, <3>2, <3>3, <3>4
  <2>2. CASE BuildBaseIncludes(s)
    <3>0. SameSide("base", "base write") /\ SameSide("base write", "header")
      BY DEF SameSide, Early
    <3>1. CASE Open(s, "base.h", "base", "base write")
      BY <3>0, <3>1, LeadOpen DEF FileName, Working, Control
    <3>2. CASE Write(s, "base.h", "base write", "header")
      BY <3>0, <3>2, LeadWrite DEF FileName, Working, Control
    <3>. QED
      BY <2>2, <3>1, <3>2 DEF BuildBaseIncludes
  <2>3. CASE DumpFabricOps(s)
    <3>1. CASE Open(s, "fabric.c", "fabric.c", "fabric.h")
      BY <3>1, LeadOpen DEF FileName, Working, Control, Early, SameSide
    <3>2. CASE Open(s, "fabric.h", "fabric.h", "fabric.c write")
      BY <3>2, LeadOpen DEF FileName, Working, Control, Early, SameSide
    <3>3. CASE Write(s, "fabric.c", "fabric.c write", "fabric.h write")
      BY <3>3, LeadWrite DEF FileName, Working, Control, Early, SameSide
    <3>4. CASE Write(s, "fabric.h", "fabric.h write", "configfs")
      BY <3>4, LeadWrite DEF FileName, Working, Control, Early, SameSide
    <3>. QED
      BY <2>3, <3>1, <3>2, <3>3, <3>4 DEF DumpFabricOps
  <2>4. CASE BuildConfigfs(s)
    <3>1. CASE Open(s, "configfs.c", "configfs", "configfs write")
      BY <3>1, LeadOpen DEF FileName, Working, Control, Early, SameSide
    <3>2. CASE Write(s, "configfs.c", "configfs write", "Makefile")
      BY <3>2, LeadWrite DEF FileName, Working, Control, Early, SameSide
    <3>. QED
      BY <2>4, <3>1, <3>2 DEF BuildConfigfs
  <2>5. CASE BuildKbuild(s)
    <3>1. CASE Open(s, "Makefile", "Makefile", "Makefile write")
      BY <3>1, LeadOpen DEF FileName, Working, Control, Early, SameSide
    <3>2. CASE Write(s, "Makefile", "Makefile write", "Kconfig")
      BY <3>2, LeadWrite DEF FileName, Working, Control, Early, SameSide
    <3>. QED
      BY <2>5, <3>1, <3>2 DEF BuildKbuild
  <2>6. CASE BuildKconfig(s)
    <3>1. CASE Open(s, "Kconfig", "Kconfig", "Kconfig write")
      BY <3>1, LeadOpen DEF FileName, Working, Control, Early, SameSide
    <3>2. CASE Write(s, "Kconfig", "Kconfig write", "ask kbuild")
      BY <3>2, LeadWrite DEF FileName, Working, Control, Early, SameSide
    <3>. QED
      BY <2>6, <3>1, <3>2 DEF BuildKconfig
  <2>7. CASE OpenHeader(s)
    <3>1. /\ pc[s] = "header" /\ UNCHANGED <<header, proto, process_fo, fabric_ops, kbuild, kconfig>>
          /\ i' = [i EXCEPT ![s] = 1]
          /\ pc' = [pc EXCEPT ![s] = "scan"] \/ pc' = [pc EXCEPT ![s] = "exit"]
      BY <2>7 DEF OpenHeader, Goto, treeVars
    <3>2. /\ i'[s] = 1 /\ i[s] = 0 /\ proto[s] \in Supported
          /\ pc'[s] \in {"scan", "exit"} /\ s \notin kbuild \cup kconfig
      BY <3>1 DEF LeadInv, Found, TcmInv, TcmTypeOK, Scanned, Checked, Early, Asked
    <3>3. (Scanned(s) /\ Checked(s))'
      <4>1. pc'[s] = "exit" => ~Live(s)'
        BY <3>1, <3>2 DEF Live, Working
      <4>2. ~Ended(s)' /\ pc'[s] \notin Early
        BY <3>2, <4>1 DEF Ended, Early
      <4>. QED
        BY <3>1, <3>2, <4>2 DEF Scanned, Checked
    <3>4. Counted(s)'
      <4>1. Counted(s)
        BY DEF LeadInv, Found
      <4>2. HeaderHasTable' = HeaderHasTable /\ fabric_ops'[s] = fabric_ops[s]
        BY <3>1 DEF HeaderHasTable, Pointers, Generates
      <4>3. \A f : Taken(s, f)' = Taken(s, f)
        BY <3>1 DEF Taken, Generates
      <4>4. \A f : Passed(s, f) = {} /\ Passed(s, f)' = {}
        <5>1. Len(header) \in Nat
          BY Options DEF LeadInv, Found, TcmInv
        <5>. QED
          BY <3>1, <3>2, <5>1 DEF Passed, Pointers
      <4>5. ~(i'[s] >= 2) /\ i[s] <= 1
        BY <3>2
      <4>6. \A f \in Fn : Cardinality(Taken(s, f)') = Cardinality(Passed(s, f)') \/ ~HeaderHasTable
        <5> SUFFICES ASSUME HeaderHasTable, NEW f \in Fn
                     PROVE  Cardinality(Taken(s, f)') = Cardinality(Passed(s, f)')
          OBVIOUS
        <5>1. Cardinality(Taken(s, f)) = Cardinality(Passed(s, f))
          BY <4>1 DEF Counted
        <5>. QED
          BY <4>3, <4>4, <5>1
      <4>7. fabric_ops'[s] = <<>>
        BY <4>1, <4>2, <4>5 DEF Counted
      <4>. QED
        BY <4>2, <4>5, <4>6, <4>7 DEF Counted
    <3>5. ASSUME NEW r \in Run, r # s PROVE (Counted(r) /\ Scanned(r) /\ Checked(r))'
      <4>1. pc'[r] = pc[r] /\ (Live(r)' => Live(r)) /\ i'[r] = i[r]
        BY <3>1, <3>5 DEF LeadInv, Found, TcmInv, TcmTypeOK, Live
      <4>2. Counted(r) /\ Scanned(r) /\ Checked(r)
        BY DEF LeadInv, Found
      <4>. QED
        BY <3>1, <4>1, <4>2, CountedKept DEF Scanned, Checked, Ended
    <3>. QED
      BY <3>3, <3>4, <3>5 DEF Found
  <2>8. CASE ScanLine(s)
    <3>1. /\ pc' = pc /\ UNCHANGED <<header, proto, kbuild, kconfig>> /\ pc[s] = "scan"
          /\ i'[s] = i[s] + 1
      BY <2>8 DEF ScanLine, treeVars, LeadInv, Found, TcmInv, TcmTypeOK
    <3>2. \A r \in Run : Live(r)' <=> Live(r)
      BY <3>1 DEF Live
    <3>3. ASSUME NEW r \in Run, r # s PROVE (Counted(r) /\ Scanned(r) /\ Checked(r))'
      <4>1. i'[r] = i[r] /\ process_fo'[r] = process_fo[r] /\ fabric_ops'[r] = fabric_ops[r]
        BY <2>8, <3>3 DEF ScanLine, LeadInv, Found, TcmInv, TcmTypeOK
      <4>2. Counted(r) /\ Scanned(r) /\ Checked(r)
        BY DEF LeadInv, Found
      <4>. QED
        BY <3>1, <3>2, <4>1, <4>2, CountedKept DEF Scanned, Checked, Ended
    <3>4. Scanned(s)'
      <4>1. i[s] \in Nat /\ i[s] >= 1
        <5>1. Len(header) + 1 \in Nat /\ i[s] \in 0 .. Len(header) + 1
          BY Options DEF LeadInv, Found, TcmInv, TcmTypeOK
        <5>. QED
          BY <3>1, <5>1 DEF LeadInv, Found, Scanned
      <4>2. ~Ended(s)' /\ pc'[s] \notin Early
        BY <3>1 DEF Ended, Early
      <4>3. i'[s] >= 1
        BY <3>1, <4>1
      <4>. QED
        BY <4>2, <4>3 DEF Scanned
    <3>5. Checked(s)'
      BY <3>1, <3>2 DEF LeadInv, Found, Checked
    <3>. QED
      BY <2>8, <3>3, <3>4, <3>5, CountedScan DEF Found
  <2>9. CASE HeaderRead(s)
    BY <2>9, Onward DEF HeaderRead, Goto, treeVars, Control
  <2>10. CASE AddKbuild(s) \/ AddKconfig(s)
    <3>1. /\ pc[s] \in {"ask kbuild", "ask kconfig"} /\ UNCHANGED <<header, proto, scanVars>>
          /\ pc' = [pc EXCEPT ![s] = "ask kconfig"] \/ pc' = [pc EXCEPT ![s] = "done"]
          /\ kbuild' \cup kconfig' \subseteq kbuild \cup kconfig \cup {s}
      BY <2>10 DEF AddKbuild, AddKconfig, Goto
    <3>2. Ended(s) /\ pc[s] \in Working
      BY <3>1 DEF Ended, Live, Working, Control, Early
    <3>3. "ask kconfig" \in Control \ {"scan", "start"} /\ "done" \in Control \ {"scan", "start"}
          /\ "ask kconfig" \notin Early /\ "done" \notin Early
      BY DEF Control, Early
    <3>. QED
      BY <3>1, <3>2, <3>3, Onward
  <2>11. CASE Stop(s)
    BY <2>11, Onward DEF Stop, Goto, treeVars, Control
  <2>. QED
    BY <1>1, <2>1, <2>2, <2>3, <2>4, <2>5, <2>6, <2>7, <2>8, <2>9, <2>10, <2>11 DEF Step
<1>2. ASSUME UNCHANGED <<header, proto, pc, scanVars, kbuild, kconfig>> PROVE Found'
  <2> SUFFICES ASSUME NEW r \in Run PROVE (Counted(r) /\ Scanned(r) /\ Checked(r))'
    BY DEF Found
  <2>1. Counted(r) /\ Scanned(r) /\ Checked(r)
    BY DEF LeadInv, Found
  <2>. QED
    BY <1>2, <2>1, CountedKept DEF Scanned, Checked, Ended, Live, scanVars
<1>3. (\E n \in Name : Remove(n)) \/ UNCHANGED vars
        => UNCHANGED <<header, proto, pc, scanVars, kbuild, kconfig>>
  BY DEF Remove, vars, treeVars
<1>. QED
  BY <1>0, <1>1, <1>2, <1>3 DEF Next

(* An entry in Makefile or Kconfig leads to six whole files of one run     *)
(* that declare what they use and, for a header that has the table, define *)
(* each of its functions once, for every header, protocol and set of runs. *)
THEOREM EntriesLeadAlways == Spec => []EntriesLead
<1>1. ASSUME LeadInv PROVE EntriesLead
  <2> SUFFICES ASSUME NEW r \in kbuild \cup kconfig, r \notin removed, name[r] \notin pulled
               PROVE  /\ Complete(name[r]) /\ FieldsDeclared(name[r])
                      /\ HeaderHasTable => TableDefined(name[r])
    BY DEF EntriesLead
  <2>1. r \in Run /\ Live(r) /\ pc[r] \in {"ask kconfig", "done", "exit"}
    BY <1>1 DEF LeadInv, Found, TcmInv, TcmTypeOK, Asked, Live
  <2>2. ASSUME NEW f \in FileName PROVE file[name[r]][f] = <<r, "whole">>
    BY <1>1, <2>1, WholeAtEnd DEF LeadInv, Found, TcmInv, Staged
  <2>3. Complete(name[r])
    BY <2>2, PairIsNotMissing DEF Complete
  <2>4. proto[r] \in Supported
    BY <1>1, <2>1 DEF LeadInv, Found, Checked
  <2>5. ConfigfsUses(proto[r]) \subseteq Declares(proto[r]) /\ FabricUses(proto[r]) \subseteq Declares(proto[r])
    BY <2>4 DEF ConfigfsUses, FabricUses, Declares, Supported, Port
  <2>6. FieldsDeclared(name[r])
    <3>1. \A f \in FileName : ProtoOf(name[r], f) = proto[r]
      BY <2>2 DEF ProtoOf
    <3>. QED
      BY <2>5, <3>1 DEF FieldsDeclared, FileName
  <2>7. ASSUME HeaderHasTable, NEW f \in Fn PROVE Definitions(r, f) = 1
    <3>1. Counted(r) /\ i[r] > Len(header)
      BY <1>1, <2>1 DEF LeadInv, Found, Scanned, Ended, Early
    <3>2. Len(header) \in Nat /\ i[r] \in Nat
      <4>1. Len(header) \in Nat
        BY <1>1, Options DEF LeadInv, TcmInv
      <4>2. i[r] \in 0 .. Len(header) + 1
        BY <1>1, <2>1 DEF LeadInv, TcmInv, TcmTypeOK
      <4>. QED
        BY <4>1, <4>2
    <3>3. Passed(r, f) = Pointers(f)
      BY <3>1, <3>2 DEF Passed, Pointers
    <3>. QED
      BY <2>7, <3>1, <3>3 DEF Counted, HeaderHasTable, Definitions, Taken
  <2>8. HeaderHasTable => TableDefined(name[r])
    <3>1. file[name[r]]["fabric.c"][1] = r
      BY <2>2 DEF FileName
    <3>. QED
      BY <2>7, <3>1 DEF TableDefined
  <2>. QED
    BY <2>3, <2>6, <2>8
<1>2. Spec => []LeadInv
  BY LeadInit, LeadStep, PTL DEF Spec
<1>. QED
  BY <1>1, <1>2, PTL

----------------------------------------------------------------------------
(* The pointers a run has taken, in their order: the line read last is     *)
(* searched when process_fo is on, and it is on from the second line.      *)
LinesPassed(r) == {k \in PointerLines : k <= i[r]}

Ordered(r) ==
  header # <<>> /\ ~header[1].struct =>
    /\ i[r] >= 2 => process_fo[r]
    /\ Len(fabric_ops[r]) = Cardinality(LinesPassed(r))
    /\ \A k \in LinesPassed(r) :
         fabric_ops[r][Cardinality({l \in LinesPassed(r) : l <= k})] = header[k]

OpsInv == LeadInv /\ \A r \in Run : Ordered(r)

(* A line behind the others is counted last.                               *)
LEMMA RankAdd ==
  ASSUME NEW P \in SUBSET Nat, IsFiniteSet(P), NEW next \in Nat, \A k \in P : k < next
  PROVE  /\ Cardinality(P) \in Nat
         /\ Cardinality(P \cup {next}) = Cardinality(P) + 1
         /\ {l \in P \cup {next} : l <= next} = P \cup {next}
         /\ \A k \in P : /\ {l \in P \cup {next} : l <= k} = {l \in P : l <= k}
                         /\ Cardinality({l \in P : l <= k}) \in 1 .. Cardinality(P)
<1>1. next \notin P
  OBVIOUS
<1>2. Cardinality(P) \in Nat /\ Cardinality(P \cup {next}) = Cardinality(P) + 1
  BY <1>1, FS_CardinalityType, FS_AddElement
<1>3. ASSUME NEW k \in P
      PROVE  Cardinality({l \in P : l <= k}) \in 1 .. Cardinality(P)
  <2> DEFINE Q == {l \in P : l <= k}
  <2>1. Q \in SUBSET P /\ k \in Q
    OBVIOUS
  <2>2. IsFiniteSet(Q) /\ Cardinality(Q) <= Cardinality(P)
    BY <2>1, FS_Subset
  <2>3. Cardinality(Q) \in Nat /\ Cardinality(Q) # 0
    BY <2>1, <2>2, FS_CardinalityType, FS_EmptySet
  <2>. QED
    BY <1>2, <2>2, <2>3
<1>4. {l \in P \cup {next} : l <= next} = P \cup {next}
  <2>1. \A l \in P \cup {next} : l <= next
    OBVIOUS
  <2>. QED
    BY <2>1
<1>5. ASSUME NEW k \in P
      PROVE  {l \in P \cup {next} : l <= k} = {l \in P : l <= k}
  <2>1. k \in Nat /\ ~(next <= k)
    OBVIOUS
  <2>. QED
    BY <2>1
<1>. QED
  BY <1>2, <1>3, <1>4, <1>5

LEMMA LinesPassedFinite ==
  ASSUME TcmInv, NEW r \in Run
  PROVE  IsFiniteSet(LinesPassed(r)) /\ LinesPassed(r) \subseteq 2 .. Len(header)
         /\ Len(header) \in Nat
<1>1. Len(header) \in Nat
  BY Options DEF TcmInv
<1>2. IsFiniteSet(2 .. Len(header))
  BY <1>1, FS_Interval
<1>3. LinesPassed(r) \in SUBSET (2 .. Len(header))
  BY DEF LinesPassed, PointerLines
<1>. QED
  BY <1>1, <1>2, <1>3, FS_Subset

(* Nothing but the loop changes what was taken.                            *)
LEMMA OrderedKept ==
  ASSUME NEW r \in Run, Ordered(r), UNCHANGED header,
         i'[r] = i[r], process_fo'[r] = process_fo[r], fabric_ops'[r] = fabric_ops[r]
  PROVE  Ordered(r)'
<1>1. LinesPassed(r)' = LinesPassed(r)
  BY DEF LinesPassed, PointerLines
<1>. QED
  BY <1>1 DEF Ordered

LEMMA OrderedOpen ==
  ASSUME LeadInv, NEW r \in Run, Ordered(r), OpenHeader(r)
  PROVE  Ordered(r)'
<1>1. /\ i'[r] = 1 /\ i[r] = 0 /\ header' = header /\ fabric_ops' = fabric_ops
  BY DEF OpenHeader, LeadInv, Found, Scanned, Early, TcmInv, TcmTypeOK
<1>2. LinesPassed(r)' = {} /\ LinesPassed(r) = {}
  BY <1>1 DEF LinesPassed, PointerLines
<1>. QED
  BY <1>1, <1>2 DEF Ordered

LEMMA OrderedScan ==
  ASSUME LeadInv, NEW r \in Run, Ordered(r), ScanLine(r)
  PROVE  Ordered(r)'
<1> DEFINE next == i[r] + 1
           P == LinesPassed(r)
           n == Len(fabric_ops[r])
<1>1. /\ header \in Seq(Line) /\ Len(header) \in Nat /\ i[r] \in 1 .. Len(header)
      /\ fabric_ops[r] \in Seq(Line) /\ i'[r] = next /\ header' = header
  <2>1. header \in Seq(Line) /\ i \in [Run -> 0 .. Len(header) + 1] /\ fabric_ops[r] \in Seq(Line)
    BY Options DEF LeadInv, Found, TcmInv, TcmTypeOK, Line
  <2>2. i[r] >= 1 /\ i[r] <= Len(header)
    BY DEF LeadInv, Found, Scanned, ScanLine
  <2>. QED
    BY <2>1, <2>2 DEF ScanLine
<1>2. SUFFICES ASSUME header # <<>>, ~header[1].struct
               PROVE  /\ process_fo'[r]
                      /\ Len(fabric_ops'[r]) = Cardinality(LinesPassed(r)')
                      /\ \A k \in LinesPassed(r)' :
                           fabric_ops'[r][Cardinality({l \in LinesPassed(r)' : l <= k})]
                             = header[k]
  BY <1>1 DEF Ordered
<1>3. /\ i[r] >= 2 => process_fo[r]
      /\ n = Cardinality(P)
      /\ \A k \in P : fabric_ops[r][Cardinality({l \in P : l <= k})] = header[k]
  BY <1>2 DEF Ordered
<1>4. process_fo[r] \/ ~header[i[r]].struct
  <2>1. CASE i[r] = 1
    BY <1>2, <2>1
  <2>2. CASE i[r] # 1
    BY <1>1, <1>3, <2>2
  <2>. QED
    BY <2>1, <2>2
<1>5. process_fo'[r] /\ fabric_ops'[r] = IF next <= Len(header) /\ header[next].pointer
                                         THEN Append(fabric_ops[r], header[next])
                                         ELSE fabric_ops[r]
  BY <1>4 DEF ScanLine, LeadInv, Found, TcmInv, TcmTypeOK
<1>6. /\ P \in SUBSET Nat /\ IsFiniteSet(P) /\ next \in Nat /\ n \in Nat
      /\ \A k \in P : k < next
  BY <1>1, LinesPassedFinite DEF LeadInv, LinesPassed, PointerLines
<1>7. LinesPassed(r)' = {k \in PointerLines : k <= next}
  BY <1>1 DEF LinesPassed, PointerLines
<1>8. CASE next \in PointerLines
  <2>1. LinesPassed(r)' = P \cup {next}
    BY <1>1, <1>7, <1>8 DEF LinesPassed, PointerLines
  <2>2. fabric_ops'[r] = Append(fabric_ops[r], header[next])
    BY <1>5, <1>8 DEF PointerLines
  <2>3. /\ Len(fabric_ops'[r]) = n + 1 /\ fabric_ops'[r][n + 1] = header[next]
        /\ \A k \in 1 .. n : fabric_ops'[r][k] = fabric_ops[r][k]
    BY <1>1, <2>2
  <2> HIDE DEF P, n, next
  <2>4. /\ Cardinality(P \cup {next}) = n + 1
        /\ {l \in P \cup {next} : l <= next} = P \cup {next}
        /\ \A k \in P : /\ {l \in P \cup {next} : l <= k} = {l \in P : l <= k}
                        /\ Cardinality({l \in P : l <= k}) \in 1 .. n
    BY <1>3, <1>6, RankAdd
  <2>5. ASSUME NEW k \in P
        PROVE  fabric_ops'[r][Cardinality({l \in P \cup {next} : l <= k})] = header[k]
    BY <1>3, <2>3, <2>4
  <2>6. fabric_ops'[r][Cardinality({l \in P \cup {next} : l <= next})] = header[next]
    BY <2>3, <2>4
  <2>. QED
    BY <1>5, <2>1, <2>3, <2>4, <2>5, <2>6
<1>9. CASE next \notin PointerLines
  <2>1. LinesPassed(r)' = P
    BY <1>1, <1>7, <1>9 DEF LinesPassed, PointerLines
  <2>2. fabric_ops'[r] = fabric_ops[r]
    BY <1>1, <1>5, <1>9 DEF PointerLines
  <2>. QED
    BY <1>3, <1>5, <2>1, <2>2
<1>. QED
  BY <1>8, <1>9

(* The pointers are taken in the header's order, whatever the runs do.     *)
THEOREM OpsInvariance == Spec => []OpsInv
<1>1. Init => OpsInv
  <2>1. SUFFICES ASSUME Init, NEW r \in Run PROVE Ordered(r)
    BY LeadInit DEF OpsInv
  <2>2. i[r] = 0 /\ fabric_ops[r] = <<>>
    BY <2>1 DEF Init
  <2>3. LinesPassed(r) = {}
    BY <2>2 DEF LinesPassed, PointerLines
  <2>. QED
    BY <2>2, <2>3, FS_EmptySet DEF Ordered
<1>2. OpsInv /\ LeadInv' /\ [Next]_vars => OpsInv'
  <2>1. SUFFICES ASSUME OpsInv, LeadInv', [Next]_vars, NEW r \in Run PROVE Ordered(r)'
    BY DEF OpsInv
  <2>2. LeadInv /\ Ordered(r)
    BY <2>1 DEF OpsInv
  <2>3. CASE UNCHANGED <<header, scanVars>>
    BY <2>2, <2>3, OrderedKept DEF scanVars
  <2>4. ASSUME NEW s \in Run, OpenHeader(s) \/ ScanLine(s) PROVE Ordered(r)'
    <3>1. CASE s = r
      BY <2>2, <2>4, <3>1, OrderedOpen, OrderedScan
    <3>2. CASE s # r
      <4>1. /\ header' = header /\ i'[r] = i[r] /\ process_fo'[r] = process_fo[r]
            /\ fabric_ops'[r] = fabric_ops[r]
        BY <2>2, <2>4, <3>2 DEF OpenHeader, ScanLine, LeadInv, TcmInv, TcmTypeOK
      <4>. QED
        BY <2>2, <4>1, OrderedKept
    <3>. QED
      BY <3>1, <3>2
  <2>5. \/ \E s \in Run : OpenHeader(s) \/ ScanLine(s)
        \/ UNCHANGED <<header, scanVars>>
    <3>1. ASSUME NEW s \in Run, Step(s), ~OpenHeader(s), ~ScanLine(s)
          PROVE  UNCHANGED <<header, scanVars>>
      <4>1. CASE Main(s) \/ CreateSubdir(s) \/ HeaderRead(s) \/ AddKbuild(s) \/ AddKconfig(s)
        BY <4>1 DEF Main, CreateSubdir, HeaderRead, AddKbuild, AddKconfig
      <4>2. CASE \/ BuildBaseIncludes(s) \/ DumpFabricOps(s) \/ BuildConfigfs(s)
                 \/ BuildKbuild(s) \/ BuildKconfig(s)
        <5>1. \E f, from, to : Open(s, f, from, to) \/ Write(s, f, from, to)
          BY <4>2 DEF BuildBaseIncludes, DumpFabricOps, BuildConfigfs, BuildKbuild,
             BuildKconfig
        <5>. QED
          BY <5>1 DEF Open, Write
      <4>. QED
        BY <3>1, <4>1, <4>2 DEF Step
    <3>2. ASSUME NEW s \in Run, Stop(s) PROVE UNCHANGED <<header, scanVars>>
      BY <3>2 DEF Stop
    <3>3. ASSUME NEW n \in Name, Remove(n) PROVE UNCHANGED <<header, scanVars>>
      BY <3>3 DEF Remove
    <3>4. UNCHANGED vars => UNCHANGED <<header, scanVars>>
      BY DEF vars
    <3>. QED
      BY <2>1, <3>1, <3>2, <3>3, <3>4 DEF Next
  <2>. QED
    BY <2>3, <2>4, <2>5
<1>3. Spec => []LeadInv
  BY LeadInit, LeadStep, PTL DEF Spec
<1>. QED
  BY <1>1, <1>2, <1>3, PTL DEF Spec

(* A run that has read the header has taken each of its pointers, in their *)
(* order.                                                                  *)
THEOREM OpsFoundAlways == Spec => []OpsFound
<1>1. OpsInv => OpsFound
  <2>1. SUFFICES ASSUME OpsInv, NEW r \in Run,
                        pc[r] \notin {"start", "mkdir", "base", "base write", "header",
                                      "scan", "exit"},
                        header # <<>>, ~header[1].struct
                 PROVE  /\ Len(fabric_ops[r]) = Cardinality(PointerLines)
                        /\ \A k \in PointerLines :
                             fabric_ops[r][Cardinality({l \in PointerLines : l <= k})]
                               = header[k]
    BY DEF OpsFound
  <2>2. LeadInv /\ TcmInv /\ Ordered(r)
    BY <2>1 DEF OpsInv, LeadInv
  <2>3. Ended(r)
    <3>1. pc[r] \in Control
      BY <2>2 DEF TcmInv, TcmTypeOK
    <3>. QED
      BY <2>1, <3>1 DEF Ended, Live, Working, Early
  <2>4. i[r] > Len(header) /\ i[r] \in Nat
    BY <2>2, <2>3, LinesPassedFinite DEF LeadInv, Found, Scanned, TcmInv, TcmTypeOK
  <2>5. LinesPassed(r) = PointerLines
    BY <2>2, <2>4, LinesPassedFinite DEF LinesPassed, PointerLines
  <2>. QED
    BY <2>1, <2>2, <2>5 DEF Ordered
<1>. QED
  BY <1>1, OpsInvariance, PTL
=============================================================================

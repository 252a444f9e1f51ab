----------------------------- MODULE TcmBuilder -----------------------------
(***************************************************************************)
(* target/tcm_mod_builder.py of the kernel documentation: the script that  *)
(* writes the skeleton of a target fabric module into a kernel tree.       *)
(*                                                                         *)
(* A run makes drivers/target/<name>, looks for function pointers in       *)
(* target_core_fabric.h, writes six files, and, when the user says so,     *)
(* appends entries to drivers/target/Makefile and drivers/target/Kconfig.  *)
(* It ends wherever an exception or Ctrl-C meets it.  Several runs may     *)
(* work on the same tree; the user may remove the directory of a module.   *)
(*                                                                         *)
(* Of a file is kept which run opened it last and how much of it was       *)
(* written; what is in it follows from the run's protocol (the names of    *)
(* the port in every file) and from the pointers it found (the functions   *)
(* of fabric.c and fabric.h).                                              *)
(***************************************************************************)
EXTENDS Naturals, Sequences, FiniteSets

CONSTANTS
  Run,          \* runs of the script
  Name,         \* names of modules
  Lower,        \* modname.lower()
  Proto,        \* values of -p
  Fn,           \* functions of the ops table that come from the header
  Setting,      \* headers and options of runs to look at
  NoRun         \* owner of what no run has made

Supported == {"FC", "SAS", "iSCSI"}
FabricName == "get_fabric_name"

(* A line of the header: does it open struct target_core_fabric_ops, does  *)
(* it hold a function pointer, which functions' names does it match?       *)
ASSUME TcmAssumption ==
  /\ Lower \in [Name -> Name] /\ \A n \in Name : Lower[Lower[n]] = Lower[n]
  /\ Setting \subseteq [header : Seq([struct : BOOLEAN, pointer : BOOLEAN, matches : SUBSET Fn]),
                       name : [Run -> Name], proto : [Run -> Proto]]
  /\ NoRun \notin Run

VARIABLES
  header,       \* the lines of target_core_fabric.h
  name, proto,  \* the options of each run
  pc,           \* where a run is
  i,            \* the line it has read
  process_fo,   \* process_fo, FALSE for 0
  fabric_ops,   \* the lines it has taken
  owner,        \* the run that made drivers/target/<name>, or NoRun
  file,         \* the files there: <<run, how much>>, Missing if there is none
  kbuild,       \* runs that appended to drivers/target/Makefile
  kconfig,      \* runs that appended to drivers/target/Kconfig
  removed,      \* history: runs whose module the user has removed since
  pulled        \* history: names removed while a run was at work on them

treeVars == <<owner, file, kbuild, kconfig>>
scanVars == <<i, process_fo, fabric_ops>>
history == <<removed, pulled>>
vars == <<header, name, proto, pc, scanVars, treeVars, history>>

FileName == {"base.h", "fabric.c", "fabric.h", "configfs.c", "Makefile", "Kconfig"}
Missing == <<>>
Amount == {"empty", "part", "whole"}
Control == {"start", "mkdir", "base", "base write", "header", "scan", "fabric.c",
            "fabric.h", "fabric.c write", "fabric.h write", "configfs", "configfs write",
            "Makefile", "Makefile write", "Kconfig", "Kconfig write",
            "ask kbuild", "ask kconfig", "done", "exit"}

TcmTypeOK ==
  /\ [header |-> header, name |-> name, proto |-> proto] \in Setting
  /\ pc \in [Run -> Control]
  /\ i \in [Run -> 0 .. Len(header) + 1] /\ process_fo \in [Run -> BOOLEAN]
  /\ fabric_ops \in [Run -> Seq([struct : BOOLEAN, pointer : BOOLEAN, matches : SUBSET Fn])]
  /\ owner \in [Name -> Run \cup {NoRun}]
  /\ file \in [Name -> [FileName -> (Run \X Amount) \cup {Missing}]]
  /\ kbuild \subseteq Run /\ kconfig \subseteq Run
  /\ removed \subseteq Run /\ pulled \subseteq Name

NoFiles == [f \in FileName |-> Missing]

Init ==
  /\ \E s \in Setting : header = s.header /\ name = s.name /\ proto = s.proto
  /\ pc = [r \in Run |-> "start"]
  /\ i = [r \in Run |-> 0] /\ process_fo = [r \in Run |-> FALSE]
  /\ fabric_ops = [r \in Run |-> <<>>]
  /\ owner = [n \in Name |-> NoRun] /\ file = [n \in Name |-> NoFiles]
  /\ kbuild = {} /\ kconfig = {} /\ removed = {} /\ pulled = {}

IsDir(n) == owner[n] # NoRun

Goto(r, place) == pc' = [pc EXCEPT ![r] = place]

----------------------------------------------------------------------------
(* main: the protocol is checked before anything is made; isdir            *)
Main(r) ==
  /\ pc[r] = "start"
  /\ Goto(r, IF proto[r] \notin Supported \/ IsDir(name[r]) THEN "exit" ELSE "mkdir")
  /\ UNCHANGED <<header, name, proto, scanVars, treeVars, history>>

(* Mutant of CreateSubdir: a directory that is there by now is taken.      *)
CreateSubdirAnyway(r) ==
  /\ pc[r] = "mkdir"
  /\ owner' = [owner EXCEPT ![name[r]] = r]
  /\ Goto(r, "base")
  /\ UNCHANGED <<header, name, proto, scanVars, file, kbuild, kconfig, history>>

(* os.mkdir raises OSError when another run has come first.                *)
CreateSubdir(r) ==
  /\ pc[r] = "mkdir"
  /\ IF IsDir(name[r])
     THEN Goto(r, "exit") /\ UNCHANGED owner
     ELSE /\ owner' = [owner EXCEPT ![name[r]] = r]
          /\ Goto(r, "base")
  /\ UNCHANGED <<header, name, proto, scanVars, file, kbuild, kconfig, history>>

(* fabric_mod_port, which the base include of the protocol sets            *)
Port(p) == IF p = "FC" THEN "lport" ELSE "tport"

(* p = open(f, 'w'), which raises IOError without the directory            *)
Open(r, f, from, to) ==
  /\ pc[r] = from
  /\ IF IsDir(name[r])
     THEN file' = [file EXCEPT ![name[r]][f] = <<r, "empty">>] /\ Goto(r, to)
     ELSE Goto(r, "exit") /\ UNCHANGED file
  /\ UNCHANGED <<header, name, proto, scanVars, owner, kbuild, kconfig, history>>

(* Mutant of Write: its error is not noticed.                              *)
WriteUnchecked(r, f, from, to) ==
  LET n == name[r] IN
  /\ pc[r] = from
  /\ \E much \in {"part", "whole"} :
       file' = IF file[n][f] = Missing THEN file
               ELSE [file EXCEPT ![n][f] = <<@[1], IF @[1] = r THEN much ELSE "part">>]
  /\ Goto(r, to)
  /\ UNCHANGED <<header, name, proto, scanVars, owner, kbuild, kconfig, history>>

(* p.write(buf), p.close(): all of it, or part of it and an IOError.  What *)
(* is written to a file that was removed is lost; in one that another run  *)
(* has opened since, the two texts mix.                                    *)
Write(r, f, from, to) ==
  LET n == name[r] IN
  /\ pc[r] = from
  /\ \/ /\ file' = CASE file[n][f] = Missing -> file
                     [] file[n][f] # Missing /\ file[n][f][1] = r ->
                          [file EXCEPT ![n][f] = <<r, "whole">>]
                     [] OTHER -> [file EXCEPT ![n][f] = <<@[1], "part">>]
        /\ Goto(r, to)
     \/ /\ file' = IF file[n][f] = Missing THEN file
                   ELSE [file EXCEPT ![n][f] = <<@[1], "part">>]
        /\ Goto(r, "exit")
  /\ UNCHANGED <<header, name, proto, scanVars, owner, kbuild, kconfig, history>>

(* Mutant of Declares: the iSCSI header's struct for every protocol.       *)
DeclaresNoWwpn(p) == {Port(p)} \X {"tpgt", "name", "wwn"}

(* The fields base.h declares for the port of a protocol.                  *)
Declares(p) ==
  {Port(p)} \X ({"tpgt", "name", "wwn"} \cup IF p = "iSCSI" THEN {} ELSE {"wwpn"})

(* tcm_mod_build_FC_include, _SAS_include, _iSCSI_include                  *)
BuildBaseIncludes(r) ==
  \/ Open(r, "base.h", "base", "base write")
  \/ Write(r, "base.h", "base write", "header")

----------------------------------------------------------------------------
(* tcm_mod_scan_fabric_ops: open, and the first readline                   *)
OpenHeader(r) ==
  /\ pc[r] = "header"
  /\ i' = [i EXCEPT ![r] = 1]
  /\ \/ Goto(r, "scan")
     \/ Goto(r, "exit")
  /\ UNCHANGED <<header, name, proto, process_fo, fabric_ops, treeVars, history>>

(* Mutant of ScanLine: the line is searched before the next one is read,   *)
(* and struct lines end the search.                                        *)
ScanLineOfStruct(r) ==
  /\ pc[r] = "scan" /\ i[r] <= Len(header)
  /\ process_fo' = [process_fo EXCEPT ![r] = header[i[r]].struct]
  /\ fabric_ops' = IF process_fo[r] /\ header[i[r]].pointer
                   THEN [fabric_ops EXCEPT ![r] = Append(@, header[i[r]])]
                   ELSE fabric_ops
  /\ i' = [i EXCEPT ![r] = @ + 1]
  /\ UNCHANGED <<header, name, proto, pc, treeVars, history>>

(* Another mutant: the loop goes on once after the end of the file.        *)
ScanLinePastEnd(r) ==
  /\ pc[r] = "scan" /\ i[r] <= Len(header) + 1
  /\ i' = [i EXCEPT ![r] = @ + 1]
  /\ UNCHANGED <<header, name, proto, process_fo, fabric_ops, pc, treeVars, history>>

(* while line: struct lines at the very start are passed over; otherwise   *)
(* the next line is read, and taken when it holds a pointer.               *)
ScanLine(r) ==
  LET next == i[r] + 1 IN
  /\ pc[r] = "scan" /\ i[r] <= Len(header)
  /\ i' = [i EXCEPT ![r] = next]
  /\ IF ~process_fo[r] /\ header[i[r]].struct
     THEN UNCHANGED <<process_fo, fabric_ops>>
     ELSE /\ process_fo' = [process_fo EXCEPT ![r] = TRUE]
          /\ fabric_ops' = IF next <= Len(header) /\ header[next].pointer
                           THEN [fabric_ops EXCEPT ![r] = Append(@, header[next])]
                           ELSE fabric_ops
  /\ UNCHANGED <<header, name, proto, pc, treeVars, history>>

HeaderRead(r) ==
  /\ pc[r] = "scan" /\ i[r] > Len(header)
  /\ Goto(r, "fabric.c")
  /\ UNCHANGED <<header, name, proto, scanVars, treeVars, history>>

(* tcm_mod_dump_fabric_ops: both files are open before one is written.     *)
DumpFabricOps(r) ==
  \/ Open(r, "fabric.c", "fabric.c", "fabric.h")
  \/ Open(r, "fabric.h", "fabric.h", "fabric.c write")
  \/ Write(r, "fabric.c", "fabric.c write", "fabric.h write")
  \/ Write(r, "fabric.h", "fabric.h write", "configfs")

(* Does a line of fabric_ops make fabric.c define f?  The one that names   *)
(* the fabric makes it define nothing else.                                *)
Generates(line, f) ==
  /\ f \in line.matches
  /\ FabricName \in line.matches => f = FabricName

(* How often fabric.c defines f.                                           *)
Definitions(r, f) ==
  Cardinality({k \in DOMAIN fabric_ops[r] : Generates(fabric_ops[r][k], f)})

(* The fields of the port that configfs.c uses, and those of fabric.c.     *)
ConfigfsUses(p) ==
  {Port(p)} \X ({"tpgt", "wwn"} \cup IF p \in {"FC", "SAS"} THEN {"wwpn"} ELSE {})
FabricUses(p) == {Port(p)} \X {"tpgt", "name"}

(* tcm_mod_build_configfs, _kbuild, _kconfig                               *)
BuildConfigfs(r) ==
  \/ Open(r, "configfs.c", "configfs", "configfs write")
  \/ Write(r, "configfs.c", "configfs write", "Makefile")

BuildKbuild(r) ==
  \/ Open(r, "Makefile", "Makefile", "Makefile write")
  \/ Write(r, "Makefile", "Makefile write", "Kconfig")

BuildKconfig(r) ==
  \/ Open(r, "Kconfig", "Kconfig", "Kconfig write")
  \/ Write(r, "Kconfig", "Kconfig write", "ask kbuild")

----------------------------------------------------------------------------
(* The two questions, and tcm_mod_add_kbuild and tcm_mod_add_kconfig       *)
AddKbuild(r) ==
  /\ pc[r] = "ask kbuild"
  /\ kbuild' \in {kbuild, kbuild \cup {r}}
  /\ Goto(r, "ask kconfig")
  /\ UNCHANGED <<header, name, proto, scanVars, owner, file, kconfig, history>>

AddKconfig(r) ==
  /\ pc[r] = "ask kconfig"
  /\ kconfig' \in {kconfig, kconfig \cup {r}}
  /\ Goto(r, "done")
  /\ UNCHANGED <<header, name, proto, scanVars, owner, file, kbuild, history>>

(* Ctrl-C                                                                  *)
Stop(r) ==
  /\ pc[r] \notin {"done", "exit"}
  /\ Goto(r, "exit")
  /\ UNCHANGED <<header, name, proto, scanVars, treeVars, history>>

AtWork(n) == {r \in Run : name[r] = n /\ pc[r] \notin {"start", "mkdir", "done", "exit"}}

(* rm -r drivers/target/<name>                                             *)
Remove(n) ==
  /\ IsDir(n)
  /\ owner' = [owner EXCEPT ![n] = NoRun]
  /\ file' = [file EXCEPT ![n] = NoFiles]
  /\ removed' = removed \cup {owner[n]}
  /\ pulled' = IF AtWork(n) = {} THEN pulled ELSE pulled \cup {n}
  /\ UNCHANGED <<header, name, proto, pc, scanVars, kbuild, kconfig>>

Step(r) ==
  \/ Main(r) \/ CreateSubdir(r) \/ BuildBaseIncludes(r)
  \/ OpenHeader(r) \/ ScanLine(r) \/ HeaderRead(r) \/ DumpFabricOps(r)
  \/ BuildConfigfs(r) \/ BuildKbuild(r) \/ BuildKconfig(r)
  \/ AddKbuild(r) \/ AddKconfig(r)

Next ==
  \/ \E r \in Run : Step(r) \/ Stop(r)
  \/ \E n \in Name : Remove(n)

Spec == Init /\ [][Next]_vars

----------------------------------------------------------------------------
(* All files of a module are there and were written to the end.            *)
Complete(n) == \A f \in FileName : file[n][f] # Missing /\ file[n][f][2] = "whole"

(* The protocol of the run that wrote a file.                              *)
ProtoOf(n, f) == proto[file[n][f][1]]

(* configfs.c and fabric.c use the fields base.h declares, and fabric.c    *)
(* defines each function of configfs.c's table once.                       *)
FieldsDeclared(n) ==
  /\ ConfigfsUses(ProtoOf(n, "configfs.c")) \subseteq Declares(ProtoOf(n, "base.h"))
  /\ FabricUses(ProtoOf(n, "fabric.c")) \subseteq Declares(ProtoOf(n, "base.h"))
TableDefined(n) == \A f \in Fn : Definitions(file[n]["fabric.c"][1], f) = 1

(* The header has one pointer for each function of the table, behind its   *)
(* first line, which does not open the struct.                             *)
Pointers(f) == {k \in 2 .. Len(header) : header[k].pointer /\ Generates(header[k], f)}
HeaderHasTable ==
  /\ header # <<>> /\ ~header[1].struct
  /\ \A f \in Fn : Cardinality(Pointers(f)) = 1

(* The files of a directory come from one run, the one that made it,       *)
(* whatever runs are started: isdir and mkdir let one of them in.  Only a  *)
(* directory removed under a run may get files of two.                     *)
FilesOfOneRun ==
  \A n \in Name \ pulled : \A f \in FileName :
    file[n][f] # Missing => file[n][f][1] = owner[n]

(* A line appended to drivers/target/Makefile or Kconfig leads to a        *)
(* directory with a module that compiles: its six files are all there,     *)
(* and fit together.  Runs that failed or were stopped have added no line. *)
(* It takes a name in lower case, a header that has the table, and a user  *)
(* who does not remove the module.                                         *)
EntriesLead ==
  \A r \in kbuild \cup kconfig :
    LET n == name[r] IN
    Lower[n] = n /\ r \notin removed /\ n \notin pulled =>
      Complete(n) /\ FieldsDeclared(n) /\ (HeaderHasTable => TableDefined(n))

(* Two runs add the same line, to Makefile or to Kconfig, only if the      *)
(* module of one was removed, or their names differ in case.               *)
EntriesOnce ==
  \A added \in {kbuild, kconfig} : \A r, s \in added :
    r # s /\ name[r] = name[s] => removed \cap {r, s} # {}

(* A run takes the pointers of the whole header, in their order and each   *)
(* once, when the header does not begin with the struct: none of the       *)
(* struct's is lost to the loop that reads a line and looks at the next.   *)
PointerLines == {k \in 2 .. Len(header) : header[k].pointer}
OpsFound ==
  \A r \in Run :
    pc[r] \notin {"start", "mkdir", "base", "base write", "header", "scan", "exit"}
      /\ header # <<>> /\ ~header[1].struct
    => /\ Len(fabric_ops[r]) = Cardinality(PointerLines)
       /\ \A k \in PointerLines :
            fabric_ops[r][Cardinality({l \in PointerLines : l <= k})] = header[k]

(* What a run has written to the end stays as it is, until the user        *)
(* removes it: a second run does not overwrite a module.                   *)
ModuleKept ==
  [][\A n \in Name : Complete(n) /\ IsDir(n) =>
       file'[n] = file[n] \/ ~IsDir(n)' \/ n \in pulled]_vars
=============================================================================

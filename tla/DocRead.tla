------------------------------- MODULE DocRead -------------------------------
(***************************************************************************)
(* How the kernel documentation is read, build after build:                *)
(* sphinx/kerneldoc.py (the kernel-doc directive, which runs a script on   *)
(* C files), sphinx/kernel_include.py (kernel-include, which reads a file  *)
(* named by an environment variable), sphinx/cdomain.py (c:function and    *)
(* the inventory of C names), the labels of kernel-figure from             *)
(* sphinx/kfigure.py, and sphinx/load_config.py (a second configuration).  *)
(*                                                                         *)
(* Sphinx itself is external.  It keeps an environment from build to build *)
(* and reads those documents again that changed since they were read, or   *)
(* that depend on a file that changed or is gone, and all of them when a   *)
(* configuration value of the environment changed.  What a document        *)
(* depends on, the directives tell.  Documents are read side by side; a    *)
(* build that is stopped leaves the pages it has made and the environment  *)
(* it had begun with.                                                      *)
(***************************************************************************)
EXTENDS Naturals, FiniteSets

CONSTANTS
  Doc,          \* documents
  CFile,        \* C files
  Dir,          \* values of the environment variable of kernel-include
  Prohibited,   \* those of them that lead into /etc
  Name,         \* C functions and labels of figures
  Label,        \* those that are labels
  Text,         \* texts the documents may have
  NoText,       \* none has been read
  NoDoc,        \* a name's document when it has none
  MaxBuild,     \* bound: builds
  MaxEdit       \* bound: changes to texts, files and settings

(* Each directory has one file that is included; of /etc's it is not asked *)
(* whether it is there.                                                    *)
File == CFile \cup (Dir \ Prohibited)

(* A text has at most one kernel-doc directive, with the files its export  *)
(* patterns match, and one kernel-include; it describes some names.        *)
ASSUME DocReadAssumption ==
  /\ Text \subseteq [kdoc : SUBSET CFile, export : SUBSET CFile,
                     include : BOOLEAN, names : SUBSET Name]
  /\ \A t \in Text : Cardinality(t.kdoc) <= 1 /\ (t.kdoc = {} => t.export = {})
  /\ Label \subseteq Name /\ Prohibited \subseteq Dir /\ CFile \cap Dir = {}
  /\ NoText \notin Text /\ NoDoc \notin Doc /\ IsFiniteSet(Doc)
  /\ MaxBuild \in Nat /\ MaxEdit \in Nat

(* SPHINX_CONF: not set, or conf.py itself; a file; or a missing one.      *)
Extra == {"none", "file", "missing"}

VARIABLES
  text,         \* the text of each document
  there,        \* files that exist
  version,      \* how often each was written
  dir,          \* the environment variable
  extra,        \* SPHINX_CONF
  edits,        \* changes so far
  building, build,
  config,       \* the configuration values of this build
  env,          \* the environment of this build
  saved,        \* the one on disk
  pc,           \* where the reading of each document is
  reading,      \* the text being read
  part,         \* what its directives have returned so far
  page,         \* the doctrees on disk
  doubled       \* history: names two documents described

authorVars == <<text, there, version, dir, extra, edits>>
buildVars == <<building, build, config>>
readVars == <<pc, reading, part>>
vars == <<authorVars, buildVars, env, saved, readVars, page, doubled>>

Configs == {"conf.py", "conf.py and file"}
Steps == {"idle", "todo", "note", "run", "include", "names", "labels"}
(* Histories of a page: its script failed and may work now; a file of it   *)
(* changed while it was read; its build was stopped, and had another       *)
(* configuration than the builds before.                                   *)
Flaws == {"broken", "raced", "orphaned"}
Error == {<<>>}             \* an error message instead of the script's output
Failed == 0                 \* and instead of a file's version
Page == [exports : SUBSET CFile, kdoc : (SUBSET (CFile \X Nat)) \cup {Error},
         include : SUBSET (Dir \X Nat), config : Configs, flaws : SUBSET Flaws]

Environment ==
  [text : [Doc -> Text \cup {NoText}], deps : [Doc -> SUBSET File],
   changed : SUBSET Doc, inv : [Name -> Doc \cup {NoDoc}], config : Configs]

DocTypeOK ==
  /\ text \in [Doc -> Text] /\ there \subseteq File
  /\ version \in [File -> 0 .. MaxEdit + 1]
  /\ dir \in Dir /\ extra \in Extra /\ edits \in 0 .. MaxEdit
  /\ building \in BOOLEAN /\ build \in 0 .. MaxBuild /\ config \in Configs
  /\ env \in Environment /\ saved \in Environment
  /\ pc \in [Doc -> Steps] /\ reading \in [Doc -> Text \cup {NoText}]
  /\ part \in [Doc -> Page] /\ page \in [Doc -> Page]
  /\ doubled \subseteq Name

NoPage ==
  [exports |-> {}, kdoc |-> {}, include |-> {}, config |-> "conf.py", flaws |-> {}]
NoEnv ==
  [text |-> [d \in Doc |-> NoText], deps |-> [d \in Doc |-> {}], changed |-> {},
   inv |-> [n \in Name |-> NoDoc], config |-> "conf.py"]

Init ==
  /\ text \in [Doc -> Text] /\ there \in SUBSET File
  /\ version = [f \in File |-> 1]
  /\ dir \in Dir /\ extra = "none" /\ edits = 0
  /\ building = FALSE /\ build = 0 /\ config = "conf.py"
  /\ env = NoEnv /\ saved = NoEnv
  /\ pc = [d \in Doc |-> "idle"] /\ reading = [d \in Doc |-> NoText]
  /\ part = [d \in Doc |-> NoPage] /\ page = [d \in Doc |-> NoPage]
  /\ doubled = {}

----------------------------------------------------------------------------
(* loadConfig: what the second configuration sets takes the place of what  *)
(* conf.py sets; one that is missing is passed over.                       *)
LoadConfig == IF extra = "file" THEN "conf.py and file" ELSE "conf.py"

(* Mutant of ConfigChanged: the values of setup are not of kind 'env'.     *)
ConfigUnseen(e) == FALSE

(* kerneldoc_bin, kerneldoc_srctree and kerneldoc_verbosity are added with *)
(* rebuild 'env'.                                                          *)
ConfigChanged(e) == e.config # LoadConfig

(* Sphinx: the documents an environment finds to be out of date.           *)
Outdated(e) ==
  {d \in Doc : \/ e.text[d] = NoText \/ d \in e.changed
               \/ ~(e.deps[d] \subseteq there) \/ ConfigChanged(e)}

StartBuild ==
  /\ ~building /\ build < MaxBuild
  /\ building' = TRUE /\ build' = build + 1
  /\ config' = LoadConfig
  /\ env' = [env EXCEPT !.config = LoadConfig]
  /\ pc' = [d \in Doc |-> IF d \in Outdated(env) THEN "todo" ELSE "idle"]
  /\ UNCHANGED <<authorVars, saved, reading, part, page, doubled>>

(* A step of the reading of d.                                             *)
Goto(d, from, to) ==
  /\ building /\ pc[d] = from
  /\ pc' = [pc EXCEPT ![d] = to]

Note(d, files) == env' = [env EXCEPT !.deps[d] = @ \cup files]

(* Sphinx forgets what it knew of a document, and reads the text.          *)
ReadDoc(d) ==
  /\ Goto(d, "todo", "note")
  /\ env' = [env EXCEPT !.deps[d] = {},
                        !.inv = [n \in Name |-> IF @[n] = d THEN NoDoc ELSE @[n]]]
  /\ reading' = [reading EXCEPT ![d] = text[d]]
  /\ part' = [part EXCEPT ![d] = [NoPage EXCEPT !.config = config]]
  /\ UNCHANGED <<authorVars, buildVars, saved, page, doubled>>

Exports(d) == reading[d].export \cap there

(* Mutants of NoteDependencies: a file is noted only when it is there; the *)
(* export files are not noted.                                             *)
NoteFound(d) ==
  /\ Goto(d, "note", "run")
  /\ Note(d, (reading[d].kdoc \cap there) \cup Exports(d))
  /\ part' = [part EXCEPT ![d].exports = Exports(d)]
  /\ UNCHANGED <<authorVars, buildVars, saved, reading, page, doubled>>
NoteSourceOnly(d) ==
  /\ Goto(d, "note", "run")
  /\ Note(d, reading[d].kdoc)
  /\ part' = [part EXCEPT ![d].exports = Exports(d)]
  /\ UNCHANGED <<authorVars, buildVars, saved, reading, page, doubled>>

(* KernelDocDirective.run: env.note_dependency of the file, there or not,  *)
(* and of the files that match the export patterns, which are passed on.   *)
NoteDependencies(d) ==
  /\ Goto(d, "note", "run")
  /\ Note(d, reading[d].kdoc \cup Exports(d))
  /\ part' = [part EXCEPT ![d].exports = Exports(d)]
  /\ UNCHANGED <<authorVars, buildVars, saved, reading, page, doubled>>

Input(d) == reading[d].kdoc \cup part[d].exports
Versions(files) == {<<f, version[f]>> : f \in files}

(* The script is run.  Without one of its files, and whenever it cannot    *)
(* be started or fails for a reason of its own, an error is the result.    *)
RunKernelDoc(d) ==
  /\ Goto(d, "run", "include")
  /\ CASE reading[d].kdoc = {} -> UNCHANGED part
       [] reading[d].kdoc # {} /\ ~(Input(d) \subseteq there) ->
            part' = [part EXCEPT ![d].kdoc = Error]
       [] reading[d].kdoc # {} /\ Input(d) \subseteq there ->
            \/ part' = [part EXCEPT ![d].kdoc = Versions(Input(d))]
            \/ part' = [part EXCEPT ![d].kdoc = Error, ![d].flaws = @ \cup {"broken"}]
  /\ UNCHANGED <<authorVars, buildVars, env, saved, reading, page, doubled>>

What(path) == IF path \in Prohibited \/ path \notin there THEN Failed ELSE version[path]

(* Mutants of IncludeFile: the look for /etc is missing; the dependency is *)
(* recorded after the file was opened.                                     *)
IncludeAnyFile(d) ==
  /\ Goto(d, "include", "names")
  /\ IF reading[d].include
     THEN /\ part' = [part EXCEPT ![d].include = {<<dir, What(dir)>>}]
          /\ Note(d, {dir})
     ELSE UNCHANGED <<part, env>>
  /\ UNCHANGED <<authorVars, buildVars, saved, reading, page, doubled>>
IncludeFileFirst(d) ==
  /\ Goto(d, "include", "names")
  /\ IF reading[d].include
     THEN /\ part' = [part EXCEPT ![d].include = {<<dir, What(dir)>>}]
          /\ Note(d, IF What(dir) = Failed THEN {} ELSE {dir})
     ELSE UNCHANGED <<part, env>>
  /\ UNCHANGED <<authorVars, buildVars, saved, reading, page, doubled>>

(* KernelInclude.run: expandvars, the look for /etc, the record of the     *)
(* dependency, and then the file; or a severe message.                     *)
IncludeFile(d) ==
  /\ Goto(d, "include", "names")
  /\ IF reading[d].include
     THEN /\ part' = [part EXCEPT ![d].include = {<<dir, What(dir)>>}]
          /\ Note(d, {dir} \ Prohibited)
     ELSE UNCHANGED <<part, env>>
  /\ UNCHANGED <<authorVars, buildVars, saved, reading, page, doubled>>

Own(d, names) == env' = [env EXCEPT !.inv = [n \in Name |-> IF n \in names THEN d ELSE @[n]]]

(* Mutant of AddTargets: the names of a document that was read before are  *)
(* taken to be known.                                                      *)
AddTargetsOnce(d) ==
  /\ Goto(d, "names", "labels")
  /\ Own(d, IF env.text[d] = NoText THEN reading[d].names \ Label ELSE {})
  /\ UNCHANGED <<authorVars, buildVars, saved, reading, part, page, doubled>>

(* CObject.add_target_and_index: the inventory has the last document that  *)
(* described a name.                                                       *)
AddTargets(d) ==
  /\ Goto(d, "names", "labels")
  /\ Own(d, reading[d].names \ Label)
  /\ UNCHANGED <<authorVars, buildVars, saved, reading, part, page, doubled>>

(* doctree-read: add_kernel_figure_to_std_domain.  Sphinx then stores the  *)
(* time and writes the doctree.                                            *)
AddFigureLabels(d) ==
  /\ Goto(d, "labels", "idle")
  /\ env' = [env EXCEPT
       !.inv = [n \in Name |-> IF n \in reading[d].names \cap Label THEN d ELSE @[n]],
       !.text[d] = reading[d], !.changed = @ \ {d}]
  /\ page' = [page EXCEPT ![d] = part[d]]
  /\ reading' = [reading EXCEPT ![d] = NoText]
  /\ part' = [part EXCEPT ![d] = NoPage]
  /\ UNCHANGED <<authorVars, buildVars, saved, doubled>>

----------------------------------------------------------------------------
(* All is read, and the environment is written.                            *)
Describe(e, n) == {d \in Doc : e.text[d] # NoText /\ n \in e.text[d].names}
Finish ==
  /\ building /\ \A d \in Doc : pc[d] = "idle"
  /\ building' = FALSE
  /\ saved' = env
  /\ doubled' = doubled \cup {n \in Name : Cardinality(Describe(env, n)) > 1}
  /\ UNCHANGED <<authorVars, build, config, env, readVars, page>>

(* Ctrl-C, or an exception: the environment of the build is lost.          *)
Stop ==
  /\ building
  /\ building' = FALSE
  /\ env' = saved
  /\ pc' = [d \in Doc |-> "idle"]
  /\ reading' = [d \in Doc |-> NoText] /\ part' = [d \in Doc |-> NoPage]
  /\ page' = [d \in Doc |->
       IF page[d].config = config /\ config # saved.config
       THEN [page[d] EXCEPT !.flaws = @ \cup {"orphaned"}] ELSE page[d]]
  /\ UNCHANGED <<authorVars, build, config, saved, doubled>>

(* Documents that have used a file, and are not done with.                 *)
Used(d, f) ==
  \/ f \in Input(d) /\ pc[d] \in {"include", "names", "labels"}
  \/ f = dir /\ reading[d].include /\ pc[d] \in {"names", "labels"}
UsersOf(f) == {d \in Doc : reading[d] # NoText /\ Used(d, f)}
Race(docs) ==
  part' = [d \in Doc |-> IF d \in docs THEN [part[d] EXCEPT !.flaws = @ \cup {"raced"}]
                         ELSE part[d]]

Changes(e, docs) == [e EXCEPT !.changed = @ \cup docs]
Dependents(e, f) == {d \in Doc : f \in e.deps[d]}

MayEdit == edits < MaxEdit /\ edits' = edits + 1

(* The author, or a make, changes a text, writes or removes a file, sets   *)
(* the variable (between builds) or SPHINX_CONF.                           *)
EditText(d) ==
  /\ MayEdit
  /\ \E t \in Text \ {text[d]} : text' = [text EXCEPT ![d] = t]
  /\ env' = Changes(env, {d}) /\ saved' = Changes(saved, {d})
  /\ Race({d} \cap {e \in Doc : reading[e] # NoText})
  /\ UNCHANGED <<there, version, dir, extra, buildVars, pc, reading, page, doubled>>

WriteFile(f) ==
  /\ MayEdit
  /\ there' = there \cup {f} /\ version' = [version EXCEPT ![f] = @ + 1]
  /\ env' = Changes(env, Dependents(env, f))
  /\ saved' = Changes(saved, Dependents(saved, f))
  /\ Race(UsersOf(f))
  /\ UNCHANGED <<text, dir, extra, buildVars, pc, reading, page, doubled>>

RemoveFile(f) ==
  /\ MayEdit
  /\ f \in there /\ there' = there \ {f}
  /\ UNCHANGED <<text, version, dir, extra, buildVars, env, saved, readVars, page, doubled>>

Set ==
  /\ MayEdit
  /\ \/ ~building /\ dir' \in Dir \ {dir} /\ UNCHANGED extra
     \/ extra' \in Extra \ {extra} /\ UNCHANGED dir
  /\ UNCHANGED <<text, there, version, buildVars, env, saved, readVars, page, doubled>>

Read(d) ==
  \/ ReadDoc(d) \/ NoteDependencies(d) \/ RunKernelDoc(d)
  \/ IncludeFile(d) \/ AddTargets(d) \/ AddFigureLabels(d)

Next ==
  \/ StartBuild \/ Finish \/ Stop \/ Set
  \/ \E d \in Doc : Read(d) \/ EditText(d)
  \/ \E f \in File : WriteFile(f) \/ RemoveFile(f)

Spec == Init /\ [][Next]_vars

----------------------------------------------------------------------------
(* Is the page of d what its text would be read as now, with the same      *)
(* export files and the same directory as the last time?                   *)
IsCurrent(d) ==
  LET files == text[d].kdoc \cup page[d].exports IN
  /\ page[d].kdoc = IF text[d].kdoc = {} THEN {}
                    ELSE IF files \subseteq there THEN Versions(files) ELSE Error
  /\ text[d].include = (page[d].include # {})
  /\ \A i \in page[d].include : i[2] = What(i[1])
  /\ page[d].config = LoadConfig

(* Between builds, a document whose page is not what it would be read as   *)
(* is found to be out of date by the next build, whatever was edited,      *)
(* removed and written again, and whichever builds were stopped: the       *)
(* directives have told Sphinx all it must know, also those that failed.   *)
(* Not so for a script that failed while its files were there, a file that *)
(* changed after it was used by the very reading, a file that appeared     *)
(* later and matches a pattern, a variable that changed, and a page of a   *)
(* stopped build with another configuration.                               *)
StaleIsOutdated ==
  \A d \in Doc : ~building /\ ~IsCurrent(d) =>
    d \in Outdated(saved) \/ page[d].flaws # {}

(* The inventory that is kept leads from a name to a document that         *)
(* describes it, and has each name that is described, unless two documents *)
(* have described it: then the last one read may have dropped it.          *)
InventoryIsTrue ==
  \A n \in Name :
    /\ saved.inv[n] # NoDoc => saved.inv[n] \in Describe(saved, n)
    /\ Describe(saved, n) # {} /\ n \notin doubled => saved.inv[n] # NoDoc
=============================================================================

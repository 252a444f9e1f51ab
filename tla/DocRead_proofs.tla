---------------------------- MODULE DocRead_proofs ----------------------------
(***************************************************************************)
(* Proofs about module DocRead: types, the inventory of names, and that    *)
(* stale pages are found to be out of date, for any documents, files,      *)
(* texts and bounds.                                                       *)
(*                                                                         *)
(* A page may go two ways: into the environment on disk, when its build    *)
(* finishes, or on disk alone, when it is stopped.  So the invariant says  *)
(* the same of both environments: a document is marked, its page has a     *)
(* flaw, or the page is right and all it was made of is noted.             *)
(***************************************************************************)
EXTENDS DocRead, FiniteSetTheorems, TLAPS

(* Between builds the environment is that on disk, and nothing is read.    *)
Flow ==
  /\ ~building => env = saved /\ \A d \in Doc : pc[d] = "idle"
  /\ building => env.config = config
  /\ \A d \in Doc : reading[d] = NoText <=> pc[d] \in {"idle", "todo"}

----------------------------------------------------------------------------
(* The inventory.                                                          *)

(* d is not being read, and describes n.                                   *)
Known(d, n) ==
  pc[d] \in {"idle", "todo"} /\ env.text[d] # NoText /\ n \in env.text[d].names

(* A name leads to a document that describes it, or is about to.           *)
Owned ==
  \A n \in Name : \A d \in Doc : env.inv[n] = d =>
    Known(d, n) \/ (pc[d] = "labels" /\ n \in reading[d].names)

(* A name that is described is there.                                      *)
KnownIsThere ==
  \A d \in Doc, n \in Name : Known(d, n) /\ n \notin doubled => env.inv[n] # NoDoc

(* Only a name of two documents may be lost when its owner is read again.  *)
LostIsDoubled ==
  \A n \in Name : \A d, e \in Doc :
    d # e /\ env.inv[n] = e /\ pc[e] = "todo" /\ Known(d, n) => n \in doubled

(* What was added to the inventory stays until the document is read.       *)
Added ==
  \A d \in Doc : \A n \in Name \ Label :
    pc[d] = "labels" /\ n \in reading[d].names =>
      env.inv[n] \in Doc /\ pc[env.inv[n]] # "todo"

DoubledIsKept ==
  \A n \in Name : \A d, e \in Describe(saved, n) : d # e => n \in doubled

Inventory ==
  Owned /\ KnownIsThere /\ LostIsDoubled /\ Added /\ DoubledIsKept /\ InventoryIsTrue

----------------------------------------------------------------------------
(* The pages.                                                              *)

(* All that a page of a text was made of, and may have changed since.      *)
Included(p) == {i[1] : i \in p.include} \ Prohibited
MadeOf(p, t) == t.kdoc \cup p.exports

(* The page is what the text would be read as, with these files there, in  *)
(* these versions.                                                         *)
WhatAt(path, files, ver) ==
  IF path \in Prohibited \/ path \notin files THEN Failed ELSE ver[path]
RightInclude(p, t, files, ver) ==
  /\ t.include = (p.include # {})
  /\ \A i \in p.include : i[2] = WhatAt(i[1], files, ver)
RightAt(p, t, files, ver) ==
  /\ p.kdoc = IF t.kdoc = {} THEN {}
              ELSE IF MadeOf(p, t) \subseteq files THEN {<<f, ver[f]>> : f \in MadeOf(p, t)}
              ELSE Error
  /\ RightInclude(p, t, files, ver)

(* It is, and all it was made of is among deps.                            *)
Knows(deps, p, t, files, ver) ==
  RightAt(p, t, files, ver) /\ MadeOf(p, t) \cup Included(p) \subseteq deps

Match(e, d) ==
  Knows(e.deps[d], page[d], text[d], there, version) /\ page[d].config = e.config

(* An environment finds d out of date, whatever its configuration is.      *)
Marked(e, d) ==
  e.text[d] = NoText \/ d \in e.changed \/ ~(e.deps[d] \subseteq there)

Flawed(d) == page[d].flaws # {}

(* A document is read for a reason that lasts.                             *)
ReadForReason ==
  \A d \in Doc : pc[d] # "idle" => Marked(saved, d) \/ config # saved.config

SavedKnows ==
  \A d \in Doc :
    \/ Marked(saved, d) \/ Flawed(d) \/ Match(saved, d)
    \/ building /\ config # saved.config /\ page[d].config = config

EnvKnows ==
  building => \A d \in Doc : pc[d] = "idle" => Marked(env, d) \/ Flawed(d) \/ Match(env, d)

(* What the reading of d has come to.                                      *)
Raced(d) == part[d].flaws # {}
Noted(d) ==
  pc[d] \in {"run", "include", "names", "labels"} =>
    MadeOf(part[d], reading[d]) \subseteq env.deps[d]
RanAt(p, t, files, ver) ==
  \/ ~(MadeOf(p, t) \subseteq files)
  \/ p.kdoc = IF t.kdoc = {} THEN {} ELSE {<<f, ver[f]>> : f \in MadeOf(p, t)}
Ran(d) ==
  pc[d] \in {"include", "names", "labels"} =>
    Raced(d) \/ RanAt(part[d], reading[d], there, version)
IncludedAt(p, t, files, ver) ==
  ~(Included(p) \subseteq files) \/ RightInclude(p, t, files, ver)
IncludedSoFar(d) ==
  pc[d] \in {"names", "labels"} =>
    /\ \A i \in part[d].include : i[1] = dir /\ reading[d].include
    /\ Included(part[d]) \subseteq env.deps[d]
    /\ Raced(d) \/ IncludedAt(part[d], reading[d], there, version)
NotYet(d) ==
  /\ pc[d] \in {"note", "run"} => part[d].kdoc = {}
  /\ pc[d] \in {"note", "run", "include"} => part[d].include = {}
  /\ reading[d].kdoc = {} => part[d].exports = {}

ReadSoFar(d) ==
  /\ part[d].config = config /\ (Raced(d) \/ reading[d] = text[d])
  /\ NotYet(d) /\ Noted(d) /\ Ran(d) /\ IncludedSoFar(d)
Reads == \A d \in Doc : pc[d] \notin {"idle", "todo"} => ReadSoFar(d)

Pages == ReadForReason /\ SavedKnows /\ EnvKnows /\ Reads

(* Each version is an edit.                                                *)
Bounded == \A f \in File : version[f] <= edits + 1

Typed == DocTypeOK /\ Bounded
DocInv == Typed /\ Flow /\ Inventory /\ Pages

----------------------------------------------------------------------------
(* Types.                                                                  *)

LEMMA Texts ==
  ASSUME NEW t \in Text
  PROVE  /\ t.kdoc \in SUBSET CFile /\ t.export \in SUBSET CFile
         /\ t.include \in BOOLEAN /\ t.names \in SUBSET Name
         /\ t.kdoc = {} => t.export = {}
BY DocReadAssumption

LEMMA Pages0 == NoPage \in Page
BY DEF NoPage, Page, Configs, Error

LEMMA Env0 == NoEnv \in Environment
BY DEF NoEnv, Environment, Configs

LEMMA FilesOfText ==
  /\ \A t \in Text : t.kdoc \subseteq File /\ t.export \subseteq File
  /\ CFile \subseteq File
  /\ \A i \in Dir : i \notin Prohibited => i \in File
BY Texts DEF File

LEMMA Loaded == LoadConfig \in Configs
BY DEF LoadConfig, Configs

(* The reading of a text that is there.                                    *)
LEMMA ReadText ==
  ASSUME DocTypeOK, Flow, NEW d \in Doc, pc[d] \notin {"idle", "todo"}
  PROVE  /\ reading[d] \in Text /\ Input(d) \subseteq CFile /\ Input(d) \subseteq File
         /\ Versions(Input(d)) \in SUBSET (CFile \X Nat)
<1>1. reading[d] \in Text
  BY DEF DocTypeOK, Flow
<1>2. part[d].exports \subseteq CFile
  BY DEF DocTypeOK, Page
<1>3. Input(d) \subseteq CFile
  BY <1>1, <1>2, Texts DEF Input
<1>4. \A f \in CFile : version[f] \in Nat
  BY FilesOfText, DocReadAssumption DEF DocTypeOK
<1>. QED
  BY <1>1, <1>3, <1>4, FilesOfText DEF Versions

(* The environment's parts.                                                *)
LEMMA EnvParts ==
  ASSUME NEW e \in Environment
  PROVE  /\ e.text \in [Doc -> Text \cup {NoText}] /\ e.deps \in [Doc -> SUBSET File]
         /\ e.changed \in SUBSET Doc /\ e.inv \in [Name -> Doc \cup {NoDoc}]
         /\ e.config \in Configs
BY DEF Environment

LEMMA PageParts ==
  ASSUME NEW p \in Page
  PROVE  /\ p.exports \in SUBSET CFile /\ p.kdoc \in (SUBSET (CFile \X Nat)) \cup {Error}
         /\ p.include \in SUBSET (Dir \X Nat) /\ p.config \in Configs
         /\ p.flaws \in SUBSET Flaws
BY DEF Page

LEMMA TypeInit == Init => Typed
<1> SUFFICES ASSUME Init PROVE Typed
  OBVIOUS
<1>1. text \in [Doc -> Text] /\ there \subseteq File /\ version \in [File -> 0 .. MaxEdit + 1]
  BY DocReadAssumption DEF Init
<1>2. page \in [Doc -> Page] /\ part \in [Doc -> Page] /\ env \in Environment /\ saved \in Environment
  BY Pages0, Env0 DEF Init
<1>3. dir \in Dir /\ extra \in Extra /\ edits \in 0 .. MaxEdit /\ building \in BOOLEAN
        /\ build \in 0 .. MaxBuild /\ config \in Configs /\ doubled \subseteq Name
  <2>1. MaxBuild \in Nat /\ MaxEdit \in Nat
    BY DocReadAssumption
  <2>2. edits \in 0 .. MaxEdit /\ build \in 0 .. MaxBuild
    BY <2>1 DEF Init
  <2>3. dir \in Dir /\ extra \in Extra /\ config \in Configs /\ building \in BOOLEAN
        /\ doubled \subseteq Name
    BY DEF Init, Extra, Configs
  <2>. QED
    BY <2>2, <2>3
<1>4. pc \in [Doc -> Steps] /\ reading \in [Doc -> Text \cup {NoText}]
  BY DEF Init, Steps
<1>5. Bounded
  BY DEF Init, Bounded
<1>. QED
  BY <1>1, <1>2, <1>3, <1>4, <1>5 DEF Typed, DocTypeOK

----------------------------------------------------------------------------
(* What the actions do to the environment, part by part.                   *)

LEMMA StartEffect ==
  ASSUME DocTypeOK, StartBuild
  PROVE  /\ env'.text = env.text /\ env'.deps = env.deps /\ env'.changed = env.changed
         /\ env'.inv = env.inv /\ env'.config = LoadConfig /\ env' \in Environment
BY Loaded DEF DocTypeOK, Environment, StartBuild

LEMMA ReadEffect ==
  ASSUME DocTypeOK, NEW d \in Doc, ReadDoc(d)
  PROVE  /\ env'.text = env.text /\ env'.deps = [env.deps EXCEPT ![d] = {}]
         /\ env'.changed = env.changed /\ env'.config = env.config
         /\ env'.inv = [n \in Name |-> IF env.inv[n] = d THEN NoDoc ELSE env.inv[n]]
         /\ env' \in Environment
BY DEF DocTypeOK, Environment, ReadDoc

LEMMA NoteEffect ==
  ASSUME DocTypeOK, NEW d \in Doc, NEW files \in SUBSET File, Note(d, files)
  PROVE  /\ env'.text = env.text /\ env'.deps = [env.deps EXCEPT ![d] = @ \cup files]
         /\ env'.changed = env.changed /\ env'.config = env.config
         /\ env'.inv = env.inv /\ env' \in Environment
BY DEF DocTypeOK, Environment, Note

LEMMA OwnEffect ==
  ASSUME DocTypeOK, NEW d \in Doc, NEW names, Own(d, names)
  PROVE  /\ env'.text = env.text /\ env'.deps = env.deps
         /\ env'.changed = env.changed /\ env'.config = env.config
         /\ env'.inv = [n \in Name |-> IF n \in names THEN d ELSE env.inv[n]]
         /\ env' \in Environment
BY DEF DocTypeOK, Environment, Own

LEMMA LabelEffect ==
  ASSUME DocTypeOK, NEW d \in Doc, AddFigureLabels(d)
  PROVE  /\ env'.text = [env.text EXCEPT ![d] = reading[d]] /\ env'.deps = env.deps
         /\ env'.changed = env.changed \ {d} /\ env'.config = env.config
         /\ env'.inv = [n \in Name |-> IF n \in reading[d].names \cap Label THEN d ELSE env.inv[n]]
         /\ env' \in Environment
<1>1. env.text \in [Doc -> Text \cup {NoText}] /\ reading[d] \in Text \cup {NoText}
  BY DEF DocTypeOK, Environment
<1>2. /\ env'.text = [env.text EXCEPT ![d] = reading[d]] /\ env'.deps = env.deps
      /\ env'.changed = env.changed \ {d} /\ env'.config = env.config
      /\ env'.inv = [n \in Name |-> IF n \in reading[d].names \cap Label THEN d ELSE env.inv[n]]
  BY <1>1 DEF DocTypeOK, Environment, AddFigureLabels
<1>3. env' \in Environment
  BY <1>1 DEF DocTypeOK, Environment, AddFigureLabels
<1>. QED
  BY <1>2, <1>3

LEMMA ChangesEffect ==
  ASSUME NEW e \in Environment, NEW docs \in SUBSET Doc
  PROVE  /\ Changes(e, docs).text = e.text /\ Changes(e, docs).deps = e.deps
         /\ Changes(e, docs).changed = e.changed \cup docs
         /\ Changes(e, docs).config = e.config /\ Changes(e, docs).inv = e.inv
         /\ Changes(e, docs) \in Environment
BY DEF Environment, Changes

(* A page of which a field is set.                                         *)
LEMMA PartSet ==
  ASSUME DocTypeOK, NEW d \in Doc
  PROVE  /\ \A v \in SUBSET CFile : [part EXCEPT ![d].exports = v] \in [Doc -> Page]
         /\ \A v \in (SUBSET (CFile \X Nat)) \cup {Error} :
              [part EXCEPT ![d].kdoc = v] \in [Doc -> Page]
         /\ [part EXCEPT ![d].kdoc = Error, ![d].flaws = @ \cup {"broken"}] \in [Doc -> Page]
         /\ \A v \in SUBSET (Dir \X Nat) : [part EXCEPT ![d].include = v] \in [Doc -> Page]
         /\ [part EXCEPT ![d] = NoPage] \in [Doc -> Page]
         /\ \A v \in Configs : [part EXCEPT ![d] = [NoPage EXCEPT !.config = v]] \in [Doc -> Page]
<1>1. part \in [Doc -> Page]
  BY DEF DocTypeOK
<1>2. \A v \in Configs : [NoPage EXCEPT !.config = v] \in Page
  BY Pages0 DEF Page
<1>3. \A v \in SUBSET CFile : [part[d] EXCEPT !.exports = v] \in Page
  BY <1>1 DEF Page
<1>4. \A v \in (SUBSET (CFile \X Nat)) \cup {Error} : [part[d] EXCEPT !.kdoc = v] \in Page
  BY <1>1 DEF Page
<1>5. [part[d] EXCEPT !.kdoc = Error, !.flaws = @ \cup {"broken"}] \in Page
  <2>1. [part[d] EXCEPT !.kdoc = Error] \in Page
    BY <1>4
  <2>2. \A q \in Page : [q EXCEPT !.flaws = @ \cup {"broken"}] \in Page
    BY DEF Page, Flaws
  <2>3. [part[d] EXCEPT !.kdoc = Error, !.flaws = @ \cup {"broken"}]
          = [[part[d] EXCEPT !.kdoc = Error] EXCEPT !.flaws = @ \cup {"broken"}]
    OBVIOUS
  <2>. QED
    BY <2>1, <2>2, <2>3
<1>6. \A v \in SUBSET (Dir \X Nat) : [part[d] EXCEPT !.include = v] \in Page
  BY <1>1 DEF Page
<1>. QED
  BY <1>1, <1>2, <1>3, <1>4, <1>5, <1>6, Pages0

LEMMA RaceType ==
  ASSUME DocTypeOK, NEW docs, Race(docs)
  PROVE  part' \in [Doc -> Page]
<1>1. \A d \in Doc : [part[d] EXCEPT !.flaws = @ \cup {"raced"}] \in Page
  <2> SUFFICES ASSUME NEW d \in Doc PROVE [part[d] EXCEPT !.flaws = @ \cup {"raced"}] \in Page
    OBVIOUS
  <2>1. part[d] \in Page
    BY DEF DocTypeOK
  <2>. QED
    BY <2>1 DEF Page, Flaws
<1>. QED
  BY <1>1 DEF DocTypeOK, Race

LEMMA Bounds == MaxBuild \in Nat /\ MaxEdit \in Nat
BY DocReadAssumption

(* A step of the reading of d moves it on.                                 *)
LEMMA GotoType ==
  ASSUME DocTypeOK, NEW d \in Doc, NEW from, NEW to \in Steps, Goto(d, from, to)
  PROVE  pc' \in [Doc -> Steps] /\ building /\ pc[d] = from
BY DEF DocTypeOK, Goto

(* What changes outside: a text, a file or a setting.                      *)
LEMMA EditType ==
  ASSUME Typed, MayEdit
  PROVE  edits' \in 0 .. MaxEdit /\ \A f \in File : version[f] + 1 \in 0 .. edits' + 1
<1>1. edits \in 0 .. MaxEdit /\ \A f \in File : version[f] \in 0 .. MaxEdit + 1 /\ version[f] <= edits + 1
  BY DEF Typed, DocTypeOK, Bounded
<1>2. edits' = edits + 1 /\ edits < MaxEdit
  BY DEF MayEdit
<1>. QED
  BY <1>1, <1>2, Bounds

LEMMA TypeStep == Typed /\ Flow /\ [Next]_vars => Typed'
<1> SUFFICES ASSUME Typed, Flow, [Next]_vars PROVE Typed'
  OBVIOUS
<1>0. DocTypeOK
  BY DEF Typed
<1>1. CASE StartBuild
  <2>1. build' \in 0 .. MaxBuild
    BY <1>0, <1>1, Bounds DEF DocTypeOK, StartBuild
  <2>2. pc' \in [Doc -> Steps] /\ config' \in Configs /\ building' \in BOOLEAN
    BY <1>0, <1>1, Loaded DEF StartBuild, DocTypeOK, Steps
  <2>3. env' \in Environment
    BY <1>0, <1>1, StartEffect
  <2>. QED
    BY <1>0, <1>1, <2>1, <2>2, <2>3 DEF StartBuild, Typed, DocTypeOK, Bounded, authorVars
<1>2. CASE Finish
  <2>1. doubled' \subseteq Name /\ saved' \in Environment /\ building' \in BOOLEAN
    BY <1>0, <1>2 DEF Finish, DocTypeOK
  <2>. QED
    BY <1>0, <1>2, <2>1 DEF Finish, Typed, DocTypeOK, Bounded, authorVars, readVars
<1>3. CASE Stop
  <2>1. pc' \in [Doc -> Steps] /\ reading' \in [Doc -> Text \cup {NoText}]
        /\ part' \in [Doc -> Page] /\ building' \in BOOLEAN /\ env' \in Environment
    BY <1>0, <1>3, Pages0 DEF Stop, DocTypeOK, Steps
  <2>2. \A p \in Page : [p EXCEPT !.flaws = @ \cup {"orphaned"}] \in Page
    BY DEF Page, Flaws
  <2>3. page' \in [Doc -> Page]
    BY <1>0, <1>3, <2>2 DEF Stop, DocTypeOK
  <2>. QED
    BY <1>0, <1>3, <2>1, <2>3 DEF Stop, Typed, DocTypeOK, Bounded, authorVars
<1>4. CASE Set
  <2>1. edits' \in 0 .. MaxEdit /\ edits' = edits + 1 /\ edits \in Nat
    BY <1>0, <1>4, EditType DEF Set, MayEdit, DocTypeOK
  <2>2. dir' \in Dir /\ extra' \in Extra
    BY <1>0, <1>4 DEF Set, DocTypeOK
  <2>3. Bounded'
    <3>1. \A f \in File : version[f] \in Int /\ version[f] <= edits + 1
      BY <1>0 DEF Typed, Bounded, DocTypeOK
    <3>2. version' = version
      BY <1>4 DEF Set
    <3>. QED
      BY <2>1, <3>1, <3>2 DEF Bounded
  <2>. QED
    BY <1>0, <1>4, <2>1, <2>2, <2>3 DEF Set, Typed, DocTypeOK, buildVars, readVars
<1>5. ASSUME NEW d \in Doc, Read(d) PROVE Typed'
  <2>0. /\ UNCHANGED authorVars /\ UNCHANGED buildVars /\ UNCHANGED <<saved, doubled>>
        /\ pc' \in [Doc -> Steps] /\ building
    BY <1>0, <1>5, GotoType DEF Read, ReadDoc, NoteDependencies, RunKernelDoc, IncludeFile,
         AddTargets, AddFigureLabels, Steps
  <2>1. CASE ReadDoc(d)
    <3>1. reading' \in [Doc -> Text \cup {NoText}]
      BY <1>0, <2>1 DEF ReadDoc, DocTypeOK
    <3>2. part' \in [Doc -> Page]
      BY <1>0, <2>1, PartSet DEF ReadDoc, DocTypeOK
    <3>3. env' \in Environment /\ page' = page
      BY <1>0, <2>1, ReadEffect DEF ReadDoc
    <3>. QED
      BY <1>0, <2>0, <3>1, <3>2, <3>3 DEF Typed, DocTypeOK, Bounded, authorVars, buildVars
  <2>2. CASE NoteDependencies(d)
    <3>1. pc[d] = "note" /\ reading[d] \in Text
      BY <1>0, <2>2, ReadText DEF NoteDependencies, Goto
    <3>2. Exports(d) \in SUBSET CFile /\ reading[d].kdoc \cup Exports(d) \in SUBSET File
      BY <3>1, Texts, FilesOfText DEF Exports
    <3>3. env' \in Environment
      BY <1>0, <2>2, <3>2, NoteEffect DEF NoteDependencies
    <3>4. part' \in [Doc -> Page]
      BY <1>0, <2>2, <3>2, PartSet DEF NoteDependencies
    <3>. QED
      BY <1>0, <2>0, <2>2, <3>3, <3>4 DEF NoteDependencies, Typed, DocTypeOK, Bounded, authorVars, buildVars
  <2>3. CASE RunKernelDoc(d)
    <3>1. pc[d] = "run"
      BY <2>3 DEF RunKernelDoc, Goto
    <3>2. Versions(Input(d)) \in SUBSET (CFile \X Nat)
      BY <1>0, <3>1, ReadText
    <3>3. part' \in [Doc -> Page]
      <4>1. \/ part' = part \/ part' = [part EXCEPT ![d].kdoc = Error]
            \/ part' = [part EXCEPT ![d].kdoc = Versions(Input(d))]
            \/ part' = [part EXCEPT ![d].kdoc = Error, ![d].flaws = @ \cup {"broken"}]
        BY <2>3 DEF RunKernelDoc
      <4>2. [part EXCEPT ![d].kdoc = Error] \in [Doc -> Page]
        BY <1>0, PartSet
      <4>3. [part EXCEPT ![d].kdoc = Versions(Input(d))] \in [Doc -> Page]
        BY <1>0, <3>2, PartSet
      <4>4. [part EXCEPT ![d].kdoc = Error, ![d].flaws = @ \cup {"broken"}] \in [Doc -> Page]
        BY <1>0, PartSet
      <4>. QED
        BY <1>0, <4>1, <4>2, <4>3, <4>4 DEF DocTypeOK
    <3>. QED
      BY <1>0, <2>0, <2>3, <3>3 DEF RunKernelDoc, Typed, DocTypeOK, Bounded, authorVars, buildVars
  <2>4. CASE IncludeFile(d)
    <3>1. dir \in Dir /\ {dir} \ Prohibited \in SUBSET File
      BY <1>0, FilesOfText DEF DocTypeOK
    <3>2. What(dir) \in Nat
      <4>1. dir \notin Prohibited => version[dir] \in Nat
        BY <1>0, <3>1, Bounds DEF DocTypeOK
      <4>. QED
        BY <4>1 DEF What, Failed
    <3>3. {<<dir, What(dir)>>} \in SUBSET (Dir \X Nat)
      BY <3>1, <3>2
    <3>4. part' \in [Doc -> Page] /\ env' \in Environment
      <4>1. CASE reading[d].include
        <5>1. part' = [part EXCEPT ![d].include = {<<dir, What(dir)>>}] /\ Note(d, {dir} \ Prohibited)
          BY <2>4, <4>1 DEF IncludeFile
        <5>2. part' \in [Doc -> Page]
          BY <1>0, <3>3, <5>1, PartSet
        <5>. QED
          BY <1>0, <3>1, <5>1, <5>2, NoteEffect
      <4>2. CASE ~reading[d].include
        BY <1>0, <2>4, <4>2 DEF IncludeFile, DocTypeOK
      <4>. QED
        BY <4>1, <4>2
    <3>. QED
      BY <1>0, <2>0, <2>4, <3>4 DEF IncludeFile, Typed, DocTypeOK, Bounded, authorVars, buildVars
  <2>5. CASE AddTargets(d)
    <3>1. env' \in Environment
      BY <1>0, <2>5, OwnEffect DEF AddTargets
    <3>. QED
      BY <1>0, <2>0, <2>5, <3>1 DEF AddTargets, Typed, DocTypeOK, Bounded, authorVars, buildVars
  <2>6. CASE AddFigureLabels(d)
    <3>1. env' \in Environment
      BY <1>0, <2>6, LabelEffect
    <3>2. part' \in [Doc -> Page] /\ page' \in [Doc -> Page]
          /\ reading' \in [Doc -> Text \cup {NoText}]
      BY <1>0, <2>6, PartSet DEF AddFigureLabels, DocTypeOK
    <3>. QED
      BY <1>0, <2>0, <2>6, <3>1, <3>2 DEF Typed, DocTypeOK, Bounded, authorVars, buildVars
  <2>. QED
    BY <1>5, <2>1, <2>2, <2>3, <2>4, <2>5, <2>6 DEF Read
<1>6. ASSUME NEW d \in Doc, EditText(d) PROVE Typed'
  <2>1. edits' \in 0 .. MaxEdit /\ edits' = edits + 1 /\ edits \in Nat
    BY <1>0, <1>6, EditType DEF EditText, MayEdit, DocTypeOK
  <2>2. text' \in [Doc -> Text]
    BY <1>0, <1>6 DEF EditText, DocTypeOK
  <2>3. env' \in Environment /\ saved' \in Environment
    BY <1>0, <1>6, ChangesEffect DEF EditText, DocTypeOK
  <2>4. part' \in [Doc -> Page]
    BY <1>0, <1>6, RaceType DEF EditText
  <2>5. Bounded'
    <3>1. \A f \in File : version[f] \in Int /\ version[f] <= edits + 1
      BY <1>0 DEF Typed, Bounded, DocTypeOK
    <3>2. version' = version
      BY <1>6 DEF EditText
    <3>. QED
      BY <2>1, <3>1, <3>2 DEF Bounded
  <2>. QED
    BY <1>0, <1>6, <2>1, <2>2, <2>3, <2>4, <2>5 DEF EditText, Typed, DocTypeOK, buildVars
<1>7. ASSUME NEW f \in File, WriteFile(f) PROVE Typed'
  <2>1. edits' \in 0 .. MaxEdit /\ edits' = edits + 1 /\ edits \in Nat
    BY <1>0, <1>7, EditType DEF WriteFile, MayEdit, DocTypeOK
  <2>2. version[f] + 1 \in 0 .. edits' + 1
    BY <1>7, EditType DEF WriteFile
  <2>3. \A g \in File : version[g] \in 0 .. MaxEdit + 1 /\ version[g] <= edits + 1
    BY <1>0 DEF Typed, Bounded, DocTypeOK
  <2>4. \A g \in File : version'[g] = IF g = f THEN version[f] + 1 ELSE version[g]
    BY <1>0, <1>7 DEF WriteFile, DocTypeOK
  <2>5. \A g \in File : version'[g] \in 0 .. MaxEdit + 1 /\ version'[g] <= edits' + 1
    BY <2>1, <2>2, <2>3, <2>4, Bounds
  <2>6. version' \in [File -> 0 .. MaxEdit + 1] /\ there' \subseteq File
    BY <1>0, <1>7, <2>5 DEF WriteFile, DocTypeOK
  <2>7. env' \in Environment /\ saved' \in Environment
    BY <1>0, <1>7, ChangesEffect DEF WriteFile, DocTypeOK, Dependents
  <2>8. part' \in [Doc -> Page]
    BY <1>0, <1>7, RaceType DEF WriteFile
  <2>. QED
    BY <1>0, <1>7, <2>1, <2>5, <2>6, <2>7, <2>8 DEF WriteFile, Typed, DocTypeOK, Bounded, buildVars
<1>8. ASSUME NEW f \in File, RemoveFile(f) PROVE Typed'
  <2>1. edits' \in 0 .. MaxEdit /\ edits' = edits + 1 /\ edits \in Nat
    BY <1>0, <1>8, EditType DEF RemoveFile, MayEdit, DocTypeOK
  <2>2. there' \subseteq File
    BY <1>0, <1>8 DEF RemoveFile, DocTypeOK
  <2>3. Bounded'
    <3>1. \A g \in File : version[g] \in Int /\ version[g] <= edits + 1
      BY <1>0 DEF Typed, Bounded, DocTypeOK
    <3>2. version' = version
      BY <1>8 DEF RemoveFile
    <3>. QED
      BY <2>1, <3>1, <3>2 DEF Bounded
  <2>. QED
    BY <1>0, <1>8, <2>1, <2>2, <2>3 DEF RemoveFile, Typed, DocTypeOK, buildVars, readVars
<1>9. CASE UNCHANGED vars
  BY <1>0, <1>9 DEF vars, authorVars, buildVars, readVars, Typed, DocTypeOK, Bounded
<1>. QED
  BY <1>1, <1>2, <1>3, <1>4, <1>5, <1>6, <1>7, <1>8, <1>9 DEF Next

----------------------------------------------------------------------------
(* The control flow.                                                       *)

LEMMA FlowInit == Init => Flow
BY DEF Init, Flow

(* What every step of the reading of d has in common.                      *)
LEMMA ReadCommon ==
  ASSUME DocTypeOK, Flow, NEW d \in Doc, Read(d)
  PROVE  /\ UNCHANGED authorVars /\ UNCHANGED buildVars /\ UNCHANGED <<saved, doubled>>
         /\ building /\ pc[d] # "idle"
         /\ \A e \in Doc : e # d => pc'[e] = pc[e] /\ reading'[e] = reading[e] /\ part'[e] = part[e]
         /\ env'.config = env.config /\ env' \in Environment
         /\ \A e \in Doc : e # d => env'.text[e] = env.text[e] /\ env'.deps[e] = env.deps[e]
         /\ \A e \in Doc : e # d => page'[e] = page[e] /\ (e \in env'.changed <=> e \in env.changed)
<1>0. /\ pc \in [Doc -> Steps] /\ reading \in [Doc -> Text \cup {NoText}]
      /\ part \in [Doc -> Page] /\ page \in [Doc -> Page]
      /\ env.text \in [Doc -> Text \cup {NoText}] /\ env.deps \in [Doc -> SUBSET File]
  BY EnvParts DEF DocTypeOK
<1>1. CASE ReadDoc(d)
  <2>1. /\ env'.text = env.text /\ env'.deps = [env.deps EXCEPT ![d] = {}]
        /\ env'.changed = env.changed /\ env'.config = env.config /\ env' \in Environment
    BY <1>1, ReadEffect
  <2>. QED
    BY ONLY <1>0, <1>1, <2>1 DEF ReadDoc, Goto
<1>2. CASE NoteDependencies(d)
  <2>1. pc[d] = "note" /\ reading[d] \in Text
    BY <1>2, ReadText DEF NoteDependencies, Goto
  <2>2. reading[d].kdoc \cup Exports(d) \in SUBSET File
    BY <2>1, Texts, FilesOfText DEF Exports
  <2>. QED
    BY <1>2, <2>2, NoteEffect, EnvParts DEF NoteDependencies, Goto, DocTypeOK
<1>3. CASE RunKernelDoc(d)
  <2>1. \A e \in Doc : e # d => part'[e] = part[e]
    BY <1>3 DEF RunKernelDoc, DocTypeOK
  <2>. QED
    BY <1>3, <2>1 DEF RunKernelDoc, Goto, DocTypeOK
<1>4. CASE IncludeFile(d)
  <2>1. {dir} \ Prohibited \in SUBSET File
    BY FilesOfText DEF DocTypeOK
  <2>2. CASE reading[d].include
    <3>1. Note(d, {dir} \ Prohibited)
      BY <1>4, <2>2 DEF IncludeFile
    <3>2. /\ env'.text = env.text /\ env'.deps = [env.deps EXCEPT ![d] = @ \cup ({dir} \ Prohibited)]
          /\ env'.changed = env.changed /\ env'.config = env.config /\ env' \in Environment
      BY <2>1, <3>1, NoteEffect
    <3>. QED
      BY ONLY <1>0, <1>4, <2>2, <3>2 DEF IncludeFile, Goto
  <2>3. CASE ~reading[d].include
    BY <1>4, <2>3 DEF IncludeFile, Goto, DocTypeOK
  <2>. QED
    BY <2>2, <2>3
<1>5. CASE AddTargets(d)
  BY <1>5, OwnEffect, EnvParts DEF AddTargets, Goto, DocTypeOK
<1>6. CASE AddFigureLabels(d)
  <2>1. /\ env'.text = [env.text EXCEPT ![d] = reading[d]] /\ env'.deps = env.deps
        /\ env'.changed = env.changed \ {d} /\ env'.config = env.config /\ env' \in Environment
    BY <1>6, LabelEffect
  <2>. QED
    BY ONLY <1>0, <1>6, <2>1 DEF AddFigureLabels, Goto
<1>. QED
  BY <1>1, <1>2, <1>3, <1>4, <1>5, <1>6 DEF Read

(* What every change from outside has in common.                           *)
LEMMA OutsideCommon ==
  ASSUME DocTypeOK, Flow,
         \/ \E d \in Doc : EditText(d)
         \/ \E f \in File : WriteFile(f) \/ RemoveFile(f)
         \/ Set
  PROVE  /\ UNCHANGED buildVars /\ UNCHANGED <<pc, reading, page, doubled>>
         /\ env'.text = env.text /\ env'.deps = env.deps /\ env'.inv = env.inv
         /\ env'.config = env.config /\ env.changed \subseteq env'.changed
         /\ saved'.text = saved.text /\ saved'.deps = saved.deps /\ saved'.inv = saved.inv
         /\ saved'.config = saved.config /\ saved.changed \subseteq saved'.changed
         /\ ~building => env' = saved'
<1>0. env \in Environment /\ saved \in Environment
  BY DEF DocTypeOK
<1>1. ASSUME NEW d \in Doc, EditText(d)
      PROVE  env' = Changes(env, {d}) /\ saved' = Changes(saved, {d})
  BY <1>1 DEF EditText
<1>2. ASSUME NEW f \in File, WriteFile(f)
      PROVE  env' = Changes(env, Dependents(env, f)) /\ saved' = Changes(saved, Dependents(saved, f))
  BY <1>2 DEF WriteFile
<1>3. CASE \E d \in Doc : EditText(d)
  BY <1>0, <1>1, <1>3, ChangesEffect DEF EditText, buildVars, Flow
<1>4. CASE \E f \in File : WriteFile(f)
  <2>1. PICK f \in File : WriteFile(f)
    BY <1>4
  <2>2. Dependents(env, f) \in SUBSET Doc /\ Dependents(saved, f) \in SUBSET Doc
    BY DEF Dependents
  <2>3. ~building => Dependents(env, f) = Dependents(saved, f)
    BY DEF Flow
  <2>. QED
    BY <1>0, <1>2, <2>1, <2>2, <2>3, ChangesEffect DEF WriteFile, buildVars, Flow
<1>5. CASE \E f \in File : RemoveFile(f)
  BY <1>5 DEF RemoveFile, buildVars, readVars, Flow
<1>6. CASE Set
  BY <1>6 DEF Set, buildVars, readVars, Flow
<1>. QED
  BY <1>3, <1>4, <1>5, <1>6

LEMMA FlowStep == Typed /\ Flow /\ [Next]_vars => Flow'
<1> SUFFICES ASSUME Typed, Flow, [Next]_vars PROVE Flow'
  OBVIOUS
<1>0. DocTypeOK
  BY DEF Typed
<1>1. CASE StartBuild
  <2>1. env'.config = config' /\ building'
    BY <1>0, <1>1, StartEffect DEF StartBuild
  <2>2. \A d \in Doc : reading'[d] = NoText <=> pc'[d] \in {"idle", "todo"}
    BY <1>1 DEF StartBuild, Flow
  <2>. QED
    BY <2>1, <2>2 DEF Flow
<1>2. CASE Finish
  BY <1>2 DEF Finish, Flow, readVars
<1>3. CASE Stop
  BY <1>3 DEF Stop, Flow
<1>4. ASSUME NEW d \in Doc, Read(d) PROVE Flow'
  <2>1. building' /\ env'.config = config'
    BY <1>0, <1>4, ReadCommon DEF buildVars, Flow
  <2>2. reading'[d] = NoText <=> pc'[d] \in {"idle", "todo"}
    <3>1. CASE ReadDoc(d)
      <4>1. text[d] # NoText /\ pc'[d] = "note" /\ reading'[d] = text[d]
        BY <1>0, <3>1, DocReadAssumption DEF ReadDoc, Goto, DocTypeOK
      <4>. QED
        BY <4>1
    <3>2. CASE AddFigureLabels(d)
      <4>1. pc'[d] = "idle" /\ reading'[d] = NoText
        BY <1>0, <3>2 DEF AddFigureLabels, Goto, DocTypeOK
      <4>. QED
        BY <4>1
    <3>3. CASE NoteDependencies(d) \/ RunKernelDoc(d) \/ IncludeFile(d) \/ AddTargets(d)
      <4>1. pc[d] \notin {"idle", "todo"} /\ pc'[d] \notin {"idle", "todo"} /\ reading' = reading
        BY <1>0, <3>3 DEF NoteDependencies, RunKernelDoc, IncludeFile, AddTargets, Goto, DocTypeOK
      <4>. QED
        BY <4>1 DEF Flow
    <3>. QED
      BY <1>4, <3>1, <3>2, <3>3 DEF Read
  <2>3. \A e \in Doc : e # d => pc'[e] = pc[e] /\ reading'[e] = reading[e]
    BY <1>0, <1>4, ReadCommon
  <2>. QED
    BY <2>1, <2>2, <2>3 DEF Flow
<1>5. CASE (\E d \in Doc : EditText(d)) \/ (\E f \in File : WriteFile(f) \/ RemoveFile(f)) \/ Set
  <2>1. /\ UNCHANGED buildVars /\ UNCHANGED <<pc, reading>> /\ env'.config = env.config
        /\ ~building => env' = saved'
    BY <1>0, <1>5, OutsideCommon
  <2>. QED
    BY <2>1 DEF Flow, buildVars
<1>6. CASE UNCHANGED vars
  BY <1>6 DEF vars, buildVars, readVars, Flow
<1>. QED
  BY <1>1, <1>2, <1>3, <1>4, <1>5, <1>6 DEF Next

----------------------------------------------------------------------------
(* The inventory.                                                          *)

LEMMA InventoryInit == Init => Inventory
BY DocReadAssumption DEF Init, NoEnv, Inventory, Owned, Known, KnownIsThere, LostIsDoubled, Added,
   DoubledIsKept, InventoryIsTrue, Describe

(* Names two documents describe, at the end of a build.                    *)
LEMMA TwoAreDoubled ==
  ASSUME NEW e, NEW n, NEW c \in Describe(e, n), NEW d \in Describe(e, n), c # d
  PROVE  Cardinality(Describe(e, n)) > 1
<1>1. IsFiniteSet(Describe(e, n))
  <2>1. Describe(e, n) \subseteq Doc
    BY DEF Describe
  <2>. QED
    BY <2>1, FS_Subset, DocReadAssumption
<1>2. {c, d} \subseteq Describe(e, n)
  OBVIOUS
<1>3. Cardinality({c, d}) = 2
  <2>1. IsFiniteSet({c}) /\ Cardinality({c}) = 1
    BY FS_Singleton
  <2>2. Cardinality({c} \cup {d}) = Cardinality({c}) + 1
    BY <2>1, FS_AddElement
  <2>3. {c} \cup {d} = {c, d}
    OBVIOUS
  <2>. QED
    BY <2>1, <2>2, <2>3
<1>4. Cardinality({c, d}) <= Cardinality(Describe(e, n))
  BY <1>1, <1>2, FS_Subset
<1>. QED
  BY <1>1, <1>3, <1>4, FS_CardinalityType

(* Nothing of it has changed.                                              *)
LEMMA InventoryKept ==
  ASSUME Inventory, UNCHANGED <<pc, reading, doubled>>,
         env'.text = env.text, env'.inv = env.inv, saved'.text = saved.text, saved'.inv = saved.inv
  PROVE  Inventory'
<1>1. \A n \in Name : Describe(saved, n)' = Describe(saved, n)
  BY DEF Describe
<1>2. \A d \in Doc, n \in Name : (Known(d, n)' <=> Known(d, n))
  BY DEF Known
<1>3. Owned' /\ KnownIsThere' /\ LostIsDoubled' /\ Added'
  BY <1>2 DEF Inventory, Owned, KnownIsThere, LostIsDoubled, Added
<1>4. DoubledIsKept' /\ InventoryIsTrue'
  BY <1>1 DEF Inventory, DoubledIsKept, InventoryIsTrue
<1>. QED
  BY <1>3, <1>4 DEF Inventory

LEMMA InventoryStep == Typed /\ Flow /\ Inventory /\ [Next]_vars => Inventory'
<1> SUFFICES ASSUME Typed, Flow, Inventory, [Next]_vars PROVE Inventory'
  OBVIOUS
<1>0. DocTypeOK
  BY DEF Typed
<1>a. pc \in [Doc -> Steps] /\ env.inv \in [Name -> Doc \cup {NoDoc}]
      /\ env.text \in [Doc -> Text \cup {NoText}] /\ NoDoc \notin Doc
  BY <1>0, EnvParts, DocReadAssumption DEF DocTypeOK
<1>1. CASE StartBuild
  <2>1. env'.text = env.text /\ env'.inv = env.inv
    BY <1>0, <1>1, StartEffect
  <2>2. /\ env = saved /\ \A d \in Doc : pc[d] = "idle" /\ pc'[d] \in {"idle", "todo"}
        /\ UNCHANGED <<saved, reading, doubled>>
    BY <1>1 DEF StartBuild, Flow
  <2>3. \A d \in Doc, n \in Name : (Known(d, n)' <=> Known(d, n))
    BY <2>1, <2>2 DEF Known
  <2>4. Owned' /\ KnownIsThere' /\ Added'
    BY <2>1, <2>2, <2>3 DEF Inventory, Owned, KnownIsThere, Added
  <2>5. LostIsDoubled'
    <3> SUFFICES ASSUME NEW n \in Name, NEW d \in Doc, NEW e \in Doc,
                        d # e, env.inv[n] = e, Known(d, n)
                 PROVE  n \in doubled
      BY <2>1, <2>2, <2>3 DEF LostIsDoubled
    <3>1. Known(e, n)
      BY <2>2 DEF Inventory, Owned
    <3>2. d \in Describe(saved, n) /\ e \in Describe(saved, n)
      BY <2>2, <3>1 DEF Known, Describe
    <3>. QED
      BY <3>2 DEF Inventory, DoubledIsKept
  <2>6. DoubledIsKept' /\ InventoryIsTrue'
    BY <2>2 DEF Inventory, DoubledIsKept, InventoryIsTrue, Describe
  <2>. QED
    BY <2>4, <2>5, <2>6 DEF Inventory
<1>2. CASE Finish
  <2>1. /\ UNCHANGED <<env, pc, reading>> /\ saved' = env
        /\ \A d \in Doc : pc[d] = "idle"
        /\ doubled' = doubled \cup {n \in Name : Cardinality(Describe(env, n)) > 1}
    BY <1>2 DEF Finish, readVars
  <2>2. \A d \in Doc, n \in Name : /\ (Known(d, n)' <=> Known(d, n))
                                   /\ Known(d, n) <=> d \in Describe(env, n)
    BY <2>1 DEF Known, Describe
  <2>3. Owned' /\ KnownIsThere' /\ LostIsDoubled' /\ Added'
    BY <2>1, <2>2 DEF Inventory, Owned, KnownIsThere, LostIsDoubled, Added
  <2>4. \A n \in Name : Describe(saved, n)' = Describe(env, n)
    BY <2>1 DEF Describe
  <2>5. DoubledIsKept'
    BY <2>1, <2>4, TwoAreDoubled DEF DoubledIsKept
  <2>6. InventoryIsTrue'
    <3> SUFFICES ASSUME NEW n \in Name
                 PROVE  /\ env.inv[n] # NoDoc => env.inv[n] \in Describe(env, n)
                        /\ Describe(env, n) # {} /\ n \notin doubled => env.inv[n] # NoDoc
      BY <2>1, <2>4 DEF InventoryIsTrue
    <3>1. ASSUME env.inv[n] # NoDoc PROVE env.inv[n] \in Describe(env, n)
      <4>1. env.inv[n] \in Doc
        BY <1>a, <3>1
      <4>. QED
        BY <2>1, <2>2, <4>1 DEF Inventory, Owned
    <3>2. ASSUME Describe(env, n) # {}, n \notin doubled PROVE env.inv[n] # NoDoc
      <4>1. PICK d \in Doc : Known(d, n)
        BY <2>2, <3>2 DEF Describe
      <4>. QED
        BY <3>2, <4>1 DEF Inventory, KnownIsThere
    <3>. QED
      BY <3>1, <3>2
  <2>. QED
    BY <2>3, <2>5, <2>6 DEF Inventory
<1>3. CASE Stop
  <2>1. /\ env' = saved /\ UNCHANGED <<saved, doubled>> /\ \A d \in Doc : pc'[d] = "idle"
    BY <1>3 DEF Stop
  <2>2. \A d \in Doc, n \in Name : Known(d, n)' <=> d \in Describe(saved, n)
    BY <2>1 DEF Known, Describe
  <2>3. Owned'
    BY <2>1, <2>2, <1>a DEF Inventory, Owned, InventoryIsTrue
  <2>4. KnownIsThere'
    BY <2>1, <2>2 DEF Inventory, KnownIsThere, InventoryIsTrue
  <2>5. LostIsDoubled' /\ Added'
    BY <2>1 DEF LostIsDoubled, Added
  <2>6. DoubledIsKept' /\ InventoryIsTrue'
    BY <2>1 DEF Inventory, DoubledIsKept, InventoryIsTrue, Describe
  <2>. QED
    BY <2>3, <2>4, <2>5, <2>6 DEF Inventory
<1>4. ASSUME NEW x \in Doc, Read(x) PROVE Inventory'
  <2>0. /\ UNCHANGED <<saved, doubled>>
        /\ \A e \in Doc : e # x => pc'[e] = pc[e] /\ reading'[e] = reading[e]
        /\ \A e \in Doc : e # x => env'.text[e] = env.text[e]
    BY <1>0, <1>4, ReadCommon
  <2>a. DoubledIsKept' /\ InventoryIsTrue'
    BY <2>0 DEF Inventory, DoubledIsKept, InventoryIsTrue, Describe
  <2>b. \A d \in Doc, n \in Name : d # x => (Known(d, n)' <=> Known(d, n))
    BY <2>0 DEF Known
  <2>1. CASE ReadDoc(x)
    <3>1. \A n \in Name : env'.inv[n] = IF env.inv[n] = x THEN NoDoc ELSE env.inv[n]
      BY <1>0, <2>1, ReadEffect
    <3>2. pc[x] = "todo" /\ pc'[x] = "note"
      BY <1>a, <2>1 DEF ReadDoc, Goto
    <3>3. \A n \in Name : ~Known(x, n)'
      BY <3>2 DEF Known
    <3>4. Owned'
      BY <1>a, <2>0, <2>b, <3>1, <3>2 DEF Inventory, Owned
    <3>5. KnownIsThere'
      BY <2>0, <2>b, <3>1, <3>2, <3>3 DEF Inventory, KnownIsThere, LostIsDoubled
    <3>6. LostIsDoubled'
      BY <1>a, <2>0, <2>b, <3>1, <3>2, <3>3 DEF Inventory, LostIsDoubled
    <3>7. Added'
      <4> SUFFICES ASSUME NEW d \in Doc, NEW n \in Name \ Label,
                          pc'[d] = "labels", n \in reading'[d].names
                   PROVE  env'.inv[n] \in Doc /\ pc'[env'.inv[n]] # "todo"
        BY DEF Added
      <4>1. d # x
        BY <3>2
      <4>2. env.inv[n] \in Doc /\ pc[env.inv[n]] # "todo"
        BY <2>0, <4>1 DEF Inventory, Added
      <4>3. env.inv[n] # x
        BY <3>2, <4>2
      <4>. QED
        BY <2>0, <3>1, <4>2, <4>3
    <3>. QED
      BY <2>a, <3>4, <3>5, <3>6, <3>7 DEF Inventory
  <2>2. CASE NoteDependencies(x) \/ RunKernelDoc(x) \/ IncludeFile(x)
    <3>1. env'.text = env.text /\ env'.inv = env.inv
      <4>1. CASE NoteDependencies(x)
        <5>1. pc[x] = "note" /\ reading[x] \in Text
          BY <1>0, <4>1, ReadText DEF NoteDependencies, Goto
        <5>2. reading[x].kdoc \cup Exports(x) \in SUBSET File
          BY <5>1, Texts, FilesOfText DEF Exports
        <5>. QED
          BY <1>0, <4>1, <5>2, NoteEffect DEF NoteDependencies
      <4>2. CASE RunKernelDoc(x)
        BY <4>2 DEF RunKernelDoc
      <4>3. CASE IncludeFile(x)
        <5>1. {dir} \ Prohibited \in SUBSET File
          BY <1>0, FilesOfText DEF DocTypeOK
        <5>2. Note(x, {dir} \ Prohibited) \/ env' = env
          BY <4>3 DEF IncludeFile
        <5>. QED
          BY <1>0, <5>1, <5>2, NoteEffect
      <4>. QED
        BY <2>2, <4>1, <4>2, <4>3
    <3>2. pc[x] \in {"note", "run", "include"} /\ pc'[x] \in {"run", "include", "names"}
      BY <1>a, <2>2 DEF NoteDependencies, RunKernelDoc, IncludeFile, Goto
    <3>3. \A n \in Name : ~Known(x, n) /\ ~Known(x, n)'
      BY <3>2 DEF Known
    <3>4. \A d \in Doc, n \in Name : (Known(d, n)' <=> Known(d, n))
      BY <2>b, <3>3
    <3>5. Owned' /\ KnownIsThere' /\ LostIsDoubled'
      BY <2>0, <3>1, <3>2, <3>4 DEF Inventory, Owned, KnownIsThere, LostIsDoubled
    <3>6. Added'
      BY <2>0, <3>1, <3>2 DEF Inventory, Added
    <3>. QED
      BY <2>a, <3>5, <3>6 DEF Inventory
  <2>3. CASE AddTargets(x)
    <3>1. env'.inv = [n \in Name |-> IF n \in reading[x].names \ Label THEN x ELSE env.inv[n]]
      BY <1>0, <2>3, OwnEffect DEF AddTargets
    <3>2. pc[x] = "names" /\ pc'[x] = "labels" /\ reading' = reading
      BY <1>a, <2>3 DEF AddTargets, Goto
    <3>3. \A n \in Name : ~Known(x, n) /\ ~Known(x, n)'
      BY <3>2 DEF Known
    <3>4. \A d \in Doc, n \in Name : (Known(d, n)' <=> Known(d, n))
      BY <2>b, <3>3
    <3>5. Owned'
      BY <1>a, <2>0, <3>1, <3>2, <3>4 DEF Inventory, Owned
    <3>6. KnownIsThere' /\ LostIsDoubled'
      BY <1>a, <2>0, <3>1, <3>2, <3>4 DEF Inventory, KnownIsThere, LostIsDoubled
    <3>7. Added'
      BY <1>a, <2>0, <3>1, <3>2 DEF Inventory, Added
    <3>. QED
      BY <2>a, <3>5, <3>6, <3>7 DEF Inventory
  <2>4. CASE AddFigureLabels(x)
    <3>1. /\ env'.inv = [n \in Name |-> IF n \in reading[x].names \cap Label THEN x ELSE env.inv[n]]
          /\ env'.text[x] = reading[x]
      BY <1>0, <1>a, <2>4, LabelEffect
    <3>2. pc[x] = "labels" /\ pc'[x] = "idle"
      BY <1>a, <2>4 DEF AddFigureLabels, Goto
    <3>3. reading[x] \in Text /\ reading[x] # NoText /\ reading[x].names \subseteq Name
      BY <1>0, <3>2, ReadText, Texts, DocReadAssumption
    <3>4. \A n \in Name : ~Known(x, n) /\ (Known(x, n)' <=> n \in reading[x].names)
      BY <3>1, <3>2, <3>3 DEF Known
    <3>5. Owned'
      BY <1>a, <2>0, <2>b, <3>1, <3>2, <3>4 DEF Inventory, Owned
    <3>6. KnownIsThere'
      BY <1>a, <2>0, <2>b, <3>1, <3>2, <3>4 DEF Inventory, KnownIsThere, Added
    <3>7. LostIsDoubled'
      <4> SUFFICES ASSUME NEW n \in Name, NEW d \in Doc, NEW e \in Doc,
                          d # e, env'.inv[n] = e, pc'[e] = "todo", Known(d, n)'
                   PROVE  n \in doubled
        BY <2>0 DEF LostIsDoubled
      <4>1. e # x /\ env.inv[n] = e /\ pc[e] = "todo"
        BY <2>0, <3>1, <3>2
      <4>2. CASE d = x
        <5>1. n \in reading[x].names \ Label
          BY <3>1, <3>4, <4>1, <4>2
        <5>. QED
          BY <3>2, <4>1, <5>1 DEF Inventory, Added
      <4>3. CASE d # x
        BY <2>b, <4>1, <4>3 DEF Inventory, LostIsDoubled
      <4>. QED
        BY <4>2, <4>3
    <3>8. Added'
      BY <1>a, <2>0, <3>1, <3>2 DEF Inventory, Added
    <3>. QED
      BY <2>a, <3>5, <3>6, <3>7, <3>8 DEF Inventory
  <2>. QED
    BY <1>4, <2>1, <2>2, <2>3, <2>4 DEF Read
<1>5. CASE (\E d \in Doc : EditText(d)) \/ (\E f \in File : WriteFile(f) \/ RemoveFile(f)) \/ Set
  BY <1>0, <1>5, OutsideCommon, InventoryKept
<1>6. CASE UNCHANGED vars
  BY <1>6, InventoryKept DEF vars, readVars
<1>. QED
  BY <1>1, <1>2, <1>3, <1>4, <1>5, <1>6 DEF Next

----------------------------------------------------------------------------
(* The pages.                                                              *)

(* What a page was made of has not changed, so it is as right as before.   *)
LEMMA KnowsKept ==
  ASSUME NEW deps, NEW p, NEW t, NEW files, NEW ver, NEW files2, NEW ver2,
         Knows(deps, p, t, files, ver),
         \A g \in deps : (g \in files <=> g \in files2) /\ ver2[g] = ver[g]
  PROVE  Knows(deps, p, t, files2, ver2)
<1>1. MadeOf(p, t) \subseteq deps /\ Included(p) \subseteq deps
  BY DEF Knows
<1>2. MadeOf(p, t) \subseteq files <=> MadeOf(p, t) \subseteq files2
  BY <1>1
<1>3. {<<f, ver[f]>> : f \in MadeOf(p, t)} = {<<f, ver2[f]>> : f \in MadeOf(p, t)}
  BY <1>1
<1>4. \A i \in p.include : WhatAt(i[1], files2, ver2) = WhatAt(i[1], files, ver)
  BY <1>1 DEF Included, WhatAt
<1>. QED
  BY <1>1, <1>2, <1>3, <1>4 DEF Knows, RightAt, RightInclude

LEMMA RanKept ==
  ASSUME NEW p, NEW t, NEW files, NEW ver, NEW files2, NEW ver2,
         RanAt(p, t, files, ver),
         \A g \in MadeOf(p, t) : (g \in files2 => g \in files) /\ ver2[g] = ver[g]
  PROVE  RanAt(p, t, files2, ver2)
<1>1. {<<f, ver[f]>> : f \in MadeOf(p, t)} = {<<f, ver2[f]>> : f \in MadeOf(p, t)}
  OBVIOUS
<1>. QED
  BY <1>1 DEF RanAt

LEMMA IncludedKept ==
  ASSUME NEW p, NEW t, NEW files, NEW ver, NEW files2, NEW ver2,
         IncludedAt(p, t, files, ver),
         \A g \in Included(p) : (g \in files2 => g \in files) /\ ver2[g] = ver[g]
  PROVE  IncludedAt(p, t, files2, ver2)
<1>1. CASE Included(p) \subseteq files2
  <2>1. Included(p) \subseteq files
    BY <1>1
  <2>2. \A i \in p.include : WhatAt(i[1], files2, ver2) = WhatAt(i[1], files, ver)
    BY <1>1, <2>1 DEF Included, WhatAt
  <2>. QED
    BY <2>1, <2>2 DEF IncludedAt, RightInclude
<1>. QED
  BY <1>1 DEF IncludedAt

(* What was read without a race is right, or something of it is missing.   *)
LEMMA ReadIsRight ==
  ASSUME NEW p, NEW t, NEW files, NEW ver, NEW deps,
         RanAt(p, t, files, ver), IncludedAt(p, t, files, ver),
         MadeOf(p, t) \subseteq deps, Included(p) \subseteq deps,
         deps \subseteq files
  PROVE  Knows(deps, p, t, files, ver)
BY DEF Knows, RightAt, RanAt, IncludedAt

(* Environments that mark a document go on to do so.                       *)
LEMMA MarkedByWrite ==
  ASSUME DocTypeOK, Flow, NEW f \in File, WriteFile(f), NEW d \in Doc
  PROVE  /\ Marked(env, d) \/ f \in env.deps[d] => Marked(env, d)'
         /\ Marked(saved, d) \/ f \in saved.deps[d] => Marked(saved, d)'
<1>1. /\ env' = Changes(env, Dependents(env, f)) /\ saved' = Changes(saved, Dependents(saved, f))
      /\ there' = there \cup {f}
  BY DEF WriteFile
<1>2. /\ env'.text = env.text /\ env'.deps = env.deps
      /\ env'.changed = env.changed \cup Dependents(env, f)
  BY <1>1, ChangesEffect DEF DocTypeOK, Dependents
<1>3. /\ saved'.text = saved.text /\ saved'.deps = saved.deps
      /\ saved'.changed = saved.changed \cup Dependents(saved, f)
  BY <1>1, ChangesEffect DEF DocTypeOK, Dependents
<1>. QED
  BY <1>1, <1>2, <1>3 DEF Marked, Dependents

LEMMA MarkedByRemove ==
  ASSUME DocTypeOK, Flow, NEW f \in File, RemoveFile(f), NEW d \in Doc
  PROVE  /\ Marked(env, d) \/ f \in env.deps[d] => Marked(env, d)'
         /\ Marked(saved, d) \/ f \in saved.deps[d] => Marked(saved, d)'
BY DEF RemoveFile, Marked

LEMMA MarkedByEdit ==
  ASSUME DocTypeOK, Flow, NEW x \in Doc, EditText(x), NEW d \in Doc
  PROVE  /\ Marked(env, d) \/ d = x => Marked(env, d)'
         /\ Marked(saved, d) \/ d = x => Marked(saved, d)'
<1>1. /\ env' = Changes(env, {x}) /\ saved' = Changes(saved, {x}) /\ there' = there
  BY DEF EditText
<1>2. /\ env'.text = env.text /\ env'.deps = env.deps /\ env'.changed = env.changed \cup {x}
  BY <1>1, ChangesEffect DEF DocTypeOK
<1>3. /\ saved'.text = saved.text /\ saved'.deps = saved.deps /\ saved'.changed = saved.changed \cup {x}
  BY <1>1, ChangesEffect DEF DocTypeOK
<1>. QED
  BY <1>1, <1>2, <1>3 DEF Marked

LEMMA PagesInit == Init => Pages
BY DEF Init, NoEnv, Pages, ReadForReason, SavedKnows, EnvKnows, Reads, Marked

(* What changes from outside leaves of the pages.                          *)
MarksStay(d) == /\ Marked(env, d) => Marked(env, d)'
                /\ Marked(saved, d) => Marked(saved, d)'
MatchStays(d) == /\ Match(env, d) => Match(env, d)' \/ Marked(env, d)'
                 /\ Match(saved, d) => Match(saved, d)' \/ Marked(saved, d)'

LEMMA OutsidePages ==
  ASSUME Pages, UNCHANGED buildVars, UNCHANGED <<pc, page>>, saved'.config = saved.config, Reads',
         \A d \in Doc : MarksStay(d) /\ MatchStays(d)
  PROVE  Pages'
<1>1. \A d \in Doc : Flawed(d)' <=> Flawed(d)
  BY DEF Flawed
<1>2. ReadForReason'
  BY DEF Pages, ReadForReason, MarksStay, buildVars
<1>3. SavedKnows'
  BY <1>1 DEF Pages, SavedKnows, MarksStay, MatchStays, buildVars
<1>4. EnvKnows'
  BY <1>1 DEF Pages, EnvKnows, MarksStay, MatchStays, buildVars
<1>. QED
  BY <1>2, <1>3, <1>4 DEF Pages

LEMMA EditPages ==
  ASSUME DocTypeOK, Flow, Pages, NEW x \in Doc, EditText(x)
  PROVE  Pages'
<1>1. /\ UNCHANGED <<buildVars, pc, reading, page>> /\ saved'.config = saved.config
      /\ env'.deps = env.deps /\ saved'.deps = saved.deps /\ env'.config = env.config
  BY OutsideCommon
<1>2. /\ UNCHANGED <<there, version, dir>> /\ \A d \in Doc : d # x => text'[d] = text[d]
  BY DEF EditText, DocTypeOK
<1>3. \A d \in Doc : MarksStay(d)
  BY MarkedByEdit DEF MarksStay
<1>4. \A d \in Doc : MatchStays(d)
  <2> SUFFICES ASSUME NEW d \in Doc PROVE MatchStays(d)
    OBVIOUS
  <2>1. CASE d = x
    BY <2>1, MarkedByEdit DEF MatchStays
  <2>2. CASE d # x
    BY <1>1, <1>2, <2>2 DEF MatchStays, Match
  <2>. QED
    BY <2>1, <2>2
<1>5. Reads'
  <2> SUFFICES ASSUME NEW d \in Doc, pc[d] \notin {"idle", "todo"}
               PROVE  ReadSoFar(d)'
    BY <1>1 DEF Reads
  <2>1. ReadSoFar(d)
    BY DEF Pages, Reads
  <2>2. part \in [Doc -> Page]
    BY DEF DocTypeOK
  <2>3. Race({x} \cap {e \in Doc : reading[e] # NoText})
    BY DEF EditText
  <2>4. reading[d] # NoText
    BY DEF Flow
  <2>5. /\ part'[d].exports = part[d].exports /\ part'[d].kdoc = part[d].kdoc
        /\ part'[d].include = part[d].include /\ part'[d].config = part[d].config
        /\ Raced(d) => Raced(d)'
        /\ d = x => Raced(d)'
    BY <2>2, <2>3, <2>4 DEF Race, Page, Raced
  <2>6. /\ NotYet(d)' /\ Noted(d)' /\ part'[d].config = config'
        /\ Raced(d)' \/ reading'[d] = text'[d]
    BY <1>1, <1>2, <2>1, <2>5 DEF ReadSoFar, NotYet, Noted, MadeOf, buildVars
  <2>7. Ran(d)'
    BY <1>1, <1>2, <2>1, <2>5 DEF ReadSoFar, Ran, RanAt, MadeOf
  <2>8. IncludedSoFar(d)'
    BY <1>1, <1>2, <2>1, <2>5 DEF ReadSoFar, IncludedSoFar, IncludedAt, Included, RightInclude
  <2>. QED
    BY <2>6, <2>7, <2>8 DEF ReadSoFar
<1>. QED
  BY <1>1, <1>3, <1>4, <1>5, OutsidePages

LEMMA WritePages ==
  ASSUME DocTypeOK, Flow, Pages, NEW f \in File, WriteFile(f)
  PROVE  Pages'
<1>1. /\ UNCHANGED <<buildVars, pc, reading, page>> /\ saved'.config = saved.config
      /\ env'.deps = env.deps /\ saved'.deps = saved.deps /\ env'.config = env.config
  BY OutsideCommon
<1>2. /\ UNCHANGED <<text, dir>> /\ there' = there \cup {f}
      /\ \A g \in File : g # f => version'[g] = version[g]
  BY DEF WriteFile, DocTypeOK
<1>3. \A d \in Doc : MarksStay(d)
  BY MarkedByWrite DEF MarksStay
<1>4. \A d \in Doc : MatchStays(d)
  <2> SUFFICES ASSUME NEW d \in Doc PROVE MatchStays(d)
    OBVIOUS
  <2>1. env.deps[d] \subseteq File /\ saved.deps[d] \subseteq File
    BY EnvParts DEF DocTypeOK
  <2>2. ASSUME Match(env, d), f \notin env.deps[d] PROVE Match(env, d)'
    <3>1. Knows(env.deps[d], page[d], text[d], there', version')
      BY <1>2, <2>1, <2>2, KnowsKept DEF Match
    <3>. QED
      BY <1>1, <1>2, <2>2, <3>1 DEF Match
  <2>3. ASSUME Match(saved, d), f \notin saved.deps[d] PROVE Match(saved, d)'
    <3>1. Knows(saved.deps[d], page[d], text[d], there', version')
      BY <1>2, <2>1, <2>3, KnowsKept DEF Match
    <3>. QED
      BY <1>1, <1>2, <2>3, <3>1 DEF Match
  <2>. QED
    BY <2>2, <2>3, MarkedByWrite DEF MatchStays
<1>5. Reads'
  <2> SUFFICES ASSUME NEW d \in Doc, pc[d] \notin {"idle", "todo"}
               PROVE  ReadSoFar(d)'
    BY <1>1 DEF Reads
  <2>1. ReadSoFar(d)
    BY DEF Pages, Reads
  <2>2. part \in [Doc -> Page]
    BY DEF DocTypeOK
  <2>3. Race(UsersOf(f))
    BY DEF WriteFile
  <2>4. reading[d] # NoText
    BY DEF Flow
  <2>5. /\ part'[d].exports = part[d].exports /\ part'[d].kdoc = part[d].kdoc
        /\ part'[d].include = part[d].include /\ part'[d].config = part[d].config
        /\ Raced(d) => Raced(d)'
        /\ Used(d, f) => Raced(d)'
    BY <2>2, <2>3, <2>4 DEF Race, Page, Raced, UsersOf
  <2>6. /\ NotYet(d)' /\ Noted(d)' /\ part'[d].config = config'
        /\ Raced(d)' \/ reading'[d] = text'[d]
    BY <1>1, <1>2, <2>1, <2>5 DEF ReadSoFar, NotYet, Noted, MadeOf, buildVars
  <2>7. Ran(d)'
    <3> SUFFICES ASSUME pc[d] \in {"include", "names", "labels"}, ~Raced(d)'
                 PROVE  RanAt(part'[d], reading[d], there', version')
      BY <1>1 DEF Ran
    <3>1. f \notin MadeOf(part[d], reading[d])
      BY <2>5 DEF Used, Input, MadeOf
    <3>2. MadeOf(part[d], reading[d]) \subseteq File
      BY ReadText DEF Input, MadeOf
    <3>3. RanAt(part[d], reading[d], there, version)
      BY <2>1, <2>5 DEF ReadSoFar, Ran
    <3>4. RanAt(part[d], reading[d], there', version')
      BY <1>2, <3>1, <3>2, <3>3, RanKept
    <3>. QED
      BY <2>5, <3>4 DEF RanAt, MadeOf
  <2>8. IncludedSoFar(d)'
    <3> SUFFICES ASSUME pc[d] \in {"names", "labels"}
                 PROVE  /\ \A i \in part'[d].include : i[1] = dir' /\ reading'[d].include
                        /\ Included(part'[d]) \subseteq env'.deps[d]
                        /\ Raced(d)' \/ IncludedAt(part'[d], reading'[d], there', version')
      BY <1>1 DEF IncludedSoFar
    <3>1. /\ \A i \in part[d].include : i[1] = dir /\ reading[d].include
          /\ Included(part[d]) \subseteq env.deps[d]
          /\ Raced(d) \/ IncludedAt(part[d], reading[d], there, version)
      BY <2>1 DEF ReadSoFar, IncludedSoFar
    <3>2. ASSUME ~Raced(d)' PROVE IncludedAt(part'[d], reading'[d], there', version')
      <4>1. f \notin Included(part[d])
        BY <2>5, <3>1, <3>2 DEF Used, Included
      <4>2. Included(part[d]) \subseteq File
        BY <3>1, EnvParts DEF DocTypeOK
      <4>3. IncludedAt(part[d], reading[d], there', version')
        BY <1>2, <2>5, <3>1, <3>2, <4>1, <4>2, IncludedKept
      <4>. QED
        BY <1>1, <2>5, <4>3 DEF IncludedAt, Included, RightInclude
    <3>. QED
      BY <1>1, <1>2, <2>5, <3>1, <3>2 DEF Included
  <2>. QED
    BY <2>6, <2>7, <2>8 DEF ReadSoFar
<1>. QED
  BY <1>1, <1>3, <1>4, <1>5, OutsidePages

LEMMA RemovePages ==
  ASSUME DocTypeOK, Flow, Pages, NEW f \in File, RemoveFile(f)
  PROVE  Pages'
<1>1. /\ UNCHANGED <<buildVars, pc, reading, page, part, env, saved, text, dir, version>>
      /\ there' = there \ {f}
  BY DEF RemoveFile, readVars
<1>3. \A d \in Doc : MarksStay(d)
  BY MarkedByRemove DEF MarksStay
<1>4. \A d \in Doc : MatchStays(d)
  <2> SUFFICES ASSUME NEW d \in Doc PROVE MatchStays(d)
    OBVIOUS
  <2>2. ASSUME Match(env, d), f \notin env.deps[d] PROVE Match(env, d)'
    <3>1. Knows(env.deps[d], page[d], text[d], there', version)
      BY <1>1, <2>2, KnowsKept DEF Match
    <3>. QED
      BY <1>1, <2>2, <3>1 DEF Match
  <2>3. ASSUME Match(saved, d), f \notin saved.deps[d] PROVE Match(saved, d)'
    <3>1. Knows(saved.deps[d], page[d], text[d], there', version)
      BY <1>1, <2>3, KnowsKept DEF Match
    <3>. QED
      BY <1>1, <2>3, <3>1 DEF Match
  <2>. QED
    BY <2>2, <2>3, MarkedByRemove DEF MatchStays
<1>5. Reads'
  <2> SUFFICES ASSUME NEW d \in Doc, pc[d] \notin {"idle", "todo"}
               PROVE  ReadSoFar(d)'
    BY <1>1 DEF Reads
  <2>1. ReadSoFar(d)
    BY DEF Pages, Reads
  <2>2. RanAt(part[d], reading[d], there, version) => RanAt(part[d], reading[d], there', version)
    BY <1>1, RanKept
  <2>3. IncludedAt(part[d], reading[d], there, version) => IncludedAt(part[d], reading[d], there', version)
    BY <1>1, IncludedKept
  <2>. QED
    BY <1>1, <2>1, <2>2, <2>3
      DEF ReadSoFar, NotYet, Noted, Ran, IncludedSoFar, Raced, buildVars
<1>. QED
  BY <1>1, <1>3, <1>4, <1>5, OutsidePages

LEMMA SetPages ==
  ASSUME DocTypeOK, Flow, Pages, Set
  PROVE  Pages'
<1>1. /\ UNCHANGED <<buildVars, pc, reading, page, part, env, saved, text, there, version>>
      /\ building => dir' = dir
  BY DEF Set, readVars
<1>2. \A d \in Doc : MarksStay(d) /\ MatchStays(d)
  BY <1>1 DEF MarksStay, MatchStays, Marked, Match
<1>3. Reads'
  <2> SUFFICES ASSUME NEW d \in Doc, pc[d] \notin {"idle", "todo"}
               PROVE  ReadSoFar(d)'
    BY <1>1 DEF Reads
  <2>1. ReadSoFar(d) /\ dir' = dir
    BY <1>1 DEF Pages, Reads, Flow
  <2>. QED
    BY <1>1, <2>1 DEF ReadSoFar, NotYet, Noted, Ran, IncludedSoFar, Raced, buildVars
<1>. QED
  BY <1>1, <1>2, <1>3, OutsidePages

LEMMA StartPages ==
  ASSUME DocTypeOK, Flow, Pages, StartBuild
  PROVE  Pages'
<1>1. /\ env'.text = env.text /\ env'.deps = env.deps /\ env'.changed = env.changed
      /\ env'.config = LoadConfig
  BY StartEffect
<1>2. /\ UNCHANGED <<saved, page, text, there, version>> /\ env = saved /\ ~building
      /\ config' = LoadConfig
      /\ \A d \in Doc : pc[d] = "idle" /\ (pc'[d] = IF d \in Outdated(env) THEN "todo" ELSE "idle")
  BY DEF StartBuild, Flow, authorVars
<1>3. \A d \in Doc : /\ Marked(saved, d)' <=> Marked(saved, d)
                     /\ Marked(env, d)' <=> Marked(saved, d)
                     /\ (Flawed(d)' <=> Flawed(d)) /\ (Match(saved, d)' <=> Match(saved, d))
  BY <1>1, <1>2 DEF Marked, Flawed, Match
<1>4. \A d \in Doc : d \in Outdated(env) <=> Marked(saved, d) \/ saved.config # LoadConfig
  BY <1>2 DEF Outdated, Marked, ConfigChanged
<1>5. ReadForReason'
  BY <1>2, <1>3, <1>4 DEF ReadForReason
<1>6. SavedKnows'
  BY <1>2, <1>3 DEF Pages, SavedKnows
<1>7. EnvKnows'
  <2> SUFFICES ASSUME NEW d \in Doc, d \notin Outdated(env)
               PROVE  Flawed(d)' \/ Match(env, d)'
    BY <1>2 DEF EnvKnows
  <2>1. saved.config = LoadConfig /\ (Flawed(d) \/ Match(saved, d))
    BY <1>2, <1>4 DEF Pages, SavedKnows
  <2>2. Match(saved, d) => Match(env, d)'
    BY <1>1, <1>2, <2>1 DEF Match
  <2>. QED
    BY <1>3, <2>1, <2>2
<1>8. Reads'
  BY <1>2 DEF Reads
<1>. QED
  BY <1>5, <1>6, <1>7, <1>8 DEF Pages

LEMMA FinishPages ==
  ASSUME DocTypeOK, Flow, Pages, Finish
  PROVE  Pages'
<1>1. /\ UNCHANGED <<env, page, pc, text, there, version>> /\ saved' = env /\ building /\ ~building'
      /\ \A d \in Doc : pc[d] = "idle"
  BY DEF Finish, authorVars, readVars
<1>2. \A d \in Doc : /\ Marked(saved, d)' <=> Marked(env, d)
                     /\ (Flawed(d)' <=> Flawed(d)) /\ (Match(saved, d)' <=> Match(env, d))
  BY <1>1 DEF Marked, Flawed, Match
<1>3. SavedKnows'
  BY <1>1, <1>2 DEF Pages, SavedKnows, EnvKnows
<1>. QED
  BY <1>1, <1>3 DEF Pages, ReadForReason, EnvKnows, Reads

LEMMA StopPages ==
  ASSUME DocTypeOK, Flow, Pages, Stop
  PROVE  Pages'
<1>1. /\ UNCHANGED <<saved, text, there, version, config>> /\ ~building'
      /\ \A d \in Doc : pc'[d] = "idle"
  BY DEF Stop, authorVars
<1>2. \A d \in Doc :
        /\ page'[d].exports = page[d].exports /\ page'[d].kdoc = page[d].kdoc
        /\ page'[d].include = page[d].include /\ page'[d].config = page[d].config
        /\ Flawed(d) => Flawed(d)'
        /\ page[d].config = config /\ config # saved.config => Flawed(d)'
  <2>1. page \in [Doc -> Page]
    BY DEF DocTypeOK
  <2>. QED
    BY <2>1 DEF Stop, Page, Flawed
<1>3. \A d \in Doc : /\ Marked(saved, d)' <=> Marked(saved, d)
                     /\ Match(saved, d) => Match(saved, d)'
  <2> SUFFICES ASSUME NEW d \in Doc
               PROVE  /\ Marked(saved, d)' <=> Marked(saved, d)
                      /\ Match(saved, d) => Match(saved, d)'
    OBVIOUS
  <2>1. /\ MadeOf(page'[d], text'[d]) = MadeOf(page[d], text[d])
        /\ Included(page'[d]) = Included(page[d])
    BY <1>1, <1>2 DEF MadeOf, Included
  <2>2. Marked(saved, d)' <=> Marked(saved, d)
    BY <1>1 DEF Marked
  <2>3. ASSUME Match(saved, d) PROVE Match(saved, d)'
    <3>1. Knows(saved.deps[d], page[d], text[d], there, version) /\ page[d].config = saved.config
      BY <2>3 DEF Match
    <3>2. RightAt(page'[d], text'[d], there', version')
      BY <1>1, <1>2, <2>1, <3>1 DEF Knows, RightAt, RightInclude
    <3>. QED
      BY <1>1, <1>2, <2>1, <3>1, <3>2 DEF Match, Knows
  <2>. QED
    BY <2>2, <2>3
<1>4. SavedKnows'
  BY <1>1, <1>2, <1>3 DEF Pages, SavedKnows
<1>. QED
  BY <1>1, <1>4 DEF Pages, ReadForReason, EnvKnows, Reads

(* A step of the reading of x that does not end it: the pages stay.        *)
LEMMA ReadingPages ==
  ASSUME DocTypeOK, Flow, Pages, NEW x \in Doc, Read(x), ~AddFigureLabels(x), ReadSoFar(x)'
  PROVE  Pages'
<1>1. /\ UNCHANGED <<text, there, version, dir>> /\ UNCHANGED buildVars /\ UNCHANGED saved
      /\ building /\ pc[x] # "idle"
      /\ \A e \in Doc : e # x => pc'[e] = pc[e] /\ reading'[e] = reading[e] /\ part'[e] = part[e]
      /\ env'.config = env.config
      /\ \A e \in Doc : e # x => env'.text[e] = env.text[e] /\ env'.deps[e] = env.deps[e]
      /\ \A e \in Doc : e \in env'.changed <=> e \in env.changed
  <2>1. UNCHANGED authorVars /\ env'.changed = env.changed
    <3>1. CASE ReadDoc(x)
      BY <3>1, ReadEffect DEF ReadDoc
    <3>2. CASE NoteDependencies(x)
      <4>1. pc[x] = "note" /\ reading[x] \in Text
        BY <3>2, ReadText DEF NoteDependencies, Goto
      <4>2. reading[x].kdoc \cup Exports(x) \in SUBSET File
        BY <4>1, Texts, FilesOfText DEF Exports
      <4>. QED
        BY <3>2, <4>2, NoteEffect DEF NoteDependencies
    <3>3. CASE RunKernelDoc(x)
      BY <3>3 DEF RunKernelDoc
    <3>4. CASE IncludeFile(x)
      <4>1. {dir} \ Prohibited \in SUBSET File
        BY FilesOfText DEF DocTypeOK
      <4>2. (Note(x, {dir} \ Prohibited) \/ env' = env) /\ UNCHANGED authorVars
        BY <3>4 DEF IncludeFile
      <4>. QED
        BY <4>1, <4>2, NoteEffect
    <3>5. CASE AddTargets(x)
      BY <3>5, OwnEffect DEF AddTargets
    <3>. QED
      BY <3>1, <3>2, <3>3, <3>4, <3>5 DEF Read
  <2>. QED
    BY <2>1, ReadCommon DEF authorVars
<1>2. page' = page /\ pc'[x] # "idle"
  BY DEF Read, ReadDoc, NoteDependencies, RunKernelDoc, IncludeFile, AddTargets, Goto, DocTypeOK
<1>3. ReadForReason'
  BY <1>1 DEF Pages, ReadForReason, Marked, buildVars
<1>4. SavedKnows'
  BY <1>1, <1>2 DEF Pages, SavedKnows, Marked, Flawed, Match, buildVars
<1>5. EnvKnows'
  BY <1>1, <1>2 DEF Pages, EnvKnows, Marked, Flawed, Match, buildVars
<1>6. Reads'
  <2> SUFFICES ASSUME NEW d \in Doc, d # x, pc[d] \notin {"idle", "todo"}
               PROVE  ReadSoFar(d)'
    BY <1>1 DEF Reads
  <2>1. ReadSoFar(d)
    BY DEF Pages, Reads
  <2>. QED
    BY <1>1, <2>1 DEF ReadSoFar, NotYet, Noted, Ran, IncludedSoFar, Raced, buildVars
<1>. QED
  BY <1>3, <1>4, <1>5, <1>6 DEF Pages

(* The reading of x goes on: what it has come to is as ReadSoFar says.     *)
LEMMA ReadingGoesOn ==
  ASSUME Typed, Flow, Pages, NEW x \in Doc, Read(x), ~AddFigureLabels(x)
  PROVE  ReadSoFar(x)'
<1>0. DocTypeOK /\ part \in [Doc -> Page] /\ pc \in [Doc -> Steps] /\ text \in [Doc -> Text]
      /\ reading \in [Doc -> Text \cup {NoText}] /\ env.deps \in [Doc -> SUBSET File]
  BY EnvParts DEF Typed, DocTypeOK
<1>1. CASE ReadDoc(x)
  <2>1. /\ pc'[x] = "note" /\ reading'[x] = text[x] /\ text' = text /\ config' = config
        /\ part'[x] = [NoPage EXCEPT !.config = config]
    BY <1>0, <1>1 DEF ReadDoc, Goto, authorVars, buildVars
  <2>2. part'[x].exports = {} /\ part'[x].kdoc = {} /\ part'[x].include = {} /\ part'[x].config = config
    BY <2>1 DEF NoPage
  <2>. QED
    BY <2>1, <2>2 DEF ReadSoFar, NotYet, Noted, Ran, IncludedSoFar
<1>2. CASE NoteDependencies(x)
  <2>1. pc[x] = "note" /\ pc'[x] = "run" /\ UNCHANGED <<text, reading, config>>
    BY <1>0, <1>2 DEF NoteDependencies, Goto, authorVars, buildVars
  <2>2. reading[x] \in Text /\ ReadSoFar(x)
    BY <1>0, <2>1, ReadText DEF Pages, Reads
  <2>3. part[x] \in Page /\ part' = [part EXCEPT ![x].exports = Exports(x)]
    BY <1>0, <1>2 DEF NoteDependencies
  <2>4. /\ part'[x].exports = Exports(x) /\ part'[x].kdoc = part[x].kdoc
        /\ part'[x].include = part[x].include /\ part'[x].config = part[x].config
        /\ part'[x].flaws = part[x].flaws
    BY <1>0, <2>3 DEF Page
  <2>5. env'.deps = [env.deps EXCEPT ![x] = @ \cup (reading[x].kdoc \cup Exports(x))]
    <3>1. reading[x].kdoc \cup Exports(x) \in SUBSET File
      BY <2>2, Texts, FilesOfText DEF Exports
    <3>. QED
      BY <1>0, <1>2, <3>1, NoteEffect DEF NoteDependencies
  <2>6. reading[x].kdoc = {} => Exports(x) = {}
    BY <2>2, Texts DEF Exports
  <2>7. NotYet(x)'
    BY <2>1, <2>2, <2>4, <2>6 DEF ReadSoFar, NotYet
  <2>8. Noted(x)'
    BY <1>0, <2>1, <2>4, <2>5 DEF Noted, MadeOf
  <2>. QED
    BY <2>1, <2>2, <2>4, <2>7, <2>8 DEF ReadSoFar, Ran, IncludedSoFar, Raced
<1>3. CASE RunKernelDoc(x)
  <2>1. /\ pc[x] = "run" /\ pc'[x] = "include"
        /\ UNCHANGED <<text, reading, config, env, there, version>>
    BY <1>0, <1>3 DEF RunKernelDoc, Goto, authorVars, buildVars
  <2>2. reading[x] \in Text /\ ReadSoFar(x) /\ part[x] \in Page
    BY <1>0, <2>1, ReadText DEF Pages, Reads
  <2>3. /\ part'[x].exports = part[x].exports /\ part'[x].include = part[x].include
        /\ part'[x].config = part[x].config
        /\ part[x].flaws \subseteq part'[x].flaws
    <3>1. \/ part' = part
          \/ part' = [part EXCEPT ![x].kdoc = Error]
          \/ part' = [part EXCEPT ![x].kdoc = Versions(Input(x))]
          \/ part' = [part EXCEPT ![x].kdoc = Error, ![x].flaws = @ \cup {"broken"}]
      BY <1>3 DEF RunKernelDoc
    <3>2. CASE part' = part
      BY <3>2
    <3>3. CASE part' = [part EXCEPT ![x].kdoc = Error]
      BY <1>0, <2>2, <3>3 DEF Page
    <3>4. CASE part' = [part EXCEPT ![x].kdoc = Versions(Input(x))]
      BY <1>0, <2>2, <3>4 DEF Page
    <3>5. CASE part' = [part EXCEPT ![x].kdoc = Error, ![x].flaws = @ \cup {"broken"}]
      BY <1>0, <2>2, <3>5 DEF Page
    <3>. QED
      BY <3>1, <3>2, <3>3, <3>4, <3>5
  <2>4. Raced(x)' \/ RanAt(part'[x], reading[x], there, version)
    <3>1. MadeOf(part'[x], reading[x]) = Input(x)
      BY <2>3 DEF MadeOf, Input
    <3>2. CASE reading[x].kdoc = {}
      <4>1. part' = part /\ part[x].kdoc = {}
        BY <1>3, <2>1, <2>2, <3>2 DEF RunKernelDoc, ReadSoFar, NotYet
      <4>. QED
        BY <3>2, <4>1 DEF RanAt
    <3>3. CASE ~(Input(x) \subseteq there)
      BY <3>1, <3>3 DEF RanAt
    <3>4. CASE reading[x].kdoc # {} /\ Input(x) \subseteq there
      <4>1. \/ part' = [part EXCEPT ![x].kdoc = Versions(Input(x))]
            \/ part' = [part EXCEPT ![x].kdoc = Error, ![x].flaws = @ \cup {"broken"}]
        BY <1>3, <3>4 DEF RunKernelDoc
      <4>2. CASE part' = [part EXCEPT ![x].kdoc = Versions(Input(x))]
        <5>1. part'[x].kdoc = Versions(Input(x))
          BY <1>0, <2>2, <4>2 DEF Page
        <5>. QED
          BY <3>1, <3>4, <5>1 DEF RanAt, Versions
      <4>3. CASE part' = [part EXCEPT ![x].kdoc = Error, ![x].flaws = @ \cup {"broken"}]
        BY <1>0, <2>2, <4>3 DEF Page, Raced
      <4>. QED
        BY <4>1, <4>2, <4>3
    <3>. QED
      BY <3>2, <3>3, <3>4
  <2>5. NotYet(x)' /\ Noted(x)'
    BY <2>1, <2>2, <2>3 DEF ReadSoFar, NotYet, Noted, MadeOf
  <2>6. Ran(x)' /\ IncludedSoFar(x)'
    BY <2>1, <2>4 DEF Ran, IncludedSoFar
  <2>. QED
    BY <2>1, <2>2, <2>3, <2>5, <2>6 DEF ReadSoFar, Raced
<1>4. CASE IncludeFile(x)
  <2>1. /\ pc[x] = "include" /\ pc'[x] = "names"
        /\ UNCHANGED <<text, reading, config, there, version, dir>>
    BY <1>0, <1>4 DEF IncludeFile, Goto, authorVars, buildVars
  <2>2. reading[x] \in Text /\ ReadSoFar(x) /\ part[x] \in Page
    BY <1>0, <2>1, ReadText DEF Pages, Reads
  <2>3. reading[x].include \in BOOLEAN /\ part[x].include = {}
    BY <2>1, <2>2, Texts DEF ReadSoFar, NotYet
  <2>4. CASE reading[x].include
    <3>1. part' = [part EXCEPT ![x].include = {<<dir, What(dir)>>}] /\ Note(x, {dir} \ Prohibited)
      BY <1>4, <2>4 DEF IncludeFile
    <3>2. /\ part'[x].exports = part[x].exports /\ part'[x].kdoc = part[x].kdoc
          /\ part'[x].config = part[x].config /\ part'[x].flaws = part[x].flaws
          /\ part'[x].include = {<<dir, What(dir)>>}
      BY <1>0, <2>2, <3>1 DEF Page
    <3>3. {dir} \ Prohibited \in SUBSET File
      BY <1>0, FilesOfText DEF DocTypeOK
    <3>4. env'.deps = [env.deps EXCEPT ![x] = @ \cup ({dir} \ Prohibited)]
      BY <1>0, <3>1, <3>3, NoteEffect
    <3>5. Included(part'[x]) = {dir} \ Prohibited
      BY <3>2 DEF Included
    <3>6. RightInclude(part'[x], reading[x], there, version)
      <4>1. What(dir) = WhatAt(dir, there, version)
        BY DEF What, WhatAt
      <4>2. \A i \in part'[x].include : i[1] = dir /\ i[2] = What(dir)
        BY <3>2
      <4>3. part'[x].include # {}
        BY <3>2
      <4>. QED
        BY <2>3, <2>4, <4>1, <4>2, <4>3 DEF RightInclude
    <3>7. NotYet(x)' /\ Noted(x)'
      BY <1>0, <2>1, <2>2, <3>2, <3>4 DEF ReadSoFar, NotYet, Noted, MadeOf
    <3>8. Ran(x)'
      BY <2>1, <2>2, <3>2 DEF ReadSoFar, Ran, RanAt, MadeOf, Raced
    <3>9. IncludedSoFar(x)'
      BY <1>0, <2>1, <2>4, <3>2, <3>4, <3>5, <3>6 DEF IncludedSoFar, IncludedAt
    <3>. QED
      BY <2>1, <2>2, <3>2, <3>7, <3>8, <3>9 DEF ReadSoFar, Raced
  <2>5. CASE ~reading[x].include
    <3>1. part' = part /\ env' = env
      BY <1>4, <2>5 DEF IncludeFile
    <3>2. RightInclude(part[x], reading[x], there, version) /\ Included(part[x]) = {}
      BY <2>3, <2>5 DEF RightInclude, Included
    <3>3. NotYet(x)' /\ Noted(x)' /\ Ran(x)'
      BY <2>1, <2>2, <3>1 DEF ReadSoFar, NotYet, Noted, Ran, Raced
    <3>4. IncludedSoFar(x)'
      BY <2>1, <2>3, <3>1, <3>2 DEF IncludedSoFar, IncludedAt
    <3>. QED
      BY <2>1, <2>2, <3>1, <3>3, <3>4 DEF ReadSoFar, Raced
  <2>. QED
    BY <2>4, <2>5
<1>5. CASE AddTargets(x)
  <2>1. /\ pc[x] = "names" /\ pc'[x] = "labels"
        /\ UNCHANGED <<text, reading, config, there, version, dir, part>>
    BY <1>0, <1>5 DEF AddTargets, Goto, authorVars, buildVars
  <2>2. ReadSoFar(x)
    BY <2>1 DEF Pages, Reads
  <2>3. env'.deps = env.deps
    BY <1>0, <1>5, OwnEffect DEF AddTargets
  <2>. QED
    BY <2>1, <2>2, <2>3 DEF ReadSoFar, NotYet, Noted, Ran, IncludedSoFar, Raced
<1>. QED
  BY <1>1, <1>2, <1>3, <1>4, <1>5 DEF Read

(* The reading of x is over: its page is as good as what was read.         *)
LEMMA PageRead ==
  ASSUME Typed, Flow, Pages, NEW x \in Doc, AddFigureLabels(x)
  PROVE  Pages'
<1>0. DocTypeOK /\ page \in [Doc -> Page] /\ pc \in [Doc -> Steps] /\ Read(x)
  BY DEF Typed, DocTypeOK, Read
<1>1. /\ UNCHANGED <<text, there, version, dir>> /\ UNCHANGED buildVars /\ UNCHANGED saved
      /\ building /\ pc[x] = "labels" /\ pc'[x] = "idle"
      /\ \A e \in Doc : e # x => pc'[e] = pc[e] /\ reading'[e] = reading[e] /\ part'[e] = part[e]
      /\ env'.config = env.config
      /\ \A e \in Doc : e # x => env'.text[e] = env.text[e] /\ env'.deps[e] = env.deps[e]
      /\ \A e \in Doc : e # x => page'[e] = page[e] /\ (e \in env'.changed <=> e \in env.changed)
  BY <1>0, ReadCommon DEF AddFigureLabels, Goto, authorVars
<1>2. page'[x] = part[x] /\ env'.deps = env.deps
  BY <1>0, LabelEffect DEF AddFigureLabels
<1>3. ReadSoFar(x)
  BY <1>1 DEF Pages, Reads
<1>4. ReadForReason'
  BY <1>1 DEF Pages, ReadForReason, Marked, buildVars
<1>5. SavedKnows'
  <2> SUFFICES ASSUME NEW d \in Doc
               PROVE  \/ Marked(saved, d)' \/ Flawed(d)' \/ Match(saved, d)'
                      \/ building' /\ config' # saved'.config /\ page'[d].config = config'
    BY DEF SavedKnows
  <2>1. CASE d = x
    <3>1. Marked(saved, d) \/ config # saved.config
      BY <1>1, <2>1 DEF Pages, ReadForReason
    <3>2. Marked(saved, d) => Marked(saved, d)'
      BY <1>1 DEF Marked
    <3>3. page'[d].config = config
      BY <1>2, <1>3, <2>1 DEF ReadSoFar
    <3>. QED
      BY <1>1, <3>1, <3>2, <3>3 DEF buildVars
  <2>2. CASE d # x
    BY <1>1, <2>2 DEF Pages, SavedKnows, Marked, Flawed, Match, buildVars
  <2>. QED
    BY <2>1, <2>2
<1>6. EnvKnows'
  <2> SUFFICES ASSUME NEW d \in Doc, pc'[d] = "idle"
               PROVE  Marked(env, d)' \/ Flawed(d)' \/ Match(env, d)'
    BY DEF EnvKnows
  <2>1. CASE d = x
    <3> SUFFICES ASSUME ~Raced(x), env.deps[x] \subseteq there PROVE Match(env, d)'
      BY <1>1, <1>2, <2>1 DEF Marked, Flawed, Raced
    <3>1. /\ reading[x] = text[x] /\ RanAt(part[x], reading[x], there, version)
          /\ IncludedAt(part[x], reading[x], there, version)
          /\ MadeOf(part[x], reading[x]) \subseteq env.deps[x]
          /\ Included(part[x]) \subseteq env.deps[x]
      BY <1>1, <1>3 DEF ReadSoFar, Ran, Noted, IncludedSoFar
    <3>2. Knows(env.deps[x], part[x], reading[x], there, version)
      BY <3>1, ReadIsRight
    <3>3. part[x].config = env.config
      BY <1>1, <1>3 DEF ReadSoFar, Flow
    <3>. QED
      BY <1>1, <1>2, <2>1, <3>1, <3>2, <3>3 DEF Match
  <2>2. CASE d # x
    BY <1>1, <2>2 DEF Pages, EnvKnows, Marked, Flawed, Match, buildVars
  <2>. QED
    BY <2>1, <2>2
<1>7. Reads'
  <2> SUFFICES ASSUME NEW d \in Doc, d # x, pc[d] \notin {"idle", "todo"}
               PROVE  ReadSoFar(d)'
    BY <1>1 DEF Reads
  <2>1. ReadSoFar(d)
    BY DEF Pages, Reads
  <2>. QED
    BY <1>1, <2>1 DEF ReadSoFar, NotYet, Noted, Ran, IncludedSoFar, Raced, buildVars
<1>. QED
  BY <1>4, <1>5, <1>6, <1>7 DEF Pages

LEMMA PagesStep == Typed /\ Flow /\ Pages /\ [Next]_vars => Pages'
<1> SUFFICES ASSUME Typed, Flow, Pages, [Next]_vars PROVE Pages'
  OBVIOUS
<1>0. DocTypeOK
  BY DEF Typed
<1>1. CASE StartBuild \/ Finish \/ Stop \/ Set
  BY <1>0, <1>1, StartPages, FinishPages, StopPages, SetPages
<1>2. ASSUME NEW x \in Doc, Read(x) PROVE Pages'
  <2>1. CASE AddFigureLabels(x)
    BY <2>1, PageRead
  <2>2. CASE ~AddFigureLabels(x)
    <3>1. ReadSoFar(x)'
      BY <1>2, <2>2, ReadingGoesOn
    <3>. QED
      BY <1>0, <1>2, <2>2, <3>1, ReadingPages
  <2>. QED
    BY <2>1, <2>2
<1>3. CASE \E d \in Doc : EditText(d)
  BY <1>0, <1>3, EditPages
<1>4. CASE \E f \in File : WriteFile(f) \/ RemoveFile(f)
  BY <1>0, <1>4, WritePages, RemovePages
<1>5. CASE UNCHANGED vars
  <2>1. UNCHANGED <<text, there, version, dir, building, config, env, saved, pc, reading, part, page>>
    BY <1>5 DEF vars, authorVars, buildVars, readVars
  <2>. QED
    BY <2>1 DEF Pages, ReadForReason, SavedKnows, EnvKnows, Reads, ReadSoFar, Marked, Match, Flawed,
         NotYet, Noted, Ran, IncludedSoFar, Raced
<1>. QED
  BY <1>1, <1>2, <1>3, <1>4, <1>5 DEF Next

----------------------------------------------------------------------------
(* The inductive invariant: types, control flow, the inventory and the     *)
(* pages of the environment being made and of that on disk.                *)
THEOREM DocInvariance == Spec => []DocInv
<1>1. Init => DocInv
  BY TypeInit, FlowInit, InventoryInit, PagesInit DEF DocInv
<1>2. DocInv /\ [Next]_vars => DocInv'
  BY TypeStep, FlowStep, InventoryStep, PagesStep DEF DocInv
<1>. QED
  BY <1>1, <1>2, PTL DEF Spec

(* The types of the environments, pages and files.                         *)
THEOREM DocTypeOKAlways == Spec => []DocTypeOK
<1>1. DocInv => DocTypeOK
  BY DEF DocInv, Typed
<1>. QED
  BY <1>1, DocInvariance, PTL

(* kernel-doc and kernel-include tell Sphinx all their pages depend on,    *)
(* and the configuration values of kernel-doc are of its environment: a    *)
(* page that is not what it would be read as is read again, however edits, *)
(* removals, failures and stopped builds are interleaved.                  *)
THEOREM StaleIsOutdatedAlways == Spec => []StaleIsOutdated
<1>1. DocInv => StaleIsOutdated
  <2> SUFFICES ASSUME DocInv, NEW d \in Doc, ~building, ~IsCurrent(d), d \notin Outdated(saved)
               PROVE  Flawed(d)
    BY DEF StaleIsOutdated, Flawed
  <2>1. ~Marked(saved, d) /\ saved.config = LoadConfig
    BY DEF Outdated, Marked, ConfigChanged
  <2>2. Match(saved, d) => IsCurrent(d)
    <3> SUFFICES ASSUME Match(saved, d) PROVE IsCurrent(d)
      OBVIOUS
    <3>1. RightAt(page[d], text[d], there, version) /\ page[d].config = LoadConfig
      BY <2>1 DEF Match, Knows
    <3>. QED
      BY <3>1 DEF RightAt, RightInclude, MadeOf, IsCurrent, Versions, What, WhatAt
  <2>. QED
    BY <2>1, <2>2 DEF DocInv, Pages, SavedKnows
<1>. QED
  BY <1>1, DocInvariance, PTL

(* The C domain's inventory and the labels of figures: a name leads to a   *)
(* document that describes it, and is not lost, but for names of two.      *)
THEOREM InventoryIsTrueAlways == Spec => []InventoryIsTrue
<1>1. DocInv => InventoryIsTrue
  BY DEF DocInv, Inventory
<1>. QED
  BY <1>1, DocInvariance, PTL
=============================================================================

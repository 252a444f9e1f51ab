--------------------------- MODULE KFigure_proofs ---------------------------
(***************************************************************************)
(* Proofs about module KFigure, for any documents, pictures, formats and   *)
(* bounds: types, the saved texts, and that what a document shows is its   *)
(* own picture and current, but for the faults the property names.         *)
(*                                                                         *)
(* A file of the output directory is good, or a tool is at work that will  *)
(* make it good: the one that opened it last.  Should that tool fail or be *)
(* stopped, its picture is tainted.                                        *)
(***************************************************************************)
EXTENDS KFigure, TLAPS

Fine(p) == p \notin tainted \cup raced

(* Nothing has a time to come.                                             *)
Times ==
  /\ \A f \in File : ctime[f] <= clock
  /\ \A s \in Source : stime[s] <= clock

Converting == {"check", "open", "tool", "read"}
UsesMarkup(d) ==
  pc[d] \in {"saving"} \cup Converting \/ (pc[d] = "done" /\ shown[d] \in {"asis", "picture"})

(* Where writers are, and what they have found.                            *)
Flow ==
  /\ \A d \in Doc : pc[d] \in UnderWay \cup {"wait"} => writing
  /\ \A d \in Doc : pc[d] \in {"save", "saving"} => picture[d] \in Code
  /\ \A d \in Doc : picture[d] \in Code /\ UsesMarkup(d) => Exists(picture[d])
  /\ \A d \in Doc : seen[d] <= SourceVersion(picture[d])

(* What there is in the file of a text.                                    *)
Markup ==
  /\ \A c \in Code : content[c] \in {Unfinished, <<c, 1>>}
  /\ \A c \in Code : ~Exists(c) => content[c] = Unfinished
  /\ \A d \in Doc : picture[d] \in Code => read[d] \in {Unfinished, <<picture[d], 1>>}

(* The text is all there, or its last writer has still to write it.        *)
Saver(c) == \E e \in Doc : picture[e] = c /\ pc[e] = "saving" /\ opener[c] = {e}
Sound(c) == content[c] = <<c, 1>> \/ Saver(c)
MarkupSound == \A c \in Code : Exists(c) /\ c \notin tainted => Sound(c)
MarkupRead ==
  \A d \in Doc : pc[d] = "read" /\ picture[d] \in Code /\ read[d] # Unfinished
                   => Sound(picture[d])

(* Who writes a text does so alone, or there is a race.                    *)
OneSaver ==
  \A d, e \in Doc : pc[d] = "saving" /\ d # e /\ picture[d] = picture[e] =>
    pc[e] \in {"none", "wait"} \/ picture[d] \in raced

(* A text that is there was written by another than who found it missing.  *)
SavedByOther ==
  \A d \in Doc : pc[d] = "save" /\ content[picture[d]] # Unfinished =>
    \E e \in Doc \ {d} : picture[e] = picture[d] /\ pc[e] \notin {"none", "wait"}

AtWork(p) == {e \in Doc : picture[e] = p /\ pc[e] \in {"tool", "read"}}
InWork(p) == \E e \in AtWork(p) : opener[BaseOf[p]] = {e}

(* The file of p is of its source as it is now, or will be.                *)
Good(p) == content[BaseOf[p]] = <<p, SourceVersion(p)>> \/ InWork(p)

(* A tool has read its source.                                             *)
ReadRight(p) ==
  \A d \in Doc : picture[d] = p /\ pc[d] = "read" => read[d] = <<p, SourceVersion(p)>>

(* No tool works on the file for another picture.                          *)
OneName(p) ==
  \A d \in Doc : pc[d] \in {"tool", "read"} /\ BaseOf[picture[d]] = BaseOf[p] => picture[d] = p

(* isNewer is right.                                                       *)
NewerIsGood(p) == IsNewer(BaseOf[p], p) \/ AtWork(p) # {} => Good(p)

(* So is what was done.                                                    *)
DoneIsGood(p) ==
  \A d \in Doc : picture[d] = p /\ pc[d] = "done" /\ shown[d] = "picture" =>
    \/ InWork(p)
    \/ \E v \in Nat : content[BaseOf[p]] = <<p, v>> /\ seen[d] <= v

Current(p) == ReadRight(p) /\ OneName(p) /\ NewerIsGood(p) /\ DoneIsGood(p)
PictureInv == \A p \in Picture : Fine(p) => Current(p)

MarkupInv == Markup /\ MarkupSound /\ MarkupRead /\ OneSaver /\ SavedByOther

FigureInv == FigureTypeOK /\ Times /\ Flow /\ MarkupInv /\ PictureInv

----------------------------------------------------------------------------
(* What the steps of a writer do.                                          *)

(* d's writer goes to k, and if it is done, shows w.                       *)
Moves(d, k, w) ==
  /\ pc' = [pc EXCEPT ![d] = k] /\ failed' \in BOOLEAN
  /\ shown' = IF k = "done" THEN [shown EXCEPT ![d] = w] ELSE shown

Shows == {"nothing", "text", "asis", "picture"}

LEMMA MovesEffect ==
  ASSUME FigureTypeOK, NEW d \in Doc, NEW k \in Control, NEW w \in Shows, Moves(d, k, w)
  PROVE  /\ pc' \in [Doc -> Control] /\ shown' \in [Doc -> Shows] /\ failed' \in BOOLEAN
         /\ pc'[d] = k /\ (k = "done" => shown'[d] = w)
         /\ \A e \in Doc \ {d} : pc'[e] = pc[e] /\ shown'[e] = shown[e]
BY DEF FigureTypeOK, Moves, Shows

LEMMA GotoMoves ==
  ASSUME FigureTypeOK, NEW d \in Doc, NEW k, k # "done", Goto(d, k)
  PROVE  Moves(d, k, "text")
BY DEF FigureTypeOK, Goto, Moves

LEMMA ShowMoves ==
  ASSUME FigureTypeOK, NEW d \in Doc, NEW w, Show(d, w)
  PROVE  Moves(d, "done", w)
BY DEF FigureTypeOK, Show, Moves

LEMMA RaiseMoves ==
  ASSUME FigureTypeOK, NEW d \in Doc, Raise(d)
  PROVE  Moves(d, "stopped", "text")
BY DEF FigureTypeOK, Raise, Moves

LEMMA ShowTextMoves ==
  ASSUME FigureTypeOK, NEW d \in Doc, ShowText(d)
  PROVE  \/ Moves(d, "done", "text")
         \/ Moves(d, "stopped", "text") /\ picture[d] \notin Code
BY ShowMoves, RaiseMoves DEF ShowText, SourceIsThere

LEMMA ConvertMoves ==
  ASSUME FigureTypeOK, NEW d \in Doc, ConvertImage(d)
  PROVE  \/ Moves(d, "check", "text")
         \/ Moves(d, "done", "text") \/ Moves(d, "done", "asis")
         \/ Moves(d, "stopped", "text") /\ picture[d] \notin Code
<1>1. Way(picture[d]) \in {"picture", "text", "asis"}
  BY DEF Way
<1>2. CASE Way(picture[d]) = "picture"
  BY <1>2, GotoMoves DEF ConvertImage
<1>3. CASE Way(picture[d]) = "text"
  BY <1>3, ShowTextMoves DEF ConvertImage
<1>4. CASE Way(picture[d]) = "asis"
  BY <1>4, ShowMoves DEF ConvertImage
<1>. QED
  BY <1>1, <1>2, <1>3, <1>4

----------------------------------------------------------------------------
(* Types.                                                                  *)

LEMMA Parts ==
  ASSUME FigureTypeOK
  PROVE  /\ \A d \in Doc : picture[d] \in Picture /\ BaseOf[picture[d]] \in Base
                           /\ pc[d] \in Control /\ read[d] \in Content
                           /\ seen[d] \in Nat
         /\ \A f \in File : content[f] \in Content /\ ctime[f] \in Nat /\ ctime[f] \in Time
         /\ \A q \in Source : version[q] \in Version /\ version[q] \in Nat /\ stime[q] \in Nat
         /\ \A q \in Picture : BaseOf[q] \in Base /\ BaseOf[q] \in File /\ BaseOf[q] \notin Code
         /\ Base \subseteq File /\ Code \subseteq File /\ Code \cap Base = {}
         /\ Source \cap Code = {} /\ Source \subseteq Picture /\ Code \subseteq Picture
         /\ Picture = Source \cup Code
         /\ clock \in Nat \ {0} /\ clock \in Time
BY KFigureAssumption DEF FigureTypeOK, Version, Time, File, Picture

LEMMA Sources ==
  ASSUME FigureTypeOK, NEW q \in Picture
  PROVE  /\ SourceVersion(q) \in Version /\ SourceVersion(q) \in Nat
         /\ SourceContent(q) \in Content /\ SourceTime(q) \in Nat
         /\ <<q, SourceVersion(q)>> \in Content
<1>1. SourceVersion(q) \in Version /\ SourceVersion(q) \in Nat
  BY Parts, KFigureAssumption DEF SourceVersion, Version
<1>2. SourceTime(q) \in Nat
  BY Parts DEF SourceTime
<1>3. <<q, SourceVersion(q)>> \in Content
  BY <1>1 DEF Content
<1>4. CASE q \in Code
  BY <1>1, <1>2, <1>3, <1>4, Parts DEF SourceContent
<1>5. CASE q \notin Code
  BY <1>1, <1>2, <1>3, <1>5 DEF SourceContent, SourceVersion
<1>. QED
  BY <1>4, <1>5

LEMMA InitTypes == Init => FigureTypeOK
<1> SUFFICES ASSUME Init PROVE FigureTypeOK
  OBVIOUS
<1>1. version \in [Source -> Version] /\ stime \in [Source -> Time]
  <2>1. version \in [Source -> {0, 1}] /\ stime = [q \in Source |-> version[q]]
    BY DEF Init
  <2>2. {0, 1} \subseteq Version /\ {0, 1} \subseteq Time
    BY KFigureAssumption DEF Version, Time
  <2>. QED
    BY <2>1, <2>2
<1>2. clock \in Time \ {0} /\ ctime \in [File -> Time] /\ seen \in [Doc -> Version]
  BY KFigureAssumption DEF Init, Time, Version
<1>3. content \in [File -> Content] /\ read \in [Doc -> Content] /\ opener \in [File -> SUBSET Doc]
  BY DEF Init, Content
<1>4. build \in 0 .. MaxBuild
  BY KFigureAssumption DEF Init
<1>. QED
  BY <1>1, <1>2, <1>3, <1>4 DEF Init, FigureTypeOK, Control

(* The steps of writers that move, and change files, readings and what was *)
(* found.                                                                  *)
LEMMA WriterTypes ==
  ASSUME FigureTypeOK, Flow, NEW d \in Doc, Writer(d)
  PROVE  FigureTypeOK'
<1> USE DEF srcVars, fileVars, buildVars, history
<1>1. ASSUME NEW k \in Control, NEW w \in Shows, Moves(d, k, w),
             UNCHANGED <<srcVars, clock, build, writing, tools>>,
             content' \in [File -> Content], ctime' \in [File -> Time],
             opener' \in [File -> SUBSET Doc], images' \subseteq Source,
             read' \in [Doc -> Content], seen' \in [Doc -> Version],
             tainted' \subseteq Picture, raced' \subseteq Code
      PROVE  FigureTypeOK'
  BY <1>1, MovesEffect DEF FigureTypeOK, Shows
<1>2. CASE VisitImage(d)
  <2>1. ConvertImage(d) /\ seen' \in [Doc -> Version]
    BY <1>2, Parts DEF VisitImage, FigureTypeOK
  <2>. QED
    BY <1>1, <1>2, <2>1, ConvertMoves DEF VisitImage, FigureTypeOK, Control, Shows
<1>3. CASE VisitRender(d)
  <2>1. seen' \in [Doc -> Version] /\ raced' \subseteq Code
    BY <1>3, KFigureAssumption DEF VisitRender, FigureTypeOK, Version
  <2>2. Show(d, "text") \/ Goto(d, "save") \/ ConvertImage(d)
    BY <1>3 DEF VisitRender
  <2>3. \/ Moves(d, "done", "text") \/ Moves(d, "save", "text") \/ Moves(d, "check", "text")
        \/ Moves(d, "done", "asis") \/ Moves(d, "stopped", "text")
    BY <2>2, ShowMoves, GotoMoves, ConvertMoves
  <2>. QED
    BY <1>1, <1>3, <2>1, <2>3 DEF VisitRender, FigureTypeOK, Control, Shows
<1>4. CASE OpenMarkup(d)
  <2>1. Moves(d, "saving", "text")
    BY <1>4, GotoMoves DEF OpenMarkup
  <2>2. content' \in [File -> Content] /\ ctime' \in [File -> Time] /\ opener' \in [File -> SUBSET Doc]
    BY <1>4, Parts DEF OpenMarkup, FigureTypeOK, Content
  <2>3. raced' \subseteq Code
    BY <1>4 DEF OpenMarkup, Flow, FigureTypeOK
  <2>. QED
    BY <1>1, <1>4, <2>1, <2>2, <2>3 DEF OpenMarkup, FigureTypeOK, Control, Shows
<1>5. CASE SaveMarkup(d)
  <2>1. content' \in [File -> Content]
    <3>1. picture[d] \in Code
      BY <1>5 DEF SaveMarkup, Flow
    <3>2. <<picture[d], 1>> \in Content
      BY <3>1, KFigureAssumption DEF Content, Picture, Version
    <3>. QED
      BY <1>5, <3>2 DEF SaveMarkup, FigureTypeOK
  <2>2. ctime' \in [File -> Time] /\ ConvertImage(d)
    BY <1>5, Parts DEF SaveMarkup, FigureTypeOK
  <2>. QED
    BY <1>1, <1>5, <2>1, <2>2, ConvertMoves DEF SaveMarkup, FigureTypeOK, Control, Shows
<1>6. CASE CheckNewer(d)
  <2>1. images' \subseteq Source
    BY <1>6 DEF CheckNewer, PopImage, FigureTypeOK
  <2>2. Moves(d, "stopped", "text") \/ Moves(d, "done", "picture") \/ Moves(d, "open", "text")
    BY <1>6, RaiseMoves, ShowMoves, GotoMoves DEF CheckNewer
  <2>. QED
    BY <1>1, <1>6, <2>1, <2>2 DEF CheckNewer, FigureTypeOK, Control, Shows
<1>7. CASE RunTool(d)
  <2>1. Moves(d, "tool", "text")
    BY <1>7, GotoMoves DEF RunTool
  <2>2. content' \in [File -> Content] /\ ctime' \in [File -> Time] /\ opener' \in [File -> SUBSET Doc]
    BY <1>7, Parts DEF RunTool, FigureTypeOK, Content
  <2>3. tainted' \subseteq Picture
    BY <1>7 DEF RunTool, SameName, FigureTypeOK
  <2>. QED
    BY <1>1, <1>7, <2>1, <2>2, <2>3 DEF RunTool, FigureTypeOK, Control, Shows
<1>8. CASE ToolReads(d)
  <2>1. Moves(d, "read", "text")
    BY <1>8, GotoMoves DEF ToolReads
  <2>2. read' \in [Doc -> Content]
    BY <1>8, Parts, Sources DEF ToolReads, FigureTypeOK
  <2>. QED
    BY <1>1, <1>8, <2>1, <2>2 DEF ToolReads, FigureTypeOK, Control, Shows
<1>9. CASE ToolSucceeds(d)
  <2>1. Moves(d, "done", "picture")
    BY <1>9, ShowMoves DEF ToolSucceeds
  <2>2. content' \in [File -> Content] /\ ctime' \in [File -> Time] /\ read' \in [Doc -> Content]
    <3>1. read[d] \in Content /\ content[BaseOf[picture[d]]] \in Content /\ Unfinished \in Content
      BY Parts DEF Content
    <3>. QED
      BY <1>9, <3>1, Parts DEF ToolSucceeds, FigureTypeOK
  <2>3. tainted' \subseteq Picture /\ raced' \subseteq Code
    BY <1>9 DEF ToolSucceeds, FigureTypeOK
  <2>. QED
    BY <1>1, <1>9, <2>1, <2>2, <2>3 DEF ToolSucceeds, FigureTypeOK, Control, Shows
<1>10. CASE ToolFails(d)
  <2>1. Moves(d, "done", "text") \/ Moves(d, "stopped", "text")
    BY <1>10, ShowTextMoves DEF ToolFails
  <2>2. content' \in [File -> Content] /\ ctime' \in [File -> Time] /\ read' \in [Doc -> Content]
    BY <1>10, Parts DEF ToolFails, FigureTypeOK, Content
  <2>3. tainted' \subseteq Picture
    BY <1>10, Parts DEF ToolFails, FigureTypeOK
  <2>. QED
    BY <1>1, <1>10, <2>1, <2>2, <2>3 DEF ToolFails, FigureTypeOK, Control, Shows
<1>. QED
  BY <1>2, <1>3, <1>4, <1>5, <1>6, <1>7, <1>8, <1>9, <1>10 DEF Writer, ToolEnds

(* A build, the author and the clock.                                      *)
LEMMA OtherTypes ==
  ASSUME FigureTypeOK,
         StartBuild \/ Finish \/ Stop \/ Tick \/ (\E q \in Source : Edit(q)) \/ UNCHANGED vars
  PROVE  FigureTypeOK'
<1> USE DEF srcVars, fileVars, buildVars, docVars, history
<1>1. CASE StartBuild
  <2>1. /\ pc' \in [Doc -> Control] /\ images' \subseteq Source /\ build' \in 0 .. MaxBuild
        /\ tools' \subseteq Tool /\ writing' \in BOOLEAN
    BY <1>1, KFigureAssumption DEF StartBuild, FigureTypeOK, Control, ImagesOf
  <2>2. seen' \in [Doc -> Version] /\ shown' \in [Doc -> Shows]
    BY <1>1, KFigureAssumption DEF StartBuild, Version, Shows
  <2>. QED
    BY <1>1, <2>1, <2>2 DEF StartBuild, FigureTypeOK, Shows
<1>2. CASE Finish
  <2>1. /\ pc' \in [Doc -> Control] /\ ctime' \in [File -> Time] /\ tainted' \subseteq Picture
    BY <1>2, Parts DEF Finish, FigureTypeOK, Control
  <2>2. content' \in [File -> Content]
    <3> DEFINE copied == {b \in Base : ~failed /\ Copied(b) # {}}
               new(f) == IF f \in copied
                         THEN LET q == CHOOSE q \in Copied(f) : TRUE IN <<q, version[q]>>
                         ELSE content[f]
    <3>1. content' = [f \in File |-> new(f)]
      BY <1>2 DEF Finish
    <3>2. ASSUME NEW f \in File PROVE new(f) \in Content
      <4>1. CASE f \in copied
        <5>1. PICK q \in Copied(f) : new(f) = <<q, version[q]>>
          BY <4>1
        <5>2. q \in Source /\ version[q] \in Version
          BY <5>1, Parts DEF Copied, FigureTypeOK
        <5>. QED
          BY <5>1, <5>2 DEF Content, Picture
      <4>2. CASE f \notin copied
        BY <4>2, Parts
      <4>. QED
        BY <4>1, <4>2
    <3>. QED
      BY <3>1, <3>2
  <2>3. Exit
    BY <1>2 DEF Finish
  <2>4. /\ read' \in [Doc -> Content] /\ opener' \in [File -> SUBSET Doc]
        /\ images' \subseteq Source /\ tools' \subseteq Tool
    BY <2>3 DEF Exit, Content
  <2>. QED
    BY <2>1, <2>2, <2>3, <2>4 DEF Exit, FigureTypeOK
<1>3. CASE Stop
  <2>1. pc' \in [Doc -> Control]
    BY <1>3 DEF Stop, FigureTypeOK, Control
  <2>2. tainted' \subseteq Picture
    <3>1. \A d \in Doc : HasOpen(d) \subseteq Picture
      BY Parts DEF HasOpen, SameName
    <3>. QED
      BY <1>3, <3>1 DEF Stop, FigureTypeOK
  <2>3. Exit /\ UNCHANGED <<content, ctime>>
    BY <1>3 DEF Stop
  <2>4. /\ read' \in [Doc -> Content] /\ opener' \in [File -> SUBSET Doc]
        /\ images' \subseteq Source /\ tools' \subseteq Tool
    BY <2>3 DEF Exit, Content
  <2>. QED
    BY <2>1, <2>2, <2>3, <2>4 DEF Exit, FigureTypeOK
<1>4. CASE Tick
  BY <1>4, KFigureAssumption DEF Tick, FigureTypeOK, Time
<1>5. ASSUME NEW q \in Source, Edit(q) PROVE FigureTypeOK'
  <2>1. version' \in [Source -> Version] /\ stime' \in [Source -> Time]
    BY <1>5, Parts, KFigureAssumption DEF Edit, FigureTypeOK, Version
  <2>2. pc' \in [Doc -> Control] /\ tainted' \subseteq Picture
    BY <1>5, Parts DEF Edit, FigureTypeOK, Control
  <2>. QED
    BY <1>5, <2>1, <2>2 DEF Edit, FigureTypeOK
<1>6. CASE UNCHANGED vars
  BY <1>6 DEF vars, FigureTypeOK
<1>. QED
  BY <1>1, <1>2, <1>3, <1>4, <1>5, <1>6

----------------------------------------------------------------------------
(* Where writers are, and times.                                           *)

LEMMA InitFlow == Init => Times /\ Flow
<1> SUFFICES ASSUME Init PROVE Times /\ Flow
  OBVIOUS
<1>1. FigureTypeOK
  BY InitTypes
<1>2. Times
  <2>1. \A q \in Source : stime[q] \in {0, 1}
    BY DEF Init
  <2>. QED
    BY <2>1 DEF Init, Times
<1>3. \A d \in Doc : seen[d] <= SourceVersion(picture[d])
  <2> SUFFICES ASSUME NEW d \in Doc PROVE seen[d] <= SourceVersion(picture[d])
    OBVIOUS
  <2>1. seen[d] = 0 /\ picture[d] \in Picture
    BY <1>1, Parts DEF Init
  <2>2. SourceVersion(picture[d]) \in Nat
    BY <1>1, <2>1, Sources
  <2>. QED
    BY <2>1, <2>2
<1>. QED
  BY <1>2, <1>3 DEF Init, Flow, UsesMarkup, UnderWay, Converting

(* Clocks of files go on.                                                  *)
Onward ==
  /\ clock' \in Nat /\ clock <= clock'
  /\ \A f \in File : ctime'[f] = ctime[f] \/ (ctime'[f] = clock /\ clock' = clock)
  /\ \A q \in Source : stime'[q] = stime[q] \/ (stime'[q] = clock /\ clock' = clock)

LEMMA TimesStep ==
  ASSUME FigureTypeOK, Times, Onward
  PROVE  Times' /\ \A f \in File : ctime[f] # 0 => ctime'[f] # 0
<1>1. Times'
  <2>1. \A f \in File : ctime'[f] <= clock'
    BY Parts DEF Times, Onward
  <2>2. \A q \in Source : stime'[q] <= clock'
    BY Parts DEF Times, Onward
  <2>. QED
    BY <2>1, <2>2 DEF Times
<1>2. \A f \in File : ctime[f] # 0 => ctime'[f] # 0
  BY Parts DEF Onward
<1>. QED
  BY <1>1, <1>2

LEMMA WriterGoesOnward ==
  ASSUME FigureTypeOK, NEW d \in Doc, Writer(d)
  PROVE  /\ Onward /\ UNCHANGED <<picture, version, stime, clock, writing, format>>
         /\ pc[d] \in UnderWay \cup {"wait"}
<1> USE Parts DEF srcVars, fileVars, buildVars, history, Onward, FigureTypeOK, UnderWay
<1>1. CASE VisitImage(d)
  BY <1>1 DEF VisitImage, MayStart
<1>2. CASE VisitRender(d)
  BY <1>2 DEF VisitRender, MayStart
<1>3. CASE OpenMarkup(d)
  BY <1>3 DEF OpenMarkup
<1>4. CASE SaveMarkup(d)
  BY <1>4 DEF SaveMarkup
<1>5. CASE CheckNewer(d)
  BY <1>5 DEF CheckNewer
<1>6. CASE RunTool(d)
  BY <1>6 DEF RunTool
<1>7. CASE ToolReads(d)
  BY <1>7 DEF ToolReads
<1>8. CASE ToolSucceeds(d)
  BY <1>8 DEF ToolSucceeds
<1>9. CASE ToolFails(d)
  BY <1>9 DEF ToolFails
<1>. QED
  BY <1>1, <1>2, <1>3, <1>4, <1>5, <1>6, <1>7, <1>8, <1>9 DEF Writer, ToolEnds

LEMMA WriterFlow ==
  ASSUME FigureTypeOK, Times, Flow, NEW d \in Doc, Writer(d)
  PROVE  Times' /\ Flow'
<1>1. /\ Onward /\ UNCHANGED <<picture, version, stime, clock, writing, format>>
      /\ pc[d] \in UnderWay \cup {"wait"} /\ writing
  BY WriterGoesOnward DEF Flow
<1>2. Times' /\ \A f \in File : ctime[f] # 0 => ctime'[f] # 0
  BY <1>1, TimesStep
<1>3. \A q \in Picture : SourceVersion(q)' = SourceVersion(q)
  BY <1>1 DEF SourceVersion
<1>4. ASSUME NEW k \in Control, NEW w \in Shows, Moves(d, k, w),
             k \in {"save", "saving"} => picture[d] \in Code,
             k \in {"saving"} \cup Converting \/ (k = "done" /\ w \in {"asis", "picture"}) =>
               picture[d] \notin Code \/ Exists(picture[d])',
             seen'[d] <= SourceVersion(picture[d]),
             \A e \in Doc \ {d} : seen'[e] = seen[e]
      PROVE  Flow'
  <2>1. /\ pc'[d] = k /\ (k = "done" => shown'[d] = w)
        /\ \A e \in Doc \ {d} : pc'[e] = pc[e] /\ shown'[e] = shown[e]
    BY <1>4, MovesEffect
  <2>2. \A e \in Doc : pc'[e] \in UnderWay \cup {"wait"} => writing'
    BY <1>1
  <2>3. \A e \in Doc : pc'[e] \in {"save", "saving"} => picture'[e] \in Code
    BY <1>1, <1>4, <2>1 DEF Flow
  <2>4. \A e \in Doc : picture'[e] \in Code /\ UsesMarkup(e)' => Exists(picture[e])'
    <3> SUFFICES ASSUME NEW e \in Doc, picture[e] \in Code, UsesMarkup(e)'
                 PROVE  Exists(picture[e])'
      BY <1>1
    <3>1. CASE e = d
      BY <1>4, <2>1, <3>1 DEF UsesMarkup
    <3>2. CASE e # d
      BY <1>2, <2>1, <3>2, <1>1, Parts DEF UsesMarkup, Flow, Exists
    <3>. QED
      BY <3>1, <3>2
  <2>5. \A e \in Doc : seen'[e] <= SourceVersion(picture[e])'
    BY <1>1, <1>3, <1>4, Parts DEF Flow
  <2>. QED
    BY <1>1, <2>2, <2>3, <2>4, <2>5 DEF Flow, Exists
<1>5. picture[d] \in Picture /\ seen \in [Doc -> Version] /\ (picture[d] \in Source => picture[d] \notin Code)
  BY Parts DEF FigureTypeOK
<1>6. UsesMarkup(d) => picture[d] \notin Code \/ Exists(picture[d])'
  BY <1>1, <1>2, <1>5, Parts DEF Flow, Exists
<1> USE DEF Control, Shows, Converting
<1>7. CASE VisitImage(d)
  <2>1. ConvertImage(d) /\ picture[d] \notin Code /\ seen' = [seen EXCEPT ![d] = version[picture[d]]]
    BY <1>5, <1>7 DEF VisitImage
  <2>2. seen'[d] <= SourceVersion(picture[d]) /\ \A e \in Doc \ {d} : seen'[e] = seen[e]
    BY <1>5, <2>1, Parts, Sources DEF SourceVersion
  <2>. QED
    BY <1>2, <1>4, <2>1, <2>2, ConvertMoves
<1>8. CASE VisitRender(d)
  <2>1. picture[d] \in Code /\ seen' = [seen EXCEPT ![d] = 1]
    BY <1>8 DEF VisitRender
  <2>2. seen'[d] <= SourceVersion(picture[d]) /\ \A e \in Doc \ {d} : seen'[e] = seen[e]
    BY <1>5, <2>1 DEF SourceVersion
  <2>3. Show(d, "text") \/ Goto(d, "save") \/ (ConvertImage(d) /\ Exists(picture[d]))
    BY <1>8 DEF VisitRender, MustSave
  <2>4. \/ Moves(d, "done", "text") \/ Moves(d, "save", "text")
        \/ /\ Exists(picture[d])'
           /\ \/ Moves(d, "check", "text") \/ Moves(d, "done", "text") \/ Moves(d, "done", "asis")
              \/ Moves(d, "stopped", "text")
    <3>1. Exists(picture[d]) => Exists(picture[d])'
      BY <1>1, <1>2, <2>1, Parts DEF Exists
    <3>. QED
      BY <2>3, <3>1, ShowMoves, GotoMoves, ConvertMoves
  <2>. QED
    BY <1>2, <1>4, <2>1, <2>2, <2>4
<1>9. CASE OpenMarkup(d)
  <2>1. /\ Moves(d, "saving", "text") /\ picture[d] \in Code /\ seen' = seen
        /\ ctime' = [ctime EXCEPT ![picture[d]] = clock]
    BY <1>9, GotoMoves DEF OpenMarkup, Flow
  <2>2. Exists(picture[d])'
    BY <1>1, <2>1, Parts DEF Exists, FigureTypeOK
  <2>. QED
    BY <1>2, <1>4, <2>1, <2>2 DEF Flow
<1>10. CASE SaveMarkup(d)
  <2>1. ConvertImage(d) /\ seen' = seen /\ UsesMarkup(d)
    BY <1>10 DEF SaveMarkup, UsesMarkup
  <2>. QED
    BY <1>2, <1>4, <1>6, <2>1, ConvertMoves DEF Flow
<1>11. CASE CheckNewer(d)
  <2>1. /\ Moves(d, "stopped", "text") \/ Moves(d, "done", "picture") \/ Moves(d, "open", "text")
        /\ seen' = seen /\ UsesMarkup(d)
    BY <1>11, RaiseMoves, ShowMoves, GotoMoves DEF CheckNewer, UsesMarkup
  <2>. QED
    BY <1>2, <1>4, <1>6, <2>1 DEF Flow
<1>12. CASE RunTool(d) \/ ToolReads(d) \/ ToolSucceeds(d)
  <2>1. /\ Moves(d, "tool", "text") \/ Moves(d, "read", "text") \/ Moves(d, "done", "picture")
        /\ seen' = seen /\ UsesMarkup(d)
    BY <1>12, ShowMoves, GotoMoves DEF RunTool, ToolReads, ToolSucceeds, UsesMarkup
  <2>. QED
    BY <1>2, <1>4, <1>6, <2>1 DEF Flow
<1>13. CASE ToolFails(d)
  <2>1. /\ Moves(d, "stopped", "text") \/ Moves(d, "done", "text")
        /\ seen' = seen
    BY <1>13, ShowTextMoves DEF ToolFails
  <2>. QED
    BY <1>2, <1>4, <2>1 DEF Flow
<1>. QED
  BY <1>7, <1>8, <1>9, <1>10, <1>11, <1>12, <1>13 DEF Writer, ToolEnds

Other == StartBuild \/ Finish \/ Stop \/ Tick \/ (\E q \in Source : Edit(q)) \/ UNCHANGED vars

LEMMA OthersGoOnward ==
  ASSUME FigureTypeOK, Other
  PROVE  Onward /\ picture' = picture /\ \A q \in Source : version[q] <= version'[q]
<1> USE Parts DEF srcVars, fileVars, buildVars, docVars, history, Onward, FigureTypeOK
<1>1. CASE StartBuild
  BY <1>1 DEF StartBuild
<1>2. CASE Finish
  <2>1. Exit /\ \E copied \in SUBSET Base :
          ctime' = [f \in File |-> IF f \in copied THEN clock ELSE ctime[f]]
    BY <1>2 DEF Finish
  <2>. QED
    BY <2>1 DEF Exit
<1>3. CASE Stop
  BY <1>3 DEF Stop, Exit
<1>4. CASE Tick
  BY <1>4 DEF Tick
<1>5. CASE \E q \in Source : Edit(q)
  BY <1>5 DEF Edit
<1>6. CASE UNCHANGED vars
  BY <1>6 DEF vars
<1>. QED
  BY <1>1, <1>2, <1>3, <1>4, <1>5, <1>6 DEF Other

LEMMA OtherFlow ==
  ASSUME FigureTypeOK, Times, Flow, Other
  PROVE  Times' /\ Flow'
<1>1. Onward /\ picture' = picture /\ \A q \in Source : version[q] <= version'[q]
  BY OthersGoOnward
<1>2. Times' /\ \A f \in File : ctime[f] # 0 => ctime'[f] # 0
  BY <1>1, TimesStep
<1>3. \A q \in Picture : SourceVersion(q) <= SourceVersion(q)'
  BY <1>1, Parts DEF SourceVersion
<1>4. \A d \in Doc : picture[d] \in Picture /\ seen[d] \in Nat /\ (picture[d] \in Code => picture[d] \in File)
  BY Parts
<1>5. FigureTypeOK'
  BY OtherTypes DEF Other
<1>6. \A q \in Picture : SourceVersion(q) \in Nat /\ SourceVersion(q)' \in Nat
  <2>1. \A q \in Picture : SourceVersion(q) \in Nat
    BY Sources
  <2>2. \A q \in Source : version'[q] \in Nat
    BY <1>5 DEF FigureTypeOK, Version
  <2>. QED
    BY <2>1, <2>2 DEF SourceVersion, Picture
(* Nobody is sent to work, nor done.                                       *)
<1>7. ASSUME \A d \in Doc : seen'[d] = seen[d] \/ seen'[d] = 0,
             \A d \in Doc : pc'[d] \in UnderWay \cup {"wait"} => writing' ,
             \A d \in Doc : pc'[d] \in UnderWay => pc'[d] = pc[d],
             \A d \in Doc : pc'[d] = "done" => pc[d] = "done" /\ shown'[d] = shown[d]
      PROVE  Flow'
  <2>1. \A d \in Doc : seen'[d] <= SourceVersion(picture[d])'
    <3> SUFFICES ASSUME NEW d \in Doc PROVE seen'[d] <= SourceVersion(picture[d])'
      OBVIOUS
    <3>1. /\ SourceVersion(picture[d]) \in Nat /\ SourceVersion(picture[d])' \in Nat
          /\ SourceVersion(picture[d]) <= SourceVersion(picture[d])'
      BY <1>1, <1>3, <1>4, <1>6 DEF SourceVersion
    <3>2. seen[d] \in Nat /\ seen[d] <= SourceVersion(picture[d])
      BY <1>4 DEF Flow
    <3>. QED
      BY <1>7, <3>1, <3>2
  <2>2. \A d \in Doc : pc'[d] \in {"save", "saving"} => picture'[d] \in Code
    BY <1>1, <1>7 DEF Flow, UnderWay
  <2>3. \A d \in Doc : picture'[d] \in Code /\ UsesMarkup(d)' => ctime'[picture'[d]] # 0
    BY <1>1, <1>2, <1>4, <1>7 DEF Flow, UsesMarkup, UnderWay, Converting, Exists
  <2>. QED
    BY <1>1, <1>7, <2>1, <2>2, <2>3 DEF Flow, Exists
<1> USE DEF UnderWay
<1>8. CASE StartBuild
  <2>1. /\ \A d \in Doc : pc'[d] \in {"wait", "none"} /\ seen'[d] = 0
        /\ writing'
    BY <1>8 DEF StartBuild
  <2>. QED
    BY <1>2, <1>7, <2>1
<1>9. CASE Finish
  <2>1. /\ seen' = seen /\ shown' = shown
        /\ \A d \in Doc : pc'[d] = pc[d] \/ pc'[d] = "stopped"
        /\ \A d \in Doc : pc'[d] \notin UnderWay \cup {"wait"}
    BY <1>9 DEF Finish, Exit, FigureTypeOK
  <2>. QED
    BY <1>2, <1>7, <2>1
<1>10. CASE Stop
  <2>1. /\ seen' = seen /\ shown' = shown
        /\ \A d \in Doc : pc'[d] = pc[d] \/ pc'[d] = "stopped"
        /\ \A d \in Doc : pc'[d] \notin UnderWay \cup {"wait"}
    BY <1>10 DEF Stop, Exit, FigureTypeOK
  <2>. QED
    BY <1>2, <1>7, <2>1
<1>11. CASE Tick \/ UNCHANGED vars
  <2>1. UNCHANGED <<seen, shown, pc, writing>>
    BY <1>11 DEF Tick, vars, buildVars, docVars
  <2>. QED
    BY <1>2, <1>7, <2>1 DEF Flow
<1>12. CASE \E q \in Source : Edit(q)
  <2>1. /\ seen' = seen /\ shown' = shown /\ writing' = writing
        /\ \A d \in Doc : pc'[d] = pc[d] \/ pc'[d] = "none"
    BY <1>12 DEF Edit, buildVars, FigureTypeOK
  <2>. QED
    BY <1>2, <1>7, <2>1 DEF Flow
<1>. QED
  BY <1>8, <1>9, <1>10, <1>11, <1>12 DEF Other

----------------------------------------------------------------------------
(* The texts that are saved.                                               *)

Idle == {"none", "wait"}

LEMMA InitMarkup == Init => MarkupInv
BY DEF Init, MarkupInv, Markup, MarkupSound, MarkupRead, OneSaver, SavedByOther, Exists, File

(* A step that leaves the files of texts alone.                            *)
SameFiles ==
  /\ picture' = picture
  /\ \A c \in Code : content'[c] = content[c] /\ ctime'[c] = ctime[c]
(* No writer begins to save, and none begins beside one that does.         *)
NoNewSaver ==
  \A d \in Doc : pc'[d] \in {"save", "saving"} =>
    /\ pc'[d] = pc[d]
    /\ \A e \in Doc : picture[e] = picture[d] => (pc'[e] \in Idle <=> pc[e] \in Idle)
SaversStay ==
  \A c \in Code : Saver(c) => Saver(c)' \/ (c \in tainted' /\ \A d \in Doc : pc'[d] # "read")
HistoryGoesOn ==
  /\ \A c \in Code : c \in tainted => c \in tainted' \/ Sound(c)
  /\ \A c \in Code : c \in raced => c \in raced' \/ \A d \in Doc : picture[d] = c => pc'[d] # "saving"
ReadsMarkup ==
  \A d \in Doc : picture[d] \in Code =>
    /\ read'[d] \in {read[d], Unfinished, <<picture[d], 1>>}
    /\ pc'[d] = "read" /\ read'[d] # Unfinished =>
         (pc[d] = "read" /\ read'[d] = read[d]) \/ content[picture[d]] = <<picture[d], 1>>

LEMMA SameMarkup ==
  ASSUME FigureTypeOK, Flow, MarkupInv,
         SameFiles, NoNewSaver, SaversStay, HistoryGoesOn, ReadsMarkup
  PROVE  MarkupInv'
<1>1. Markup'
  BY DEF MarkupInv, Markup, SameFiles, ReadsMarkup, Exists
<1>2. \A c \in Code : Sound(c) => Sound(c)' \/ (c \in tainted' /\ \A d \in Doc : pc'[d] # "read")
  BY DEF SaversStay, Sound, SameFiles
<1>3. MarkupSound'
  BY <1>2 DEF MarkupInv, MarkupSound, HistoryGoesOn, SameFiles, Exists
<1>4. MarkupRead'
  <2> SUFFICES ASSUME NEW d \in Doc, pc'[d] = "read", picture[d] \in Code, read'[d] # Unfinished
               PROVE  Sound(picture[d])'
    BY DEF MarkupRead, SameFiles
  <2>1. Sound(picture[d])
    BY DEF MarkupInv, MarkupRead, ReadsMarkup, Sound
  <2>2. \A c \in Code : c = picture[d] => Sound(c)'
    BY <1>2, <2>1
  <2>3. picture'[d] = picture[d]
    BY DEF SameFiles
  <2>. QED
    BY <2>2, <2>3 DEF Sound, Saver
<1>5. OneSaver'
  BY DEF MarkupInv, OneSaver, NoNewSaver, HistoryGoesOn, SameFiles, Idle, Flow
<1>6. SavedByOther'
  <2> SUFFICES ASSUME NEW d \in Doc, pc'[d] = "save", content'[picture[d]] # Unfinished
               PROVE  \E e \in Doc \ {d} : picture[e] = picture[d] /\ pc'[e] \notin {"none", "wait"}
    BY DEF SavedByOther, SameFiles
  <2>1. pc[d] = "save" /\ picture[d] \in Code
    BY DEF NoNewSaver, Flow
  <2>2. content[picture[d]] # Unfinished
    BY <2>1 DEF SameFiles
  <2>3. PICK e \in Doc \ {d} : picture[e] = picture[d] /\ pc[e] \notin {"none", "wait"}
    BY <2>1, <2>2 DEF MarkupInv, SavedByOther
  <2>. QED
    BY <2>3 DEF NoNewSaver, Idle
<1>. QED
  BY <1>1, <1>3, <1>4, <1>5, <1>6 DEF MarkupInv

(* A writer of whom another waits for nothing moves between two places, at *)
(* neither of which it saves a text.                                       *)
LEMMA MoveMarkup ==
  ASSUME FigureTypeOK, NEW d \in Doc, NEW k \in Control \ {"save", "saving", "none", "wait"},
         NEW w \in Shows,
         Moves(d, k, w), pc[d] \notin {"save", "saving"},
         pc[d] \in Idle => picture[d] \notin Code,
         Flow, picture' = picture, \A c \in Code : opener'[c] = opener[c]
  PROVE  NoNewSaver /\ SaversStay
<1>1. pc'[d] = k /\ \A e \in Doc \ {d} : pc'[e] = pc[e]
  BY MovesEffect
<1>2. \A e \in Doc : pc'[e] \in {"save", "saving"} => pc'[e] = pc[e] /\ picture[e] \in Code
  BY <1>1 DEF Flow
<1>3. NoNewSaver
  BY <1>1, <1>2 DEF NoNewSaver, Idle
<1>4. SaversStay
  <2> SUFFICES ASSUME NEW c \in Code, Saver(c) PROVE Saver(c)'
    BY DEF SaversStay
  <2>1. PICK e \in Doc : picture[e] = c /\ pc[e] = "saving" /\ opener[c] = {e}
    BY DEF Saver
  <2>2. picture'[e] = c /\ pc'[e] = "saving" /\ opener'[c] = {e}
    BY <1>1, <2>1
  <2>. QED
    BY <2>2 DEF Saver
<1>. QED
  BY <1>3, <1>4

LEMMA RenderMarkup ==
  ASSUME FigureTypeOK, Flow, MarkupInv, NEW d \in Doc, VisitRender(d)
  PROVE  MarkupInv'
<1> DEFINE c == picture[d]
<1>1. /\ c \in Code /\ pc[d] = "wait" /\ c \in File
      /\ UNCHANGED <<picture, content, ctime, opener, read, tainted>>
      /\ raced' = IF OtherSaves(d, c) THEN raced \cup {c} ELSE raced
  BY Parts DEF VisitRender, MayStart, srcVars, fileVars
<1>2. PICK k \in Control \ {"saving", "read", "none", "wait"} :
        /\ pc'[d] = k /\ \A e \in Doc \ {d} : pc'[e] = pc[e]
        /\ k = "save" => ~Exists(c)
  <2>1. \/ Moves(d, "done", "text") \/ (Moves(d, "save", "text") /\ ~Exists(c))
        \/ Moves(d, "check", "text") \/ Moves(d, "done", "asis")
    BY <1>1, ShowMoves, GotoMoves, ConvertMoves DEF VisitRender, MustSave
  <2>. QED
    BY <2>1, MovesEffect DEF Control, Shows
<1>3. \A b \in Code : Sound(b) => Sound(b)'
  BY <1>1, <1>2 DEF Sound, Saver
<1>4. Markup' /\ MarkupSound'
  BY <1>1, <1>3 DEF MarkupInv, Markup, MarkupSound, Exists
<1>5. MarkupRead'
  <2> SUFFICES ASSUME NEW e \in Doc, pc'[e] = "read", picture[e] \in Code, read[e] # Unfinished
               PROVE  Sound(picture[e])'
    BY <1>1 DEF MarkupRead
  <2>1. Sound(picture[e])
    BY <1>2 DEF MarkupInv, MarkupRead
  <2>2. \A b \in Code : b = picture[e] => Sound(b)'
    BY <1>3, <2>1
  <2>. QED
    BY <1>1, <2>2 DEF Sound, Saver
<1>6. OneSaver'
  <2> SUFFICES ASSUME NEW e \in Doc, NEW f \in Doc, pc'[e] = "saving", e # f,
                      picture[e] = picture[f]
               PROVE  pc'[f] \in {"none", "wait"} \/ picture[e] \in raced'
    BY <1>1 DEF OneSaver
  <2>1. pc[e] = "saving" /\ e # d
    BY <1>1, <1>2
  <2>2. CASE f = d
    BY <1>1, <2>1, <2>2 DEF OtherSaves
  <2>3. CASE f # d
    BY <1>1, <1>2, <2>1, <2>3 DEF MarkupInv, OneSaver
  <2>. QED
    BY <2>2, <2>3
<1>7. SavedByOther'
  <2> SUFFICES ASSUME NEW e \in Doc, pc'[e] = "save", content[picture[e]] # Unfinished
               PROVE  \E f \in Doc \ {e} : picture[f] = picture[e] /\ pc'[f] \notin {"none", "wait"}
    BY <1>1 DEF SavedByOther
  <2>1. e # d
    BY <1>1, <1>2 DEF MarkupInv, Markup
  <2>2. PICK f \in Doc \ {e} : picture[f] = picture[e] /\ pc[f] \notin {"none", "wait"}
    BY <1>2, <2>1 DEF MarkupInv, SavedByOther
  <2>. QED
    BY <1>2, <2>2
<1>. QED
  BY <1>4, <1>5, <1>6, <1>7 DEF MarkupInv

LEMMA OpenMarkupKeeps ==
  ASSUME FigureTypeOK, Flow, MarkupInv, NEW d \in Doc, OpenMarkup(d)
  PROVE  MarkupInv'
<1> DEFINE c == picture[d]
<1>1. /\ c \in Code /\ c \in File /\ pc[d] = "save" /\ clock # 0 /\ clock \in Nat
      /\ UNCHANGED <<picture, read, tainted>>
      /\ content' = [content EXCEPT ![c] = Unfinished]
      /\ ctime' = [ctime EXCEPT ![c] = clock]
      /\ opener' = [opener EXCEPT ![c] = {d}]
      /\ raced' = IF \E e \in Doc \ {d} : picture[e] = c /\ pc[e] \notin {"none", "wait"}
                  THEN raced \cup {c} ELSE raced
  BY Parts DEF OpenMarkup, srcVars, Flow
<1>2. pc'[d] = "saving" /\ \A e \in Doc \ {d} : pc'[e] = pc[e]
  BY GotoMoves, MovesEffect DEF OpenMarkup, Control, Shows
<1>3. /\ content'[c] = Unfinished /\ ctime'[c] # 0 /\ opener'[c] = {d}
      /\ \A b \in Code \ {c} : content'[b] = content[b] /\ ctime'[b] = ctime[b]
                               /\ opener'[b] = opener[b]
  BY <1>1, Parts DEF FigureTypeOK
<1>4. \A b \in Code \ {c} : Sound(b) => Sound(b)'
  BY <1>1, <1>2, <1>3 DEF Sound, Saver
<1>5. Sound(c)'
  BY <1>1, <1>2, <1>3 DEF Sound, Saver
<1>6. Markup'
  BY <1>1, <1>3 DEF MarkupInv, Markup, Exists
<1>7. MarkupSound'
  <2> SUFFICES ASSUME NEW b \in Code, ctime'[b] # 0, b \notin tainted PROVE Sound(b)'
    BY <1>1 DEF MarkupSound, Exists
  <2>1. CASE b = c
    BY <1>1, <1>2, <1>3, <2>1 DEF Sound, Saver
  <2>2. CASE b # c
    BY <1>3, <1>4, <2>2 DEF MarkupInv, MarkupSound, Exists
  <2>. QED
    BY <2>1, <2>2
<1>8. MarkupRead'
  <2> SUFFICES ASSUME NEW e \in Doc, pc'[e] = "read", picture[e] \in Code, read[e] # Unfinished
               PROVE  Sound(picture[e])'
    BY <1>1 DEF MarkupRead
  <2>1. Sound(picture[e])
    BY <1>1, <1>2 DEF MarkupInv, MarkupRead
  <2>2. \A b \in Code : b = picture[e] => Sound(b)'
    <3> SUFFICES ASSUME NEW b \in Code, b = picture[e] PROVE Sound(b)'
      OBVIOUS
    <3>1. CASE b = c
      BY <1>1, <1>2, <1>3, <3>1 DEF Sound, Saver
    <3>2. CASE b # c
      BY <1>4, <2>1, <3>2
    <3>. QED
      BY <3>1, <3>2
  <2>. QED
    BY <1>1, <2>2 DEF Sound, Saver
<1>9. OneSaver'
  <2> SUFFICES ASSUME NEW e \in Doc, NEW f \in Doc, pc'[e] = "saving", e # f,
                      picture[e] = picture[f]
               PROVE  pc'[f] \in {"none", "wait"} \/ picture[e] \in raced'
    BY <1>1 DEF OneSaver
  <2>1. CASE e = d
    BY <1>1, <1>2, <2>1
  <2>2. CASE f = d
    BY <1>1, <1>2, <2>2
  <2>3. CASE e # d /\ f # d
    BY <1>1, <1>2, <2>3 DEF MarkupInv, OneSaver
  <2>. QED
    BY <2>1, <2>2, <2>3
<1>10. SavedByOther'
  <2> SUFFICES ASSUME NEW e \in Doc, pc'[e] = "save", content'[picture[e]] # Unfinished
               PROVE  \E f \in Doc \ {e} : picture[f] = picture[e] /\ pc'[f] \notin {"none", "wait"}
    BY <1>1 DEF SavedByOther
  <2>1. e # d /\ picture[e] # c /\ picture[e] \in Code /\ pc[e] = "save"
    BY <1>2, <1>3 DEF Flow
  <2>2. PICK f \in Doc \ {e} : picture[f] = picture[e] /\ pc[f] \notin {"none", "wait"}
    BY <1>3, <2>1 DEF MarkupInv, SavedByOther
  <2>. QED
    BY <1>2, <2>2
<1>. QED
  BY <1>6, <1>7, <1>8, <1>9, <1>10 DEF MarkupInv

LEMMA SaveMarkupKeeps ==
  ASSUME FigureTypeOK, Flow, MarkupInv, NEW d \in Doc, SaveMarkup(d)
  PROVE  MarkupInv'
<1> DEFINE c == picture[d]
<1>1. /\ c \in Code /\ c \in File /\ pc[d] = "saving" /\ clock # 0 /\ clock \in Nat
      /\ UNCHANGED <<picture, read, tainted, raced, opener>>
      /\ content' = [content EXCEPT ![c] = <<c, 1>>] \/ (content' = content /\ opener[c] # {d})
      /\ ctime' = [ctime EXCEPT ![c] = clock] /\ ctime[c] # 0
  BY Parts DEF SaveMarkup, srcVars, history, Flow, UsesMarkup, Exists
<1>2. pc'[d] \notin {"save", "saving", "read", "none", "wait"} /\ \A e \in Doc \ {d} : pc'[e] = pc[e]
  <2>1. \/ Moves(d, "check", "text") \/ Moves(d, "done", "text") \/ Moves(d, "done", "asis")
        \/ Moves(d, "stopped", "text")
    BY ConvertMoves DEF SaveMarkup
  <2>. QED
    BY <2>1, MovesEffect DEF Control, Shows
<1>3. /\ ctime'[c] # 0
      /\ content'[c] = <<c, 1>> \/ (content'[c] = content[c] /\ opener[c] # {d})
      /\ \A b \in Code \ {c} : content'[b] = content[b] /\ ctime'[b] = ctime[b]
  BY <1>1, Parts DEF FigureTypeOK
<1>4. \A b \in Code : Sound(b) => Sound(b)'
  <2> SUFFICES ASSUME NEW b \in Code, Sound(b) PROVE Sound(b)'
    OBVIOUS
  <2>1. CASE b = c /\ content'[c] = <<c, 1>>
    BY <2>1 DEF Sound
  <2>2. CASE content'[b] = content[b] /\ (b = c => opener[c] # {d})
    BY <1>1, <1>2, <2>2 DEF Sound, Saver
  <2>. QED
    BY <1>3, <2>1, <2>2
<1>5. Markup'
  BY <1>1, <1>3 DEF MarkupInv, Markup, Exists
<1>6. MarkupSound'
  BY <1>1, <1>3, <1>4 DEF MarkupInv, MarkupSound, Exists
<1>7. MarkupRead'
  <2> SUFFICES ASSUME NEW e \in Doc, pc'[e] = "read", picture[e] \in Code, read[e] # Unfinished
               PROVE  Sound(picture[e])'
    BY <1>1 DEF MarkupRead
  <2>1. Sound(picture[e])
    BY <1>2 DEF MarkupInv, MarkupRead
  <2>2. \A b \in Code : b = picture[e] => Sound(b)'
    BY <1>4, <2>1
  <2>. QED
    BY <1>1, <2>2 DEF Sound, Saver
<1>8. OneSaver'
  <2> SUFFICES ASSUME NEW e \in Doc, NEW f \in Doc, pc'[e] = "saving", e # f,
                      picture[e] = picture[f]
               PROVE  pc'[f] \in {"none", "wait"} \/ picture[e] \in raced'
    BY <1>1 DEF OneSaver
  <2>1. e # d /\ pc[e] = "saving"
    BY <1>2
  <2>2. pc[f] \in {"none", "wait"} \/ picture[e] \in raced
    BY <2>1 DEF MarkupInv, OneSaver
  <2>. QED
    BY <1>1, <1>2, <2>2
<1>9. SavedByOther'
  <2> SUFFICES ASSUME NEW e \in Doc, pc'[e] = "save", content'[picture[e]] # Unfinished
               PROVE  \E f \in Doc \ {e} : picture[f] = picture[e] /\ pc'[f] \notin {"none", "wait"}
    BY <1>1 DEF SavedByOther
  <2>1. e # d /\ picture[e] \in Code /\ pc[e] = "save"
    BY <1>2 DEF Flow
  <2>2. CASE picture[e] = c
    BY <1>2, <2>1, <2>2
  <2>3. CASE picture[e] # c
    <3>1. PICK f \in Doc \ {e} : picture[f] = picture[e] /\ pc[f] \notin {"none", "wait"}
      BY <1>3, <2>1, <2>3 DEF MarkupInv, SavedByOther
    <3>. QED
      BY <1>2, <3>1
  <2>. QED
    BY <2>2, <2>3
<1>. QED
  BY <1>5, <1>6, <1>7, <1>8, <1>9 DEF MarkupInv

(* The steps that leave the files of texts alone.                          *)
LEMMA WorkMarkup ==
  ASSUME FigureTypeOK, Flow, MarkupInv, NEW d \in Doc,
         VisitImage(d) \/ CheckNewer(d) \/ RunTool(d) \/ ToolReads(d) \/ ToolSucceeds(d) \/ ToolFails(d)
  PROVE  MarkupInv'
<1> DEFINE p == picture[d]
           b == BaseOf[p]
<1>1. /\ b \in Base /\ b \notin Code /\ p \in Picture /\ read \in [Doc -> Content]
      /\ content \in [File -> Content] /\ ctime \in [File -> Time] /\ opener \in [File -> SUBSET Doc]
      /\ Code \subseteq File
  BY Parts DEF FigureTypeOK
<1>2. SameFiles /\ \A c \in Code : opener'[c] = opener[c]
  <2> USE DEF SameFiles, srcVars, fileVars
  <2>1. CASE VisitImage(d) \/ CheckNewer(d) \/ ToolReads(d)
    BY <2>1 DEF VisitImage, CheckNewer, ToolReads
  <2>2. CASE RunTool(d)
    BY <1>1, <2>2 DEF RunTool
  <2>3. CASE ToolSucceeds(d)
    BY <1>1, <2>3 DEF ToolSucceeds
  <2>4. CASE ToolFails(d)
    BY <1>1, <2>4 DEF ToolFails
  <2>. QED
    BY <2>1, <2>2, <2>3, <2>4
<1>3. PICK k \in Control \ {"save", "saving", "none", "wait"}, w \in Shows : Moves(d, k, w)
  BY ConvertMoves, ShowTextMoves, ShowMoves, GotoMoves, RaiseMoves
     DEF VisitImage, CheckNewer, RunTool, ToolReads, ToolSucceeds, ToolFails, Control, Shows
<1>4. pc[d] \notin {"save", "saving"} /\ (pc[d] \in Idle => p \notin Code)
  <2>1. CASE VisitImage(d)
    BY <2>1, Parts DEF VisitImage, MayStart
  <2>2. CASE ~VisitImage(d)
    BY <2>2 DEF CheckNewer, RunTool, ToolReads, ToolSucceeds, ToolFails, Idle
  <2>. QED
    BY <2>1, <2>2
<1>5. NoNewSaver /\ SaversStay
  BY <1>2, <1>3, <1>4, MoveMarkup DEF SameFiles
<1>6. pc'[d] = k /\ \A e \in Doc \ {d} : pc'[e] = pc[e]
  BY <1>3, MovesEffect
<1>7. HistoryGoesOn
  <2>1. CASE ~ToolSucceeds(d)
    BY <2>1 DEF VisitImage, CheckNewer, RunTool, ToolReads, ToolFails, HistoryGoesOn, history
  <2>2. CASE ToolSucceeds(d)
    <3>1. CASE UNCHANGED history
      BY <3>1 DEF HistoryGoesOn, history
    <3>2. CASE ~UNCHANGED history
      <4>1. /\ Alone(d) /\ read[d] = <<p, SourceVersion(p)>> /\ pc[d] = "read"
            /\ tainted' = tainted \ {p} /\ raced' = raced \ {p}
        BY <2>2, <3>2 DEF ToolSucceeds
      <4>2. p \in Code => Sound(p)
        <5>1. p \in Code => read[d] = <<p, 1>> /\ read[d] # Unfinished
          BY <4>1 DEF SourceVersion, Unfinished
        <5>. QED
          BY <4>1, <5>1 DEF MarkupInv, MarkupRead
      <4>3. \A e \in Doc : picture[e] = p => pc'[e] # "saving"
        BY <1>6, <4>1 DEF Alone
      <4>4. \A c \in Code : c \in tainted => c \in tainted' \/ Sound(c)
        BY <4>1, <4>2 DEF Sound, Saver
      <4>. QED
        BY <4>1, <4>3, <4>4 DEF HistoryGoesOn
    <3>. QED
      BY <3>1, <3>2
  <2>. QED
    BY <2>1, <2>2
<1>8. ReadsMarkup
  <2>1. CASE VisitImage(d) \/ CheckNewer(d) \/ RunTool(d)
    <3>1. read' = read
      BY <2>1 DEF VisitImage, CheckNewer, RunTool
    <3>2. k # "read"
      BY <2>1, <1>6, ConvertMoves, MovesEffect, ShowMoves, GotoMoves, RaiseMoves
         DEF VisitImage, CheckNewer, RunTool, Control, Shows
    <3>. QED
      BY <1>6, <3>1, <3>2 DEF ReadsMarkup
  <2>2. CASE ToolReads(d)
    <3>1. read' = [read EXCEPT ![d] = SourceContent(p)]
      BY <2>2 DEF ToolReads
    <3>2. p \in Code => SourceContent(p) \in {Unfinished, <<p, 1>>} /\ SourceContent(p) = content[p]
      BY DEF MarkupInv, Markup, SourceContent
    <3>. QED
      BY <1>1, <1>6, <3>1, <3>2 DEF ReadsMarkup
  <2>3. CASE ToolSucceeds(d) \/ ToolFails(d)
    <3>1. read' = [read EXCEPT ![d] = Unfinished]
      BY <2>3 DEF ToolSucceeds, ToolFails
    <3>. QED
      BY <1>1, <1>6, <3>1 DEF ReadsMarkup
  <2>. QED
    BY <2>1, <2>2, <2>3
<1>. QED
  BY <1>2, <1>5, <1>7, <1>8, SameMarkup

(* A build, the author and the clock.                                      *)
LEMMA OtherMarkup ==
  ASSUME FigureTypeOK, Flow, MarkupInv, Other
  PROVE  MarkupInv'
<1>1. /\ read \in [Doc -> Content] /\ content \in [File -> Content] /\ ctime \in [File -> Time]
      /\ pc \in [Doc -> Control] /\ Code \subseteq File /\ Code \cap Base = {}
  BY Parts DEF FigureTypeOK
(* Whoever is at work stays there.                                         *)
<1>2. ASSUME UNCHANGED <<picture, content, ctime, opener, read>>,
             \A d \in Doc : pc'[d] = pc[d] \/ (pc[d] \in Idle \cup {"done", "stopped"} /\ pc'[d] \in Idle
                                               /\ \A e \in Doc : picture[e] = picture[d] =>
                                                    pc[e] \notin {"save", "saving"}),
             \A c \in Code : c \in tainted => c \in tainted',
             raced' = raced
      PROVE  MarkupInv'
  <2>1. SameFiles /\ HistoryGoesOn /\ ReadsMarkup
    BY <1>2 DEF SameFiles, HistoryGoesOn, ReadsMarkup, Idle, MarkupInv, Markup
  <2>2. NoNewSaver /\ SaversStay
    BY <1>2 DEF NoNewSaver, SaversStay, Saver, Idle
  <2>. QED
    BY <2>1, <2>2, SameMarkup
(* Nobody is.                                                              *)
<1>3. ASSUME SameFiles, \A d \in Doc : pc'[d] \notin UnderWay,
             \A c \in Code : Saver(c) => c \in tainted',
             \A c \in Code : c \in tainted => c \in tainted',
             \A d \in Doc : read'[d] = Unfinished \/ read'[d] = read[d]
      PROVE  MarkupInv'
  <2>1. NoNewSaver /\ SaversStay
    BY <1>3 DEF NoNewSaver, SaversStay, UnderWay
  <2>2. HistoryGoesOn /\ ReadsMarkup
    BY <1>3 DEF HistoryGoesOn, ReadsMarkup, UnderWay
  <2>. QED
    BY <1>3, <2>1, <2>2, SameMarkup
<1>4. CASE StartBuild
  <2>1. /\ UNCHANGED <<picture, content, ctime, read, tainted>>
        /\ \A d \in Doc : pc'[d] \in {"wait", "none"} /\ pc[d] \notin UnderWay
    BY <1>4 DEF StartBuild, srcVars, fileVars, history, Flow
  <2>2. \A c \in Code : ~Saver(c)
    BY <2>1 DEF Saver, UnderWay
  <2>. QED
    BY <1>3, <2>1, <2>2 DEF SameFiles, UnderWay
<1>5. CASE Finish
  <2>1. /\ picture' = picture /\ tainted \subseteq tainted'
        /\ \A d \in Doc : pc[d] \notin UnderWay /\ pc'[d] \notin UnderWay /\ read'[d] = Unfinished
    BY <1>1, <1>5 DEF Finish, Exit, srcVars, UnderWay
  <2>2. \A c \in Code : content'[c] = content[c] /\ ctime'[c] = ctime[c]
    <3>1. \A c \in Code : c \in File /\ c \notin {b \in Base : ~failed /\ Copied(b) # {}}
      BY <1>1
    <3>. QED
      BY <1>5, <3>1 DEF Finish
  <2>3. \A c \in Code : ~Saver(c)
    BY <2>1 DEF Saver, UnderWay
  <2>. QED
    BY <1>3, <2>1, <2>2, <2>3 DEF SameFiles
<1>6. CASE Stop
  <2>1. /\ UNCHANGED <<picture, content, ctime>>
        /\ tainted' = tainted \cup UNION {HasOpen(d) : d \in Doc}
        /\ \A d \in Doc : pc'[d] \notin UnderWay /\ read'[d] = Unfinished
    BY <1>1, <1>6 DEF Stop, Exit, srcVars, UnderWay
  <2>2. \A c \in Code : Saver(c) => c \in tainted'
    <3> SUFFICES ASSUME NEW c \in Code, Saver(c) PROVE c \in tainted'
      OBVIOUS
    <3>1. PICK e \in Doc : picture[e] = c /\ pc[e] = "saving"
      BY DEF Saver
    <3>2. c \in HasOpen(e)
      BY <3>1 DEF HasOpen
    <3>. QED
      BY <2>1, <3>2
  <2>. QED
    BY <1>3, <2>1, <2>2 DEF SameFiles
<1>7. CASE \E q \in Source : Edit(q)
  <2>1. PICK q \in Source : Edit(q)
    BY <1>7
  <2>2. q \notin Code /\ UNCHANGED <<picture, content, ctime, opener, read, raced>>
    BY <2>1, Parts DEF Edit, fileVars
  <2>3. \A c \in Code : c \in tainted => c \in tainted'
    BY <2>1, <2>2 DEF Edit
  <2>4. \A d \in Doc : pc'[d] = pc[d] \/ (~writing /\ pc'[d] = "none")
    BY <1>1, <2>1 DEF Edit
  <2>5. ~writing => \A d \in Doc : pc[d] \in Idle \cup {"done", "stopped"}
    BY <1>1 DEF Flow, UnderWay, Idle, Control
  <2>. QED
    BY <1>2, <2>2, <2>3, <2>4, <2>5 DEF Idle
<1>8. CASE Tick \/ UNCHANGED vars
  BY <1>2, <1>8 DEF Tick, vars, srcVars, fileVars, docVars, history
<1>. QED
  BY <1>4, <1>5, <1>6, <1>7, <1>8 DEF Other

----------------------------------------------------------------------------
(* The files of pictures.                                                  *)

LEMMA InitPictures == Init => PictureInv
<1> SUFFICES ASSUME Init, NEW p \in Picture PROVE Current(p)
  BY DEF PictureInv
<1>1. /\ \A d \in Doc : pc[d] = "none"
      /\ ctime[BaseOf[p]] = 0
  BY InitTypes, Parts DEF Init
<1>. QED
  BY <1>1 DEF Current, ReadRight, OneName, NewerIsGood, DoneIsGood, IsNewer, Exists, AtWork

LEMMA SourcesGetYounger ==
  ASSUME FigureTypeOK, Times, Onward, NEW p \in Picture
  PROVE  /\ SourceTime(p) \in Nat /\ SourceTime(p)' \in Nat /\ clock \in Nat
         /\ SourceTime(p) <= SourceTime(p)' /\ SourceTime(p) <= clock
<1>1. CASE p \in Code
  BY <1>1, Parts DEF SourceTime, Onward, Times
<1>2. CASE p \in Source
  BY <1>2, Parts DEF SourceTime, Onward, Times
<1>. QED
  BY <1>1, <1>2, Parts

(* The file of p stays, and whoever will make it good does.                *)
LEMMA SamePicture ==
  ASSUME FigureTypeOK, Times, Onward, NEW p \in Picture, Current(p),
         picture' = picture, SourceVersion(p)' = SourceVersion(p),
         content'[BaseOf[p]] = content[BaseOf[p]], ctime'[BaseOf[p]] = ctime[BaseOf[p]],
         InWork(p) => InWork(p)',
         \A e \in Doc : BaseOf[picture[e]] = BaseOf[p] /\ pc'[e] \in {"tool", "read"}
                          => pc[e] \in {"tool", "read"},
         \A e \in Doc : picture[e] = p /\ pc'[e] = "read" =>
           (pc[e] = "read" /\ read'[e] = read[e]) \/ read'[e] = <<p, SourceVersion(p)>>,
         \A e \in Doc : picture[e] = p /\ pc'[e] = "done" /\ shown'[e] = "picture" =>
           \/ pc[e] = "done" /\ shown[e] = "picture" /\ seen'[e] = seen[e]
           \/ Good(p) /\ seen'[e] <= SourceVersion(p)
  PROVE  Current(p)'
<1>1. ReadRight(p)'
  BY DEF Current, ReadRight
<1>2. OneName(p)'
  BY DEF Current, OneName
<1>3. Good(p) => Good(p)'
  BY DEF Good
<1>4. IsNewer(BaseOf[p], p)' => IsNewer(BaseOf[p], p)
  <2>1. ctime[BaseOf[p]] \in Nat
    BY Parts
  <2>. QED
    BY <2>1, SourcesGetYounger DEF IsNewer, Exists
<1>5. AtWork(p)' # {} => AtWork(p) # {}
  BY DEF AtWork
<1>6. NewerIsGood(p)'
  BY <1>3, <1>4, <1>5 DEF Current, NewerIsGood
<1>7. DoneIsGood(p)'
  <2> SUFFICES ASSUME NEW e \in Doc, picture[e] = p, pc'[e] = "done", shown'[e] = "picture", ~InWork(p)'
               PROVE  \E v \in Nat : content[BaseOf[p]] = <<p, v>> /\ seen'[e] <= v
    BY DEF DoneIsGood
  <2>1. CASE pc[e] = "done" /\ shown[e] = "picture" /\ seen'[e] = seen[e]
    BY <2>1 DEF Current, DoneIsGood
  <2>2. CASE Good(p) /\ seen'[e] <= SourceVersion(p)
    BY <2>2, Sources DEF Good
  <2>. QED
    BY <2>1, <2>2
<1>. QED
  BY <1>1, <1>2, <1>6, <1>7 DEF Current

(* The steps of a writer that leave the files of pictures alone: they look *)
(* at them, save a text, or read the source.                               *)
LEMMA LookingKeeps ==
  ASSUME FigureInv, NEW d \in Doc,
         \/ VisitImage(d) \/ VisitRender(d) \/ OpenMarkup(d) \/ SaveMarkup(d)
         \/ CheckNewer(d) \/ ToolReads(d)
  PROVE  PictureInv'
<1> SUFFICES ASSUME NEW p \in Picture, Fine(p)' PROVE Current(p)'
  BY DEF PictureInv
<1> DEFINE q == picture[d]
           b == BaseOf[p]
<1> USE DEF FigureInv
<1>1. /\ Onward /\ UNCHANGED <<picture, version, stime>>
      /\ SourceVersion(p)' = SourceVersion(p)
  BY WriterGoesOnward DEF Writer, ToolEnds, SourceVersion
<1>2. /\ b \in File /\ b \notin Code /\ q \in Picture /\ seen \in [Doc -> Version]
      /\ read \in [Doc -> Content] /\ content \in [File -> Content]
      /\ ctime \in [File -> Time] /\ opener \in [File -> SUBSET Doc]
  BY Parts DEF FigureTypeOK
<1>3. /\ content'[b] = content[b] /\ ctime'[b] = ctime[b] /\ opener'[b] = opener[b]
      /\ Fine(p)
  <2> USE <1>2 DEF fileVars, history, Fine
  <2>1. CASE VisitImage(d) \/ CheckNewer(d) \/ ToolReads(d)
    BY <2>1 DEF VisitImage, CheckNewer, ToolReads
  <2>2. CASE VisitRender(d)
    BY <2>2 DEF VisitRender
  <2>3. CASE OpenMarkup(d)
    <3>1. q \in Code
      BY <2>3 DEF OpenMarkup, Flow
    <3>. QED
      BY <2>3, <3>1 DEF OpenMarkup
  <2>4. CASE SaveMarkup(d)
    <3>1. q \in Code
      BY <2>4 DEF SaveMarkup, Flow
    <3>. QED
      BY <2>4, <3>1 DEF SaveMarkup
  <2>. QED
    BY <2>1, <2>2, <2>3, <2>4
<1>4. Current(p)
  BY <1>3 DEF PictureInv
<1>5. ASSUME NEW k \in Control, NEW w \in Shows, Moves(d, k, w), ~ToolReads(d),
             k \notin {"tool", "read"}, pc[d] \notin {"tool", "read"},
             \A e \in Doc \ {d} : seen'[e] = seen[e],
             p = q /\ k = "done" /\ w = "picture" => Good(p) /\ seen'[d] <= SourceVersion(p),
             read' = read
      PROVE  Current(p)'
  <2>1. /\ pc'[d] = k /\ (k = "done" => shown'[d] = w)
        /\ \A e \in Doc \ {d} : pc'[e] = pc[e] /\ shown'[e] = shown[e]
    BY <1>5, MovesEffect
  <2>2. InWork(p) => InWork(p)'
    BY <1>1, <1>3, <1>5, <2>1 DEF InWork, AtWork
  <2>3. /\ \A e \in Doc : BaseOf[picture[e]] = BaseOf[p] /\ pc'[e] \in {"tool", "read"}
                           => pc[e] \in {"tool", "read"}
        /\ \A e \in Doc : picture[e] = p /\ pc'[e] = "read" => pc[e] = "read" /\ read'[e] = read[e]
    BY <1>5, <2>1
  <2>4. \A e \in Doc : picture[e] = p /\ pc'[e] = "done" /\ shown'[e] = "picture" =>
          \/ pc[e] = "done" /\ shown[e] = "picture" /\ seen'[e] = seen[e]
          \/ Good(p) /\ seen'[e] <= SourceVersion(p)
    BY <1>5, <2>1
  <2>. QED
    BY <1>1, <1>3, <1>4, <2>2, <2>3, <2>4, SamePicture
<1> USE DEF Control, Shows
<1>6. CASE VisitImage(d)
  <2>1. /\ ConvertImage(d) /\ read' = read /\ pc[d] = "wait"
        /\ seen' = [seen EXCEPT ![d] = version[q]]
    BY <1>6 DEF VisitImage, MayStart
  <2>. QED
    BY <1>2, <1>5, <2>1, ConvertMoves DEF ToolReads
<1>7. CASE VisitRender(d)
  <2>1. /\ Show(d, "text") \/ Goto(d, "save") \/ ConvertImage(d)
        /\ read' = read /\ pc[d] = "wait" /\ seen' = [seen EXCEPT ![d] = 1]
    BY <1>7 DEF VisitRender, MayStart
  <2>. QED
    BY <1>2, <1>5, <2>1, ShowMoves, GotoMoves, ConvertMoves DEF ToolReads
<1>8. CASE OpenMarkup(d)
  <2>1. Goto(d, "saving") /\ read' = read /\ pc[d] = "save" /\ seen' = seen
    BY <1>8 DEF OpenMarkup
  <2>. QED
    BY <1>5, <2>1, GotoMoves DEF ToolReads
<1>9. CASE SaveMarkup(d)
  <2>1. ConvertImage(d) /\ read' = read /\ pc[d] = "saving" /\ seen' = seen
    BY <1>9 DEF SaveMarkup
  <2>. QED
    BY <1>5, <2>1, ConvertMoves DEF ToolReads
<1>10. CASE CheckNewer(d)
  <2>1. /\ Raise(d) \/ (IsNewer(BaseOf[q], q) /\ Show(d, "picture")) \/ Goto(d, "open")
        /\ read' = read /\ pc[d] = "check" /\ seen' = seen
    BY <1>10 DEF CheckNewer
  <2>2. p = q /\ IsNewer(BaseOf[q], q) => Good(p) /\ seen'[d] <= SourceVersion(p)
    BY <1>4, <2>1 DEF Current, NewerIsGood, Flow
  <2>. QED
    BY <1>5, <2>1, <2>2, RaiseMoves, ShowMoves, GotoMoves DEF ToolReads
<1>11. CASE ToolReads(d)
  <2>1. /\ pc[d] = "tool" /\ Goto(d, "read") /\ seen' = seen
        /\ read' = [read EXCEPT ![d] = SourceContent(q)]
    BY <1>11 DEF ToolReads
  <2>2. /\ pc'[d] = "read" /\ \A e \in Doc \ {d} : pc'[e] = pc[e]
        /\ \A e \in Doc : shown'[e] = shown[e]
    BY <2>1, GotoMoves, MovesEffect DEF Goto
  <2>3. p = q => SourceContent(q) = <<p, SourceVersion(p)>>
    <3>1. CASE p = q /\ p \in Code
      <4>1. Exists(p) /\ Sound(p)
        BY <1>3, <2>1, <3>1 DEF Flow, UsesMarkup, Converting, MarkupInv, MarkupSound, Fine
      <4>2. ~Saver(p)
        BY <1>3, <2>1, <3>1 DEF MarkupInv, OneSaver, Saver, Fine
      <4>. QED
        BY <3>1, <4>1, <4>2 DEF Sound, SourceContent, SourceVersion
    <3>2. CASE p \notin Code
      BY <3>2 DEF SourceContent, SourceVersion
    <3>. QED
      BY <3>1, <3>2
  <2>4. InWork(p) => InWork(p)'
    BY <1>1, <1>3, <2>1, <2>2 DEF InWork, AtWork
  <2>5. \A e \in Doc : picture[e] = p /\ pc'[e] = "read" =>
          (pc[e] = "read" /\ read'[e] = read[e]) \/ read'[e] = <<p, SourceVersion(p)>>
    BY <1>2, <2>1, <2>2, <2>3
  <2>6. \A e \in Doc : pc'[e] \in {"tool", "read"} => pc[e] \in {"tool", "read"}
    BY <2>1, <2>2
  <2>7. \A e \in Doc : pc'[e] = "done" => pc[e] = "done" /\ shown'[e] = shown[e] /\ seen'[e] = seen[e]
    BY <2>1, <2>2
  <2>. QED
    BY <1>1, <1>3, <1>4, <2>4, <2>5, <2>6, <2>7, SamePicture
<1>. QED
  BY <1>6, <1>7, <1>8, <1>9, <1>10, <1>11

(* A tool works on the file of its picture only.                           *)
LEMMA ElsewhereKeeps ==
  ASSUME FigureInv, NEW d \in Doc, RunTool(d) \/ ToolSucceeds(d) \/ ToolFails(d),
         NEW p \in Picture, BaseOf[p] # BaseOf[picture[d]], Fine(p)'
  PROVE  Current(p)'
<1> DEFINE q == picture[d]
           b == BaseOf[p]
<1> USE DEF FigureInv
<1>1. /\ Onward /\ UNCHANGED <<picture, version, stime>>
      /\ SourceVersion(p)' = SourceVersion(p)
  BY WriterGoesOnward DEF Writer, ToolEnds, SourceVersion
<1>2. /\ b \in File /\ BaseOf[q] \in File /\ q \in Picture /\ p # q
      /\ read \in [Doc -> Content] /\ content \in [File -> Content]
      /\ ctime \in [File -> Time] /\ opener \in [File -> SUBSET Doc]
  BY Parts DEF FigureTypeOK
<1>3. /\ content'[b] = content[b] /\ ctime'[b] = ctime[b] /\ opener'[b] = opener[b]
      /\ Fine(p)
  <2> USE <1>2 DEF fileVars, history, Fine
  <2>1. CASE RunTool(d)
    BY <2>1 DEF RunTool
  <2>2. CASE ToolSucceeds(d)
    <3>1. p \in tainted \cup raced => p \in tainted' \cup raced'
      BY <2>2 DEF ToolSucceeds
    <3>2. content'[b] = content[b] /\ ctime'[b] = ctime[b] /\ opener'[b] = opener[b]
      BY <2>2 DEF ToolSucceeds
    <3>. QED
      BY <3>1, <3>2
  <2>3. CASE ToolFails(d)
    BY <2>3 DEF ToolFails
  <2>. QED
    BY <2>1, <2>2, <2>3
<1>4. Current(p)
  BY <1>3 DEF PictureInv
<1>5. \A e \in Doc \ {d} : pc'[e] = pc[e] /\ shown'[e] = shown[e] /\ read'[e] = read[e]
  <2>1. /\ \/ Moves(d, "tool", "text") \/ Moves(d, "done", "picture")
           \/ Moves(d, "done", "text") \/ Moves(d, "stopped", "text")
        /\ read' = read \/ read' = [read EXCEPT ![d] = Unfinished]
    BY GotoMoves, ShowMoves, ShowTextMoves DEF RunTool, ToolSucceeds, ToolFails
  <2>. QED
    BY <1>2, <2>1, MovesEffect DEF Control, Shows
<1>6. seen' = seen
  BY DEF RunTool, ToolSucceeds, ToolFails
<1>7. InWork(p) => InWork(p)'
  BY <1>1, <1>2, <1>3, <1>5 DEF InWork, AtWork
<1>8. \A e \in Doc : BaseOf[picture[e]] = b => e # d
  OBVIOUS
<1>9. \A e \in Doc : picture[e] = p => e # d
  BY <1>2
<1>. QED
  BY <1>1, <1>3, <1>4, <1>5, <1>6, <1>7, <1>8, <1>9, SamePicture

LEMMA RunToolKeeps ==
  ASSUME FigureInv, NEW d \in Doc, RunTool(d)
  PROVE  PictureInv'
<1> SUFFICES ASSUME NEW p \in Picture, Fine(p)' PROVE Current(p)'
  BY DEF PictureInv
<1> DEFINE b == BaseOf[picture[d]]
<1> USE DEF FigureInv
<1>1. CASE BaseOf[p] # b
  BY <1>1, ElsewhereKeeps
<1>2. CASE BaseOf[p] = b
  <2>1. p = picture[d]
    BY <1>2 DEF RunTool, SameName, Fine
  <2>2. Fine(p) /\ Current(p)
    BY DEF RunTool, Fine, PictureInv
  <2>3. /\ picture' = picture /\ opener'[b] = {d} /\ read' = read
        /\ SourceVersion(p)' = SourceVersion(p)
    BY Parts DEF RunTool, srcVars, SourceVersion, FigureTypeOK
  <2>4. pc'[d] = "tool" /\ \A e \in Doc \ {d} : pc'[e] = pc[e]
    BY GotoMoves, MovesEffect DEF RunTool, Control, Shows
  <2>5. InWork(p)'
    BY <2>1, <2>3, <2>4 DEF InWork, AtWork
  <2>6. ReadRight(p)'
    BY <2>2, <2>3, <2>4 DEF Current, ReadRight
  <2>7. OneName(p)'
    BY <2>1, <2>2, <2>3, <2>4 DEF Current, OneName
  <2>. QED
    BY <2>5, <2>6, <2>7 DEF Current, NewerIsGood, DoneIsGood, Good
<1>. QED
  BY <1>1, <1>2

LEMMA ToolFailsKeeps ==
  ASSUME FigureInv, NEW d \in Doc, ToolFails(d)
  PROVE  PictureInv'
<1> SUFFICES ASSUME NEW p \in Picture, Fine(p)' PROVE Current(p)'
  BY DEF PictureInv
<1> USE DEF FigureInv
<1>1. BaseOf[p] # BaseOf[picture[d]]
  <2>1. p # picture[d] /\ Fine(p) /\ pc[d] \in {"tool", "read"}
    BY DEF ToolFails, Fine
  <2>2. OneName(p)
    BY <2>1 DEF PictureInv, Current
  <2>. QED
    BY <2>1, <2>2 DEF OneName
<1>. QED
  BY <1>1, ElsewhereKeeps

(* What a tool that succeeds leaves is its own picture if it opened the    *)
(* file last, or what it has read is what is there; else another one that  *)
(* opened the file last is at work.                                        *)
LEMMA ToolSucceedsKeeps ==
  ASSUME FigureInv, NEW d \in Doc, ToolSucceeds(d)
  PROVE  PictureInv'
<1> SUFFICES ASSUME NEW p \in Picture, Fine(p)' PROVE Current(p)'
  BY DEF PictureInv
<1> DEFINE q == picture[d]
           b == BaseOf[q]
<1> USE DEF FigureInv
<1>1. CASE BaseOf[p] # b
  BY <1>1, ElsewhereKeeps
<1>2. CASE BaseOf[p] = b
  <2>1. pc[d] = "read" /\ b \in File /\ b \notin Code /\ q \in Picture /\ picture' = picture
    BY Parts DEF ToolSucceeds, srcVars
  <2>2. /\ pc'[d] = "done" /\ shown'[d] = "picture"
        /\ \A e \in Doc \ {d} : pc'[e] = pc[e] /\ shown'[e] = shown[e]
    BY ShowMoves, MovesEffect DEF ToolSucceeds, Control, Shows
  <2>3. p = q
    <3>1. SUFFICES ASSUME p # q PROVE FALSE
      OBVIOUS
    <3>2. Fine(p)
      BY <3>1 DEF Fine, ToolSucceeds, history
    <3>. QED
      BY <1>2, <2>1, <3>1, <3>2 DEF PictureInv, Current, OneName
  <2>4. /\ SourceVersion(p)' = SourceVersion(p) /\ opener' = opener /\ seen' = seen
        /\ \A e \in Doc \ {d} : read'[e] = read[e]
    BY Parts DEF ToolSucceeds, srcVars, SourceVersion, FigureTypeOK
  <2>5. /\ content'[b] \in {read[d], content[b], Unfinished}
        /\ opener[b] = {d} \/ read[d] = content[b] => content'[b] = read[d]
    BY <2>1 DEF ToolSucceeds, FigureTypeOK
  <2>6. SourceVersion(p) \in Nat /\ \A e \in Doc : picture[e] = p => seen[e] <= SourceVersion(p)
    BY Sources DEF Flow
  <2>7. CASE Alone(d) /\ read[d] = <<p, SourceVersion(p)>>
    <3>1. content'[b] = <<p, SourceVersion(p)>>
      BY <2>5, <2>7 DEF Alone
    <3>2. \A e \in Doc : BaseOf[picture[e]] = b => pc'[e] \notin {"tool", "read"}
      BY <2>2, <2>7 DEF Alone
    <3>3. ReadRight(p)' /\ OneName(p)'
      BY <1>2, <2>1, <3>2 DEF ReadRight, OneName
    <3>4. NewerIsGood(p)'
      BY <1>2, <2>4, <3>1 DEF NewerIsGood, Good
    <3>5. DoneIsGood(p)'
      BY <1>2, <2>1, <2>4, <2>6, <3>1 DEF DoneIsGood
    <3>. QED
      BY <3>3, <3>4, <3>5 DEF Current
  <2>8. CASE ~(Alone(d) /\ read[d] = <<p, SourceVersion(p)>>)
    <3>1. Fine(p) /\ Current(p)
      BY <2>3, <2>8 DEF ToolSucceeds, Fine, history, PictureInv
    <3>2. read[d] = <<p, SourceVersion(p)>>
      BY <2>1, <2>3, <3>1 DEF Current, ReadRight
    <3>3. Good(p)
      BY <2>1, <2>3, <3>1 DEF Current, NewerIsGood, AtWork
    <3>4. ReadRight(p)' /\ OneName(p)'
      BY <2>1, <2>2, <2>4, <3>1 DEF Current, ReadRight, OneName
    <3>5. CASE opener[b] = {d} \/ content[b] = <<p, SourceVersion(p)>>
      <4>1. content'[b] = <<p, SourceVersion(p)>>
        BY <2>5, <3>2, <3>5
      <4>2. NewerIsGood(p)'
        BY <1>2, <2>4, <4>1 DEF NewerIsGood, Good
      <4>3. DoneIsGood(p)'
        BY <1>2, <2>1, <2>4, <2>6, <4>1 DEF DoneIsGood
      <4>. QED
        BY <3>4, <4>2, <4>3 DEF Current
    <3>6. CASE ~(opener[b] = {d} \/ content[b] = <<p, SourceVersion(p)>>)
      <4>1. PICK e \in AtWork(p) : opener[b] = {e}
        BY <1>2, <3>3, <3>6 DEF Good, InWork
      <4>2. e # d /\ e \in Doc
        BY <3>6, <4>1 DEF AtWork
      <4>3. InWork(p)'
        BY <1>2, <2>1, <2>2, <2>4, <4>1, <4>2 DEF InWork, AtWork
      <4>. QED
        BY <3>4, <4>3 DEF Current, NewerIsGood, DoneIsGood, Good
    <3>. QED
      BY <3>5, <3>6
  <2>. QED
    BY <2>7, <2>8
<1>. QED
  BY <1>1, <1>2

(* A build, the author and the clock.                                      *)
LEMMA OtherPictures ==
  ASSUME FigureInv, Other
  PROVE  PictureInv'
<1> SUFFICES ASSUME NEW p \in Picture, Fine(p)' PROVE Current(p)'
  BY DEF PictureInv
<1> DEFINE b == BaseOf[p]
<1> USE DEF FigureInv
<1>1. Onward /\ picture' = picture
  BY OthersGoOnward
<1>2. b \in File /\ b \in Base /\ pc \in [Doc -> Control] /\ seen \in [Doc -> Version]
  BY Parts DEF FigureTypeOK
(* The source is as it was.                                                *)
<1>3. ASSUME Fine(p), SourceVersion(p)' = SourceVersion(p),
             content'[b] = content[b], ctime'[b] = ctime[b], InWork(p) => InWork(p)',
             \A e \in Doc : pc'[e] \in {"tool", "read"} => pc'[e] = pc[e] /\ read'[e] = read[e],
             \A e \in Doc : picture[e] = p /\ pc'[e] = "done" =>
               pc[e] = "done" /\ shown'[e] = shown[e] /\ seen'[e] = seen[e]
      PROVE  Current(p)'
  <2>1. Current(p)
    BY <1>3 DEF PictureInv
  <2>. QED
    BY <1>1, <1>3, <2>1, SamePicture
<1>4. ~writing => ~InWork(p) /\ \A e \in Doc : pc[e] \notin {"tool", "read"}
  BY DEF InWork, AtWork, Flow, UnderWay
<1>5. version' = version => SourceVersion(p)' = SourceVersion(p)
  BY DEF SourceVersion
<1>6. CASE StartBuild
  <2>1. /\ ~writing /\ UNCHANGED <<version, content, ctime, tainted, raced>>
        /\ \A e \in Doc : pc'[e] \in {"wait", "none"}
    BY <1>6 DEF StartBuild, srcVars, fileVars, history
  <2>. QED
    BY <1>3, <1>4, <1>5, <2>1 DEF Fine
<1>7. CASE Finish
  <2>1. /\ version' = version /\ tainted \subseteq tainted' /\ raced' = raced
        /\ seen' = seen /\ shown' = shown
    BY <1>7 DEF Finish, Exit, srcVars
  <2>2. \A e \in Doc : pc[e] \notin UnderWay /\ (pc'[e] = pc[e] \/ pc'[e] = "stopped")
    BY <1>2, <1>7 DEF Finish
  <2>3. content'[b] = content[b] /\ ctime'[b] = ctime[b]
    <3>1. b \notin {a \in Base : ~failed /\ Copied(a) # {}}
      BY <1>7 DEF Finish, Fine
    <3>. QED
      BY <1>2, <1>7, <3>1 DEF Finish
  <2>4. ~InWork(p) /\ \A e \in Doc : pc'[e] \notin {"tool", "read"}
    BY <2>2 DEF InWork, AtWork, UnderWay
  <2>. QED
    BY <1>3, <1>5, <2>1, <2>2, <2>3, <2>4 DEF Fine
<1>8. CASE Stop
  <2>1. /\ UNCHANGED <<version, content, ctime, raced, seen, shown>>
        /\ tainted' = tainted \cup UNION {HasOpen(d) : d \in Doc}
        /\ \A e \in Doc : pc'[e] = IF pc[e] \in UnderWay \cup {"wait"} THEN "stopped" ELSE pc[e]
    BY <1>8 DEF Stop, Exit, srcVars
  <2>2. ~InWork(p)
    <3> SUFFICES ASSUME NEW e \in AtWork(p) PROVE FALSE
      BY DEF InWork
    <3>1. e \in Doc /\ p \in HasOpen(e)
      BY DEF AtWork, HasOpen
    <3>. QED
      BY <2>1, <3>1 DEF Fine
  <2>3. /\ \A e \in Doc : pc'[e] \notin {"tool", "read"}
        /\ \A e \in Doc : pc'[e] = "done" => pc[e] = "done"
    BY <2>1 DEF UnderWay
  <2>. QED
    BY <1>3, <1>5, <2>1, <2>2, <2>3 DEF Fine
<1>9. CASE Tick \/ UNCHANGED vars
  <2>1. UNCHANGED <<picture, version, content, ctime, opener, pc, read, seen, shown, tainted, raced>>
    BY <1>9 DEF Tick, vars, srcVars, fileVars, docVars, history
  <2>2. InWork(p) => InWork(p)'
    BY <2>1 DEF InWork, AtWork
  <2>. QED
    BY <1>3, <1>5, <2>1, <2>2 DEF Fine
<1>10. ASSUME NEW s \in Source, Edit(s) PROVE Current(p)'
  <2>1. /\ UNCHANGED <<picture, content, ctime, opener, read, seen, shown, raced, clock>>
        /\ version' = [version EXCEPT ![s] = @ + 1] /\ stime' = [stime EXCEPT ![s] = clock]
    BY <1>10 DEF Edit, fileVars
  <2>2. \A e \in Doc : \/ pc'[e] = pc[e]
                       \/ ~writing /\ pc'[e] = "none"
    BY <1>2, <1>10 DEF Edit
  <2>3. InWork(p) => InWork(p)'
    <3>1. InWork(p) => writing
      BY <1>4
    <3>2. writing => pc' = pc
      BY <1>10 DEF Edit
    <3>. QED
      BY <2>1, <3>1, <3>2 DEF InWork, AtWork
  <2>4. CASE p # s
    <3>1. SourceVersion(p)' = SourceVersion(p)
      BY <2>1, <2>4, Parts DEF SourceVersion, FigureTypeOK
    <3>2. Fine(p)
      BY <1>10, <2>1, <2>4 DEF Edit, Fine
    <3>. QED
      BY <1>3, <2>1, <2>2, <2>3, <3>1, <3>2
  <2>5. CASE p = s
    <3>1. /\ p \notin Code /\ SourceTime(p)' = clock /\ clock \in Nat
          /\ ctime'[b] <= clock /\ ctime'[b] \in Nat
      BY <1>2, <2>1, <2>5, Parts DEF SourceTime, FigureTypeOK, Times
    <3>2. ~IsNewer(b, p)'
      BY <3>1 DEF IsNewer
    <3>3. \A e \in Doc : picture[e] = p => pc'[e] \notin {"tool", "read"}
      <4>1. CASE writing
        BY <1>10, <2>2, <2>5, <4>1 DEF Edit, Fine
      <4>2. CASE ~writing
        BY <1>4, <2>2, <4>2
      <4>. QED
        BY <4>1, <4>2
    <3>4. ReadRight(p)' /\ NewerIsGood(p)'
      BY <2>1, <3>2, <3>3 DEF ReadRight, NewerIsGood, AtWork
    <3>5. CASE writing
      <4>1. Fine(p) /\ pc' = pc
        BY <1>10, <2>1, <3>5 DEF Edit, Fine
      <4>2. OneName(p)' /\ DoneIsGood(p)'
        BY <2>1, <2>3, <4>1 DEF PictureInv, Current, OneName, DoneIsGood
      <4>. QED
        BY <3>4, <4>2 DEF Current
    <3>6. CASE ~writing
      <4>1. \A e \in Doc : picture[e] = p => pc'[e] = "none"
        BY <1>2, <1>10, <2>5, <3>6 DEF Edit
      <4>2. \A e \in Doc : pc'[e] \notin {"tool", "read"}
        BY <1>4, <2>2, <3>6
      <4>. QED
        BY <2>1, <3>4, <4>1, <4>2 DEF Current, OneName, DoneIsGood
    <3>. QED
      BY <3>5, <3>6
  <2>. QED
    BY <2>4, <2>5
<1>. QED
  BY <1>6, <1>7, <1>8, <1>9, <1>10 DEF Other

----------------------------------------------------------------------------
(* The inductive invariant: types, times, where writers are, the texts     *)
(* they save, and the files of the pictures.                               *)
THEOREM FigureInvariance == Spec => []FigureInv
<1>1. Init => FigureInv
  BY InitTypes, InitFlow, InitMarkup, InitPictures DEF FigureInv
<1>2. ASSUME FigureInv, NEW d \in Doc, Writer(d) PROVE FigureInv'
  <2>1. FigureTypeOK' /\ Times' /\ Flow'
    BY <1>2, WriterTypes, WriterFlow DEF FigureInv
  <2>2. MarkupInv'
    BY <1>2, RenderMarkup, OpenMarkupKeeps, SaveMarkupKeeps, WorkMarkup
       DEF FigureInv, Writer, ToolEnds
  <2>3. PictureInv'
    BY <1>2, LookingKeeps, RunToolKeeps, ToolSucceedsKeeps, ToolFailsKeeps DEF Writer, ToolEnds
  <2>. QED
    BY <2>1, <2>2, <2>3 DEF FigureInv
<1>3. ASSUME FigureInv, Other PROVE FigureInv'
  BY <1>3, OtherTypes, OtherFlow, OtherMarkup, OtherPictures DEF FigureInv, Other
<1>4. FigureInv /\ [Next]_vars => FigureInv'
  BY <1>2, <1>3 DEF Next, Other
<1>. QED
  BY <1>1, <1>4, PTL DEF Spec

(* Formats, times, files and writers of pictures keep their types, for any *)
(* documents and bounds.                                                   *)
THEOREM FigureTypeOKAlways == Spec => []FigureTypeOK
<1>1. FigureInv => FigureTypeOK
  BY DEF FigureInv
<1>. QED
  BY <1>1, FigureInvariance, PTL

(* However builds, writers, tools and edits are interleaved, a document of *)
(* a build that is over shows its own picture, current, but for the faults *)
(* PicturesAreCurrent names: isNewer and the saved texts may be trusted.   *)
THEOREM PicturesAreCurrentAlways == Spec => []PicturesAreCurrent
<1>1. FigureInv => PicturesAreCurrent
  <2> SUFFICES ASSUME FigureInv, NEW d \in Doc, ShowsFile(d), Fine(picture[d])
               PROVE  ShowsItsPicture(d)
    BY DEF PicturesAreCurrent, Fine
  <2> DEFINE p == picture[d]
  <2>1. ~writing /\ pc[d] = "done" /\ p \in Picture /\ seen[d] <= SourceVersion(p)
    BY Parts DEF ShowsFile, FigureInv, Flow
  <2>2. ~InWork(p) /\ ~Saver(p)
    BY <2>1 DEF InWork, AtWork, Saver, FigureInv, Flow, UnderWay
  <2>3. CASE shown[d] = "picture"
    <3>1. DoneIsGood(p)
      BY <2>1 DEF FigureInv, PictureInv, Current
    <3>2. PICK v \in Nat : content[BaseOf[p]] = <<p, v>> /\ seen[d] <= v
      BY <2>1, <2>2, <2>3, <3>1 DEF DoneIsGood
    <3>. QED
      BY <2>3, <3>2 DEF ShowsItsPicture, ShownFile, Unfinished
  <2>4. CASE shown[d] = "asis" /\ p \in Code
    <3>1. Exists(p)
      BY <2>1, <2>4 DEF FigureInv, Flow, UsesMarkup
    <3>2. content[p] = <<p, 1>>
      BY <2>2, <2>4, <3>1 DEF FigureInv, MarkupInv, MarkupSound, Sound, Fine
    <3>. QED
      BY <2>1, <2>4, <3>2 DEF ShowsItsPicture, ShownFile, Unfinished, SourceVersion
  <2>. QED
    BY <2>3, <2>4 DEF ShowsFile
<1>. QED
  BY <1>1, FigureInvariance, PTL

(* A text that was saved is never opened for writing again, but for two    *)
(* writers that both found it missing.                                     *)
THEOREM MarkupKeptAlways == Spec => MarkupKept
<1>1. ASSUME FigureInv, [Next]_vars, NEW c \in Code, content[c] # Unfinished
      PROVE  content'[c] = content[c] \/ c \in raced'
  <2>1. c \in File /\ c \notin Base /\ content \in [File -> Content] /\ content[c] = <<c, 1>>
    BY <1>1, Parts DEF FigureInv, FigureTypeOK, MarkupInv, Markup
  <2>2. \A d \in Doc : BaseOf[picture[d]] # c
    BY <1>1, <2>1, Parts DEF FigureInv
  <2> USE DEF srcVars, fileVars, docVars
  <2>3. CASE StartBuild \/ Stop \/ Tick \/ (\E s \in Source : Edit(s)) \/ UNCHANGED vars
    BY <2>3 DEF StartBuild, Stop, Tick, Edit, vars
  <2>4. CASE Finish
    <3>1. c \notin {b \in Base : ~failed /\ Copied(b) # {}}
      BY <2>1
    <3>. QED
      BY <2>1, <2>4, <3>1 DEF Finish
  <2>5. ASSUME NEW d \in Doc, OpenMarkup(d) PROVE content'[c] = content[c] \/ c \in raced'
    <3>1. CASE c = picture[d]
      BY <1>1, <2>5, <3>1 DEF OpenMarkup, FigureInv, MarkupInv, SavedByOther
    <3>2. CASE c # picture[d]
      BY <2>1, <2>5, <3>2 DEF OpenMarkup
    <3>. QED
      BY <3>1, <3>2
  <2>6. ASSUME NEW d \in Doc, SaveMarkup(d) PROVE content'[c] = content[c]
    BY <2>1, <2>6 DEF SaveMarkup
  <2>7. ASSUME NEW d \in Doc, VisitImage(d) \/ VisitRender(d) \/ CheckNewer(d) \/ ToolReads(d)
        PROVE  content'[c] = content[c]
    BY <2>7 DEF VisitImage, VisitRender, CheckNewer, ToolReads
  <2>8. ASSUME NEW d \in Doc, RunTool(d) PROVE content'[c] = content[c]
    BY <2>1, <2>2, <2>8 DEF RunTool
  <2>9. ASSUME NEW d \in Doc, ToolSucceeds(d) PROVE content'[c] = content[c]
    BY <2>1, <2>2, <2>9 DEF ToolSucceeds
  <2>10. ASSUME NEW d \in Doc, ToolFails(d) PROVE content'[c] = content[c]
    BY <2>1, <2>2, <2>10 DEF ToolFails
  <2>. QED
    BY <1>1, <2>3, <2>4, <2>5, <2>6, <2>7, <2>8, <2>9, <2>10 DEF Next, Writer, ToolEnds
<1>2. FigureInv /\ [Next]_vars =>
        [\A c \in Code : content[c] # Unfinished => content'[c] = content[c] \/ c \in raced']_vars
  BY <1>1
<1>. QED
  BY <1>2, FigureInvariance, PTL DEF Spec, MarkupKept
=============================================================================

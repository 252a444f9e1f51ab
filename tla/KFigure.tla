------------------------------- MODULE KFigure -------------------------------
(***************************************************************************)
(* sphinx/kfigure.py of the kernel documentation: the pictures of a build. *)
(*                                                                         *)
(* While documents are written, a picture is converted to the format the   *)
(* builder wants by dot(1) or convert(1), into the output directory, where *)
(* the next build finds it: a file newer than its source is not made       *)
(* again.  The text of a kernel-render directive is saved to a file of     *)
(* the output directory first, named by the hash of the text.  Documents   *)
(* are written by several processes at once for html, one after the other  *)
(* for latex.                                                              *)
(*                                                                         *)
(* A converted file is represented by the base name it gets from its       *)
(* source; what is in it by the picture and the version it was made of,    *)
(* and by Unfinished when a tool or a writer has not written all of it.    *)
(* Sphinx itself is external: it says which documents are written, knows   *)
(* the images to copy at the end, and lets all documents finish or none.   *)
(***************************************************************************)
EXTENDS Naturals, FiniteSets

CONSTANTS
  Doc,          \* documents, each with one picture
  Source,       \* image files of the source tree (kernel-image, kernel-figure)
  Code,         \* texts of kernel-render directives
  Base,         \* base names of files
  BaseOf,       \* the base name of a picture's file
  ExtOf,        \* its extension
  Format,       \* the builders' formats
  MaxBuild,     \* bound: builds
  MaxTime,      \* bound: ticks of the clock of ctimes
  MaxVersion    \* bound: versions of a source, 0 when it is not there yet

Picture == Source \cup Code
Ext == {".dot", ".svg", ".pdf", ".png"}
Tool == {"dot", "convert"}

ASSUME KFigureAssumption ==
  /\ Base \cap Code = {} /\ Source \cap Code = {}
  /\ BaseOf \in [Picture -> Base]
  /\ ExtOf \in [Picture -> Ext] /\ \A c \in Code : ExtOf[c] \in {".dot", ".svg"}
  /\ \A c \in Code, p \in Picture : BaseOf[c] = BaseOf[p] => c = p
  /\ Format \subseteq {"html", "latex", "text"}
  /\ MaxBuild \in Nat /\ MaxTime \in Nat \ {0} /\ MaxVersion \in Nat \ {0}

VARIABLES
  format,       \* translator.builder.format
  picture,      \* the picture of each document
  clock,        \* now
  version,      \* version of each source, 0: no such file
  stime,        \* st_ctime of each source
  content,      \* what is in a file of the output directory
  ctime,        \* its st_ctime, 0: no such file
  build,        \* builds begun
  writing,      \* is one under way?
  tools,        \* dot_cmd, convert_cmd: those that are not None
  images,       \* builder.images: sources to copy when all is written
  failed,       \* has a writer raised an exception?
  pc,           \* where the writer of each document is
  opener,       \* the document whose tool opened (truncated) a file last
  read,         \* what the tool of a document has read
  seen,         \* history: the version of its source a document found
  shown,        \* what a document of the last build shows as its picture
  tainted,      \* history: pictures whose file a fault may have damaged
  raced         \* history: texts two writers saved or looked for at once

srcVars == <<format, picture, version, stime>>
fileVars == <<content, ctime, opener>>
buildVars == <<build, writing, tools, images>>
docVars == <<pc, read, seen, shown, failed>>
history == <<tainted, raced>>
vars == <<srcVars, clock, fileVars, buildVars, docVars, history>>

File == Base \cup Code
Time == 0 .. MaxTime
Version == 0 .. MaxVersion
Unfinished == <<>>
Content == (Picture \X Version) \cup {Unfinished}
Control == {"none", "wait", "save", "saving", "check", "open", "tool", "read",
            "done", "stopped"}

FigureTypeOK ==
  /\ format \in Format /\ picture \in [Doc -> Picture]
  /\ clock \in Time \ {0}
  /\ version \in [Source -> Version] /\ stime \in [Source -> Time]
  /\ content \in [File -> Content] /\ ctime \in [File -> Time]
  /\ opener \in [File -> SUBSET Doc]
  /\ build \in 0 .. MaxBuild /\ writing \in BOOLEAN
  /\ tools \subseteq Tool /\ images \subseteq Source
  /\ pc \in [Doc -> Control] /\ failed \in BOOLEAN
  /\ read \in [Doc -> Content] /\ seen \in [Doc -> Version]
  /\ shown \in [Doc -> {"nothing", "text", "asis", "picture"}]
  /\ tainted \subseteq Picture /\ raced \subseteq Code

(* Nothing has been built; some of the sources are there.                  *)
Init ==
  /\ format \in Format /\ picture \in [Doc -> Picture]
  /\ clock = 1
  /\ version \in [Source -> {0, 1}]
  /\ stime = [s \in Source |-> version[s]]
  /\ content = [f \in File |-> Unfinished] /\ ctime = [f \in File |-> 0]
  /\ opener = [f \in File |-> {}]
  /\ build = 0 /\ writing = FALSE /\ tools = {} /\ images = {}
  /\ pc = [d \in Doc |-> "none"] /\ failed = FALSE
  /\ read = [d \in Doc |-> Unfinished] /\ seen = [d \in Doc |-> 0]
  /\ shown = [d \in Doc |-> "nothing"]
  /\ tainted = {} /\ raced = {}

----------------------------------------------------------------------------
(* parallel_write_safe: the html builder writes documents side by side.    *)
Parallel == format = "html"

UnderWay == {"save", "saving", "check", "open", "tool", "read"}

Exists(f) == ctime[f] # 0

(* The file convert_image reads: the source, or the text saved before.     *)
SourceIsThere(p) == IF p \in Code THEN TRUE ELSE version[p] # 0
SourceTime(p) == IF p \in Code THEN ctime[p] ELSE stime[p]
SourceContent(p) == IF p \in Code THEN content[p] ELSE <<p, version[p]>>
SourceVersion(p) == IF p \in Code THEN 1 ELSE version[p]

(* Mutants of IsNewer: a file as old as its source passes for newer; the   *)
(* file's existence is enough.                                             *)
IsNewerOrSame(f, p) == Exists(f) /\ ctime[f] >= SourceTime(p)
IsThere(f, p) == Exists(f)

(* isNewer(dst_fname, src_fname)                                           *)
IsNewer(f, p) == Exists(f) /\ ctime[f] > SourceTime(p)

(* What becomes of a picture, by its extension, the builder's format and   *)
(* the tools: its source as text, its source as it is, or a conversion.    *)
Way(p) ==
  CASE ExtOf[p] = ".dot" ->
         IF "dot" \in tools /\ format \in {"latex", "html"} THEN "picture" ELSE "text"
    [] ExtOf[p] = ".svg" /\ format = "latex" ->
         IF "convert" \in tools THEN "picture" ELSE "text"
    [] OTHER -> "asis"

(* The writer of d is done with its picture.                               *)
Show(d, what) ==
  /\ pc' = [pc EXCEPT ![d] = "done"]
  /\ shown' = [shown EXCEPT ![d] = what]
  /\ UNCHANGED failed

(* The writer of d raises an exception: there is no file to read or stat.  *)
Raise(d) ==
  /\ pc' = [pc EXCEPT ![d] = "stopped"]
  /\ failed' = TRUE
  /\ UNCHANGED shown

(* img_node.replace_self(file2literal(src_fname))                          *)
ShowText(d) == IF SourceIsThere(picture[d]) THEN Show(d, "text") ELSE Raise(d)

Goto(d, place) ==
  /\ pc' = [pc EXCEPT ![d] = place]
  /\ UNCHANGED <<shown, failed>>

(* convert_image up to the choice of dst_fname                             *)
ConvertImage(d) ==
  CASE Way(picture[d]) = "picture" -> Goto(d, "check")
    [] Way(picture[d]) = "text"    -> ShowText(d)
    [] Way(picture[d]) = "asis"    -> Show(d, "asis")

----------------------------------------------------------------------------
(* Mutant of ImagesOf: the texts count as images, too.                     *)
ImagesOfAll(written) == {picture[d] : d \in written}

(* The sources the documents mention and Sphinx has found.                 *)
ImagesOf(written) ==
  {s \in Source : version[s] # 0 /\ \E d \in written : picture[d] = s}

(* builder-inited: setupTools looks for the tools once per build.  Sphinx  *)
(* picks the documents to write and the images they mention.               *)
StartBuild ==
  /\ ~writing /\ build < MaxBuild
  /\ build' = build + 1 /\ writing' = TRUE
  /\ tools' \in SUBSET Tool
  /\ \E written \in (SUBSET Doc) \ {{}} :
       /\ pc' = [d \in Doc |-> IF d \in written THEN "wait" ELSE "none"]
       /\ images' = ImagesOf(written)
  /\ seen' = [d \in Doc |-> 0] /\ shown' = [d \in Doc |-> "nothing"]
  /\ UNCHANGED <<srcVars, clock, fileVars, read, failed, history>>

(* A writer takes the next document: any, when there are several writers.  *)
MayStart(d) ==
  /\ pc[d] = "wait" /\ ~failed
  /\ Parallel \/ \A e \in Doc : pc[e] \notin UnderWay

(* visit_kernel_image, visit_kernel_figure                                 *)
VisitImage(d) ==
  /\ picture[d] \in Source /\ MayStart(d)
  /\ seen' = [seen EXCEPT ![d] = version[picture[d]]]
  /\ ConvertImage(d)
  /\ UNCHANGED <<srcVars, clock, fileVars, buildVars, read, history>>

(* Is another writer saving the text c, or about to?                       *)
OtherSaves(d, c) == \E e \in Doc \ {d} : picture[e] = c /\ pc[e] \in {"save", "saving"}

(* Mutant of MustSave: the text is saved by every build.                   *)
MustSaveAlways(c) == TRUE

(* not path.isfile(tmp_fname)                                              *)
MustSave(c) == ~Exists(c)

(* visit_kernel_render up to the look at tmp_fname                         *)
VisitRender(d) ==
  LET c == picture[d] IN
  /\ c \in Code /\ MayStart(d)
  /\ seen' = [seen EXCEPT ![d] = 1]
  /\ CASE ExtOf[c] = ".dot" /\ "dot" \notin tools -> Show(d, "text")
       [] ~(ExtOf[c] = ".dot" /\ "dot" \notin tools) /\ MustSave(c) -> Goto(d, "save")
       [] ~(ExtOf[c] = ".dot" /\ "dot" \notin tools) /\ ~MustSave(c) -> ConvertImage(d)
  /\ raced' = IF OtherSaves(d, c) THEN raced \cup {c} ELSE raced
  /\ UNCHANGED <<srcVars, clock, fileVars, buildVars, read, tainted>>

(* open(tmp_fname, "w")                                                    *)
OpenMarkup(d) ==
  LET c == picture[d] IN
  /\ pc[d] = "save"
  /\ content' = [content EXCEPT ![c] = Unfinished]
  /\ ctime' = [ctime EXCEPT ![c] = clock]
  /\ opener' = [opener EXCEPT ![c] = {d}]
  /\ Goto(d, "saving")
  /\ raced' = IF \E e \in Doc \ {d} : picture[e] = c /\ pc[e] \notin {"none", "wait"}
              THEN raced \cup {c} ELSE raced
  /\ UNCHANGED <<srcVars, clock, buildVars, read, seen, tainted>>

(* out.write(code), and the file is closed; the image takes the place of   *)
(* the text.  Two writers write the same text to the same file.            *)
SaveMarkup(d) ==
  LET c == picture[d] IN
  /\ pc[d] = "saving"
  /\ \E whole \in BOOLEAN :
       /\ opener[c] = {d} => whole
       /\ content' = IF whole THEN [content EXCEPT ![c] = <<c, 1>>] ELSE content
  /\ ctime' = [ctime EXCEPT ![c] = clock]
  /\ ConvertImage(d)
  /\ UNCHANGED <<srcVars, clock, opener, buildVars, read, seen, history>>

----------------------------------------------------------------------------
(* builder.images.pop(img_node['uri']), the uri being that of the new file *)
(* by now: a source of that very name is not copied.                       *)
Popped(p) == {s \in Source : BaseOf[s] = BaseOf[p] /\ ExtOf[s] = ".pdf"}
PopImage(p) ==
  \/ UNCHANGED images
  \/ /\ format = "latex"
     /\ images' = images \ Popped(p)

(* convert_image: the file is there and newer, or it is to be made.        *)
CheckNewer(d) ==
  LET p == picture[d]
      b == BaseOf[p]
  IN
  /\ pc[d] = "check"
  /\ PopImage(p)
  /\ CASE Exists(b) /\ ~SourceIsThere(p) -> Raise(d)
       [] ~(Exists(b) /\ ~SourceIsThere(p)) /\ IsNewer(b, p)  -> Show(d, "picture")
       [] ~(Exists(b) /\ ~SourceIsThere(p)) /\ ~IsNewer(b, p) -> Goto(d, "open")
  /\ UNCHANGED <<srcVars, clock, fileVars, build, writing, tools, read, seen, history>>

(* Pictures that lose their file to the conversion of p: the name of the   *)
(* new file is the base name of its source, whatever directory it is in.   *)
SameName(p) == {q \in Picture : BaseOf[q] = BaseOf[p] /\ q # p}

(* dot2format opens the file it redirects dot's output to; svg2pdf leaves  *)
(* it to convert to write the file.                                        *)
RunTool(d) ==
  LET p == picture[d]
      b == BaseOf[p]
  IN
  /\ pc[d] = "open"
  /\ IF ExtOf[p] = ".dot"
     THEN /\ content' = [content EXCEPT ![b] = Unfinished]
          /\ ctime' = [ctime EXCEPT ![b] = clock]
     ELSE UNCHANGED <<content, ctime>>
  /\ opener' = [opener EXCEPT ![b] = {d}]
  /\ tainted' = tainted \cup SameName(p)
  /\ Goto(d, "tool")
  /\ UNCHANGED <<srcVars, clock, buildVars, read, seen, raced>>

(* The tool reads the source.                                              *)
ToolReads(d) ==
  /\ pc[d] = "tool" /\ SourceIsThere(picture[d])
  /\ read' = [read EXCEPT ![d] = SourceContent(picture[d])]
  /\ Goto(d, "read")
  /\ UNCHANGED <<srcVars, clock, fileVars, buildVars, seen, history>>

(* No other tool writes to the file d's tool has opened, and no writer is  *)
(* saving the text the tool has read.                                      *)
Alone(d) ==
  LET b == BaseOf[picture[d]] IN
  /\ opener[b] = {d}
  /\ \A e \in Doc \ {d} : BaseOf[picture[e]] = b =>
       pc[e] \notin {"save", "saving", "tool", "read"}

(* It writes its output and ends with 0.  What another one has written     *)
(* after truncating the file may be what stays, or a mixture of the two.   *)
ToolSucceeds(d) ==
  LET p == picture[d]
      b == BaseOf[p]
  IN
  /\ pc[d] = "read"
  /\ \E stays \in {read[d], content[b], Unfinished} :
       /\ opener[b] = {d} \/ read[d] = content[b] => stays = read[d]
       /\ content' = [content EXCEPT ![b] = stays]
  /\ ctime' = [ctime EXCEPT ![b] = clock]
  /\ read' = [read EXCEPT ![d] = Unfinished]
  /\ Show(d, "picture")
  /\ IF Alone(d) /\ read[d] = <<p, SourceVersion(p)>>
     THEN tainted' = tainted \ {p} /\ raced' = raced \ {p}
     ELSE UNCHANGED history
  /\ UNCHANGED <<srcVars, clock, opener, buildVars, seen>>

(* Mutant of ToolFails: the exit code is not looked at.                    *)
ToolFailsUnseen(d) ==
  LET b == BaseOf[picture[d]] IN
  /\ pc[d] \in {"tool", "read"}
  /\ content' = [content EXCEPT ![b] = Unfinished]
  /\ ctime' = [ctime EXCEPT ![b] = clock]
  /\ Show(d, "picture")
  /\ read' = [read EXCEPT ![d] = Unfinished]
  /\ UNCHANGED <<srcVars, clock, opener, buildVars, seen, history>>

(* It ends with another code, having written all, part or nothing of its   *)
(* output: the source is shown as text, the file stays.                    *)
ToolFails(d) ==
  LET p == picture[d]
      b == BaseOf[p]
  IN
  /\ pc[d] \in {"tool", "read"}
  /\ \/ UNCHANGED <<content, ctime>>
     \/ /\ content' = [content EXCEPT ![b] = Unfinished]
        /\ ctime' = [ctime EXCEPT ![b] = clock]
  /\ ShowText(d)
  /\ read' = [read EXCEPT ![d] = Unfinished]
  /\ tainted' = tainted \cup {p}
  /\ UNCHANGED <<srcVars, clock, opener, buildVars, seen, raced>>

----------------------------------------------------------------------------
(* The extension of converted files is that of this builder.               *)
Target == IF format = "latex" THEN ".pdf" ELSE ".svg"

(* The process ends, and all it knew is gone.                              *)
Exit ==
  /\ writing' = FALSE /\ failed' = FALSE /\ tools' = {} /\ images' = {}
  /\ read' = [d \in Doc |-> Unfinished] /\ opener' = [f \in File |-> {}]
  /\ UNCHANGED <<srcVars, clock, build, seen, shown, raced>>

(* All documents are written, or no more will be: Sphinx copies the images *)
(* of a build that has not failed to the directory of the converted files. *)
Copied(b) == {s \in images : BaseOf[s] = b /\ ExtOf[s] = Target}
Finish ==
  /\ writing
  /\ \A d \in Doc : pc[d] \notin UnderWay /\ (pc[d] = "wait" => failed)
  /\ pc' = [d \in Doc |-> IF pc[d] = "wait" THEN "stopped" ELSE pc[d]]
  /\ LET copied == {b \in Base : ~failed /\ Copied(b) # {}} IN
       /\ content' = [f \in File |-> IF f \in copied
                        THEN LET s == CHOOSE s \in Copied(f) : TRUE IN <<s, version[s]>>
                        ELSE content[f]]
       /\ ctime' = [f \in File |-> IF f \in copied THEN clock ELSE ctime[f]]
       /\ tainted' = tainted \cup {p \in Picture : BaseOf[p] \in copied}
  /\ Exit

(* The pictures d's writer has a file open of.                             *)
HasOpen(d) ==
  CASE pc[d] = "saving" -> {picture[d]}
    [] pc[d] \in {"tool", "read"} -> {picture[d]} \cup SameName(picture[d])
    [] OTHER -> {}

(* Ctrl-C: the build, its writers and their tools end where they are.      *)
Stop ==
  /\ writing
  /\ pc' = [d \in Doc |-> IF pc[d] \in UnderWay \cup {"wait"} THEN "stopped" ELSE pc[d]]
  /\ tainted' = tainted \cup UNION {HasOpen(d) : d \in Doc}
  /\ UNCHANGED <<content, ctime>>
  /\ Exit

(* The author writes or edits a source.  A picture being made of it        *)
(* meanwhile may look newer than the edit.  Between builds the pages that  *)
(* show it are out of date until they are written again.                   *)
Edit(s) ==
  /\ version[s] < MaxVersion
  /\ version' = [version EXCEPT ![s] = @ + 1]
  /\ stime' = [stime EXCEPT ![s] = clock]
  /\ IF writing
     THEN /\ tainted' = IF \E d \in Doc : picture[d] = s /\ pc[d] \in {"tool", "read"}
                        THEN tainted \cup {s} ELSE tainted
          /\ UNCHANGED pc
     ELSE /\ tainted' = tainted \ {s}
          /\ pc' = [d \in Doc |-> IF picture[d] = s THEN "none" ELSE pc[d]]
  /\ UNCHANGED <<format, picture, clock, fileVars, buildVars, read, seen, shown,
                 failed, raced>>

Tick ==
  /\ clock < MaxTime
  /\ clock' = clock + 1
  /\ UNCHANGED <<srcVars, fileVars, buildVars, docVars, history>>

ToolEnds(d) == ToolReads(d) \/ ToolSucceeds(d) \/ ToolFails(d)
Writer(d) ==
  \/ VisitImage(d) \/ VisitRender(d) \/ OpenMarkup(d) \/ SaveMarkup(d)
  \/ CheckNewer(d) \/ RunTool(d) \/ ToolEnds(d)

Next ==
  \/ StartBuild \/ Finish \/ Stop \/ Tick
  \/ \E s \in Source : Edit(s)
  \/ \E d \in Doc : Writer(d)

Spec == Init /\ [][Next]_vars

----------------------------------------------------------------------------
(* What a document shows: the file its text was saved to, or a conversion. *)
ShownFile(d) == IF shown[d] = "asis" THEN picture[d] ELSE BaseOf[picture[d]]
ShowsFile(d) ==
  /\ ~writing /\ pc[d] = "done"
  /\ shown[d] = "picture" \/ (shown[d] = "asis" /\ picture[d] \in Code)

(* It is all there, the document's own, and of the version its source had  *)
(* when the document was written, or of a later one.                       *)
ShowsItsPicture(d) ==
  LET is == content[ShownFile(d)] IN
  is # Unfinished /\ is[1] = picture[d] /\ is[2] >= seen[d]

(* Once a build is over, each document written shows its own picture, all  *)
(* of it and as its source was when the document was written, whatever     *)
(* earlier builds left in the output directory, if since that file was     *)
(* last made alone, no tool failed on it and no build was stopped while    *)
(* writing it, its source was not edited while a tool worked on it, no     *)
(* other source had its name and no two documents saved its text at once:  *)
(* isNewer takes a file for an up-to-date one only when it is.             *)
PicturesAreCurrent ==
  \A d \in Doc : ShowsFile(d) =>
    \/ ShowsItsPicture(d)
    \/ picture[d] \in tainted \cup raced

(* `parallel_write_safe = True`, setup says: two documents that are        *)
(* written at once may hold the same text, and both show its picture.      *)
ParallelWriteSafe ==
  \A d \in Doc : ShowsFile(d) =>
    \/ ShowsItsPicture(d)
    \/ picture[d] \in tainted

(* The file a text was saved to is not opened for writing again, but for   *)
(* two writers that both found it missing: later builds take it as it is.  *)
MarkupKept ==
  [][\A c \in Code : content[c] # Unfinished =>
       content'[c] = content[c] \/ c \in raced']_vars
=============================================================================

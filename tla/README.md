# A verification project for study_linux

TLA+ modules, TLC configurations and TLAPS proofs about the programs of this
repository. Most of the repository is notes and a Korean translation of the
Linux kernel's documentation. Its programs are the scripts that build that
documentation, a script of it that writes a kernel module's skeleton, small
shell scripts, a Qt window and C samples. Several of them are concurrent, or
work on files that outlive them: documents written by parallel processes into
one output directory, background jobs that meet in a directory, a service that
dies and restarts under a monitoring script, a window that kills a script it
has waited for too long.

## Inventory

| Part | State it keeps | Operations | Talks to |
|---|---|---|---|
| benchmark script `tool/bench_exec.sh` | the directory `./log`: `id_list`, `result/<id>`; its shell variables | `bench` (default), `run <id>` (one job) | `adb`, its own background jobs, earlier runs of itself through `./log` |
| benchmark window `tool/qt/bench` | `dev1_str`, `dev2_str`, two text boxes | run-script and quit buttons | four calls of `bench_exec.sh` per click, through `QProcess` |
| leak monitor `tool/leaktracer/mon.sh` | installed and `.org` files, `leaks.out`, `/rw_data/hudhmi.leakinfo`; its shell variables | `setup`, `restore`, monitoring | the service hudhmi by systemctl, pidof, ps and signals 12 and 30; libleaktracer |
| scheduler event parser `tool/sched_event_parser` | files under `output/` | one mode per stage, or all | itself, through files a former stage appended to |
| thread samples `language/c/pthread`, `kthread` | an index, a mutex, thread handles | create, join, lock | threads |
| crash reporter `libsegv/segv.c` | signal handlers | constructor, handler | the kernel's signal delivery |
| load tools `tool/memoryhogger`, `cpuhogger`, `string_writer` | counters | one loop each | - |
| json, regex, prctl, fcntl, callback, module samples | little | straight-line demonstrations | libraries |
| kernel figures `sphinx/kfigure.py` | the output directory's pictures and saved texts, with their ctimes; `dot_cmd`, `convert_cmd`; `builder.images` | three directives, three visitors, `setupTools` | dot(1), convert(1), parallel writers of one build, earlier builds through the output directory |
| flat tables `sphinx/rstFlatTable.py` | `rows`, `max_cols` of one directive | parse, round off, build | docutils |
| documentation build `sphinx/kerneldoc.py`, `kernel_include.py`, `cdomain.py`, `load_config.py` | what Sphinx keeps for them: dependencies of documents, doctrees, the inventory of C names, configuration values | `kernel-doc`, `kernel-include`, `c:function`, `loadConfig` | Sphinx's environment, `scripts/kernel-doc`, C files, environment variables |
| TCM module builder `target/tcm_mod_builder.py` | `drivers/target/<name>` and two files of `drivers/target`; `fabric_ops` | one straight run with two questions | other runs and the user, through the tree |
| Sphinx configuration `conf.py`, `conf_nitpick.py`, `*/conf.py` | assignments | - | read by Sphinx and `load_config.py` |
| the documentation's texts, its C and Perl samples, the notes | - | - | - |

(The paths of the four parts above are under `translate/kerneldoc/Documentation`.)

What is hard, per part:

- **benchmark script**: jobs, loop and main shell interleave; the script waits
  by counting files and then by polling them; a session that is cut short
  leaves jobs (Ctrl-C) or jobs and a loop (SIGKILL of the main shell) that go
  on working by name in the directory of the next session; nothing bounds the
  waits. Correct means: every board listed is printed, with its own answer of
  this session, and a session ends if the boards answer.
- **benchmark window**: 30 s timeouts that kill, a text assigned before the
  call after it fails, a GUI thread that blocks. Correct: one script at a time,
  boxes that belong together, and a window that comes back.
- **leak monitor**: a file saved before it is replaced, and replaced back,
  with an exit possible between any two commands; a process that is looked up
  once and signalled later; an answer recognised by a file's existence.
  Correct: the originals survive, a success message is about this run's
  signals, the final report is of the process that was collecting, and a leak
  is noticed.
- **event parser**: outputs that are appended to, timestamps paired by
  position, stages that can be run in any order and stopped anywhere. Correct:
  each period is one run of one task, no task is forgotten, and a run of all
  the stages does not depend on what earlier ones left.
- **kernel figures**: html documents are written by several processes, which
  name files by the base name of a source or the hash of a text, and look
  whether a file is there before they make it; tools fail, or are stopped with
  the build, after they have truncated their output; times decide what is made
  again, and have ticks. Correct: a document shows its own picture, whole and
  of its source as it was then or later.
- **flat tables**: Nones for spanned places are inserted by index into rows
  that have not had their own yet, under loops over the rows' lengths. Correct:
  no cell is lost or moved, the entries tile the grid, and the loops end.
- **documentation build**: what a page was made of is told to Sphinx bit by
  bit, by directives that may fail in between, while files change; builds are
  stopped between two documents. Correct: a page that would be different now
  is found to be out of date, and names lead to documents that describe them.
- **TCM module builder**: looks for a directory and then makes it, writes six
  files one after the other, appends to two shared ones; anything may raise.
  Correct: files of one run, entries only for modules that are all there and
  fit together.
- **thread samples**: `&i` handed to threads, mutex owners that end.
- **crash reporter**: re-entry, the last byte of a buffer.

## Plan

The order the modules were written in, and of their proofs; all of it is done.

1. `BenchReport`, `BenchExec` and its proofs: the part with the most processes
   first, and an abstract specification it implements.
2. `BenchDemo` and its proofs, composed with `BenchReport`.
3. `LeakMonitor` and its proofs: what is installed, then what is reported.
4. `EventParser` and its proofs: what the stages leave to each other, then what
   a trace can be and what is made of it.
5. `KFigure`, `FlatTable` (and `FlatLayout`), `TcmBuilder`, `DocRead`: the Python of the
   documentation, each with its proofs. They share no state: a figure's label
   is made when its document is read (`DocRead`), its picture when it is
   written (`KFigure`), and Sphinx does not write before it has read.

What would come next: copies that fail by themselves in `LeakMonitor`, appends
that fail partway in `TcmBuilder`, what `kernel-doc` prints of the names it is
given in `DocRead`, and the pthread samples.

## Modules

### BenchReport

What a run of the script promises a reader of its output, without processes
and files: runs follow one another, a run quits or delivers, in one step, an
answer for each board it asked. As long as no run was cut short before, those
are its own answers; afterwards answers may be missing and answers of any
earlier run may turn up.

### BenchExec

The script. A *session* is one run of `bench`. Variables correspond to the
code as follows.

| Variable | Code |
|---|---|
| `session`, `pc`, `outcome` | the run under way, the command its main shell is at, how runs ended |
| `id_cnt` | `$id_cnt` |
| `todo` | lines left of `cat id_list \| while read id` (lines 47 and 64) |
| `listing` | what `adb devices \| grep device -w \| cut -f1` printed for a session |
| `starter`, `line` | the subshell of the `while read id` loop of `start_bench` (line 25) |
| `job` | `run_bench_tool ... &` (line 86): forked, file open, measured, failed, or writing to a file `rm -rf` has unlinked |
| `dir`, `id_list`, `present`, `lines` | `./log`, `log/id_list`, the files of `log/result` and whose answer is in them |
| `printed`, `shown` | what `print_result` has gone through and found |

Each command of `bench` that reads or changes shared state is an action:
`RemoveWorkDir`, `MakeWorkDir`, `MakeResultDir`, `AdbDevices`, `CountIds`,
`CompareCounts`, `GatherIds`, `PollResult`, `PollEnd`, `StartPrinting`,
`PrintResult`, `PrintEnd`; the loop is `ForkJob`, `NoteId`, `StarterEnd`; a job
is `OpenResult` or `CannotOpenResult`, then `WriteResult` or `NoResult`.
`Interrupt` and `Kill` cut a session short.

Readings and abstractions:

- `[ "$1" == "run" ]` is taken to work, as it does when `sh` is bash or
  busybox. (With dash the test fails and every call benchmarks.)
- Ctrl-C does not reach the jobs: a non-interactive shell starts asynchronous
  lists with SIGINT ignored and standard input from `/dev/null`; the latter is
  also why `adb shell` does not eat the loop's lines.
- A poll that finds nothing (`sleep 1`) is a stutter. Subshells of the second
  wait and of `print_result` only read, so they are folded into the main shell;
  an orphan of theirs changes nothing. Orphaned `adb devices` and `rm`
  processes of a killed main shell are not modelled.
- `rm -rf` is one step. The log of `adb devices` is read only by the commands
  right behind it and is part of `AdbDevices`.
- A count of files and the ids are read by separate actions (`CountIds`,
  `CompareCounts`), as the code does.
- The constant `Reported` bounds what `adb devices` may list; the proofs are for
  any subset of the listings of at most `MaxLine` lines. `MCBenchExec` gives it
  all of them, `MCBenchExecLive` those in one order and without a serial listed
  twice.

### BenchDemo

The window, EXTENDS `BenchReport`: `Click`, `CloseWindow`, `StartRun`,
`StartFails`, `Finished`, `TimedOut`, and `ScriptEnds` for the script's own
end. Texts are represented by the number of the run that printed them.
`TimedOut` includes what `~QProcess` does on return: kill the script and wait
for it. The script meant is the `bench_exec.sh` of this repository; the window
calls one in another directory of its author, which may be another version.
Because `BenchExec` implements `BenchReport` (theorem `ImplementsReport`), what
holds of the window on top of `BenchReport` holds of the window on top of the
script; `OneScriptAtATime` in turn is what `BenchExec` assumes when it has
sessions follow one another. A script killed by somebody else is left out.

### LeakMonitor

`mon.sh` with its three modes, one at a time, and its environment.

| Variable | Code |
|---|---|
| `mode`, `pc`, `said` | which mode runs, the command it is at, how the last run ended |
| `pid`, `start_pid`, `current_mem`, `started`, `limit` | `$pid` (global, shared by `mon_start` and `start_and_report_leak`), `$start_pid`, `$current_mem` (-1 for an empty one), `$MONITORING_STARTED`, `$END_RSS` and `$START_RSS` |
| `file`, `backup` | hudhmi and start.sh, and their `.org` |
| `workdir`, `snap` | `/rw_data/hudhmi.leakinfo` and the copies of `/proc/<pid>` in it |
| `hmi`, `last_pid`, `enabled` | the service's process: its pid, whether the library is loaded and collecting, signals it has yet to handle, its memory; whether systemd restarts it |
| `leaks` | who wrote `leaks.out` |

External, from how the script uses them: the service may die, be restarted
(the script prints both pids each round because it expects that), change its
memory, and handle signals late or never ("signal is may blocked by hudhmi",
line 105). The library handles pending signals in the order the kernel delivers
them, the lower number first. A process without the library may die of a
signal. Pids are not reused.

The three files `cp_proc_meminfo` copies are one entry of `snap`. `chown`,
`chmod`, `ls`, `mount` and `sync` are left out.

A `cp` of `env_setup` is two steps, since Ctrl-C reaches it as well: the file
it writes is `"partial"` from the first on (`Save`, `Put`), and stays so if the
script is stopped there. The `mv` of `restore` is one: within a directory it is
a rename. A library that was copied in part, and a copy that fails by itself,
are not modelled. The history `torn` notes a `restore` that begins with a part
of a file for a `.org`.

### EventParser

`kevent_parser.sh`, run by a user with `--mode all`, a single stage or `gcu`,
on traces recorded between the runs.

| Variable | Code |
|---|---|
| `on`, `clock`, `trace`, `recording` | the machine: what each CPU runs, and the files cpu0 ... the user records (external) |
| `csv`, `cpulist`, `tasklist` | `output/<cpu>.only_switch.csv`, `output/<cpu>.tasklist`, `output/tasklist`, the lists as sets because sorted and made unique before they are used, or used to write the same file again |
| `pertask`, `elapsed`, `hasElapsed`, `tot` | `output/pertask/<task>`, the files and the directory `output/pertask/elapsed`, `output/tot_cpuusage_pertask` |
| `mode`, `debug`, `stage`, `work`, `odd` | `$OP_MODE`, `$DEBUG == 1`, the function the script is in, the files its loop has left, the names reported odd |

One action per stage: `TransToCsv`, `FindTasks`, `UniqTasks`, `StartSplit` with
`SplitTask` for each task, `CheckNFix`, `StartUsage` with `UsageTask` for each
file, `Merge`. The loops over the four CPUs are one step. `Periods` does what
`xargs -n2` and `bc` do with a file's timestamps, a missing second one counting
as 0; `Heads` is what `ls -S | head` may print.

Abstracted: names, pids, priorities and the columns of the text; a task stands
for its name and pid together. The order of the columns in `tot` is left out,
and `merge_cpuusage` is taken to be given the directory of periods. Assumed of
the trace: `$FILELIST` names all the CPUs and each once, one clock is used for
all of them (events have different times; equal ones of two CPUs would not
change the sorted timestamps), and no event was lost. A task's file is
`<comm>.<pid>`, so that none has the name of the directory `elapsed`
(`NameAssumption`). `sort -n` is given by where it puts a line, behind those of
smaller times (`Line`, `Sorted`).

### KFigure

Pictures while documents are written. A document has one picture: an image of
the source tree or the text of a `kernel-render` directive.

| Variable | Code |
|---|---|
| `format`, `tools`, `images` | `translator.builder.format`; `dot_cmd` and `convert_cmd` where not None; `builder.images` |
| `clock`, `version`, `stime` | now; the source's contents and `st_ctime` |
| `content`, `ctime` | a file of the output directory: a converted picture (named by the base name of its source) or a saved text (by its hash), and its `st_ctime` |
| `pc`, `read`, `shown`, `failed` | where the visitor of each document is, what its tool has read, what it has put into the page, whether a visitor has raised |
| `opener`, `seen`, `tainted`, `raced` | histories: whose tool or writer opened a file last, the version of its source a document found, pictures a fault may have damaged, texts two writers met at |

`StartBuild` is `setupTools`; `VisitImage` is the visitors of images and
figures up to the choice of the output file (`convert_image`); `VisitRender`,
`OpenMarkup`, `SaveMarkup` are `visit_kernel_render` to the look at the file,
its `open` and its `write`; `CheckNewer` is `isNewer`; `RunTool`, `ToolReads`,
`ToolSucceeds`, `ToolFails` are `dot2format` or `svg2pdf`, whose exit code is
looked at. `Finish`, `Stop` and `Exit` end a build, `Edit` and `Tick` are the
author and the clock.

External: Sphinx writes documents in parallel when the builder and all
extensions allow it, which html does and latex does not; no document is begun
after a writer raised; images are copied when all is written. `dot -T... > f`
truncates `f` first, `convert` opens its output itself; when two tools write
one file, its content is one's, the other's or a mixture (`Unfinished`).

Abstracted: a hash is a name (texts with the same hash are the same text), the
text of a file is the picture and version it was made of. A document with
several pictures is several documents of this model, except that one process
would do them one after the other.

### FlatTable

The directive, from the list the author wrote to the table node. `phase` and
`x`, `y` are the loops; `rows`, `max_cols` are the builder's; a cell is
`<<cspan, rspan, content>>` or `None`. `ParseRow` is `parseRowItem` with its
cells, `SpanCell` and `NextRow` the first loops of `roundOffTableDefinition`,
`CountRow` and `RoundOffRow` the other two, `BuildRow` is `buildTableRowNode`
as `buildTableNode` calls it. `NotAList`, `NoContent` and `WrongWidths` are
`raiseError`.

Rows and columns count from 1 here and from 0 in the code. Left out: stub
columns, widths and titles, which do not change the rows, and the text of
cells. A span of rows below the last one raises an IndexError that the code
swallows, and changes nothing.

`Entries` are the cells of a row without the Nones, given by their rank among
them rather than by a recursive filter, so that they can be reasoned about;
`PointerLines` in `TcmBuilder` is of the same kind.

### FlatLayout

What a reader of the table would see, and the properties about it. Entries are
put as docutils' writers and browsers put them, row by row, each at the first
column behind the entry before that no entry of a row above covers
(`IsLayout`), over the rows and columns it spans (`Covers`). `Columns` is a
constant operator, the columns a table's entries are put at; `TilesGrid` and
`AutoSpanFits` say of a table, as the author wrote it (`Written`) and as it is
written out (`Built`), what holds where `Columns` lays both out (`LaidOut`).
The definition of a layout is by what it is, not by how it is computed, so that
one can reason about it without induction over the entries. `MCFlatTable`
computes it, by folds over the rows and their entries (`MCColumns`), and
assumes that what it computes is a layout: TLC evaluates that for every list of
up to three rows of the model's entries, and so `LaidOut` holds in the runs.

### TcmBuilder

Runs of `tcm_mod_builder.py` on one kernel tree, with the user's `rm -r`.

| Variable | Code |
|---|---|
| `header` | lines of `target_core_fabric.h`: does one open the ops struct, hold a pointer, match functions' names |
| `name`, `proto` | `-m` and `-p` |
| `pc`, `i`, `process_fo`, `fabric_ops` | where a run is; the scan's line and variables |
| `owner`, `file` | `drivers/target/<name>`: who made it, and of each of its six files who opened it last and whether it is empty, partial or whole |
| `kbuild`, `kconfig` | runs that have appended to `drivers/target/Makefile` and `Kconfig` |
| `removed`, `pulled` | histories: modules the user removed, and those removed under a run |

One action per function, split at the calls another run or a fault may come
between: `Main`, `CreateSubdir`, `BuildBaseIncludes`, `OpenHeader`,
`ScanLine`, `HeaderRead`, `DumpFabricOps`, `BuildConfigfs`, `BuildKbuild`,
`BuildKconfig`, `AddKbuild`, `AddKconfig`; `Stop` is Ctrl-C. `open` fails
without the directory, `write` may write a part and raise.

Of the generated C is kept what must agree between files: the fields of the
port that `base.h` declares and `configfs.c` and `fabric.c` use, by protocol
(`Declares`, `ConfigfsUses`, `FabricUses`), and how often `fabric.c` defines
each function of the table (`Generates`). `open` returns or raises: the
`if ret` tests behind `open`, `write` and `close` never hold.

### DocRead

How documents are read, build after build.

| Variable | Code |
|---|---|
| `text`, `there`, `version`, `dir`, `extra` | the author's: documents, C files and included files, the variable in `kernel-include`'s path, `SPHINX_CONF` |
| `env`, `saved` | Sphinx's environment in memory and on disk: texts as read, `note_dependency`'s files, documents found changed, the inventory of `cdomain` and the figure labels, configuration values |
| `pc`, `reading`, `part` | where the reading of a document is, its text, and what its directives have returned |
| `page` | the doctrees on disk, with what each was made of |
| `doubled`, `flaws` of a page | histories: names described twice; what may have gone wrong with a page |

`NoteDependencies` and `RunKernelDoc` are `KernelDocDirective.run` before and
from the call of the script; `IncludeFile` is `KernelInclude.run`;
`AddTargets` is `add_target_and_index`; `AddFigureLabels` is
`add_kernel_figure_to_std_domain`; `LoadConfig` is `loadConfig`; `ReadDoc`,
`Finish`, `Stop` are Sphinx's. Documents are read in any interleaving, as
`parallel_read_safe` allows.

External, and assumed of Sphinx: a document is read again when its text or one
of its dependencies has changed since, or a dependency is gone, or a
configuration value registered with rebuild `env` has another value; the
environment is written when a build ends, doctrees as they are read. A change
is noticed (file times, which Sphinx compares, are taken to be exact).

Abstracted: the output of the script is the versions of the files it was given;
of `/etc` only that a path leads there.

## Runs

| Run | Instance | Shows |
|---|---|---|
| `bench_safety` | 2 boards, 2 lines, 2 sessions, symmetric boards; 2.6 million states | `TypeOK`, `NothingMissing`, `OwnResults`, `BarrierHolds`, `SettledResults`, `Reports` |
| `bench_ctrl_c` | 2 boards, either, both or none listed, 2 sessions, fairness; 490 thousand states | `Completes` |
| `demo` | 1 board, 5 runs, fairness | `DemoTypeOK`, `OneScriptAtATime`, `BoxesOfOneClick`, `ClickReturns` |
| `leak` | 3 pids, 2 sizes, threshold 0, fairness; a million states | `LeakTypeOK`, `OneSetupIsUndone`, `TestMeansReport`, `LeakWasCollected`, `EndReportIsNew`, `LeakNoticed` |
| `leak_restore` | same | violates `RestoreRestores` |
| `events` | 3 tasks, 2 CPUs, 4 events in 2 traces, 2 runs of the script, 3 files counted and 2 checked, fairness; 770 thousand states | `EventTypeOK`, `PeriodsAreRuns`, `FreshColumns`, `TasksCounted`, `OddIsReported`, `AllEnds` |
| `figures` | 2 documents, `net.dot` and a `net.svg` of another directory, 2 texts, 2 builds, 2 ticks, 2 versions; 4.3 million states | `FigureTypeOK`, `PicturesAreCurrent`, `MarkupKept` |
| `figures_parallel` | same | violates `ParallelWriteSafe` |
| `flat_table` | lists of up to 3 rows of up to 2 cells, spans of 0 or 1 either way and one of 1 by 2, and malformed items; header-rows 1; fairness | `FlatTypeOK`, `CellsKept`, `RowsAreFull`, `TilesGrid`, `TableEnds` |
| `flat_autospan` | same | violates `AutoSpanFits` |
| `tcm` | 2 runs of one or two names, 4 protocols, 5 headers | `TcmTypeOK`, `FilesOfOneRun`, `EntriesLead`, `EntriesOnce`, `OpsFound`, `ModuleKept` |
| `docs` | 2 documents, 2 C files, 2 directories, 2 names, 2 builds, 2 changes; 4.7 million states | `DocTypeOK`, `StaleIsOutdated`, `InventoryIsTrue` |

Why the bounds are enough for what can happen:

- Two lines already give two boards in parallel, or one serial listed twice
  (two jobs on one file; in `bench_safety` only, as `Completes` excepts it, and
  nothing depends on the order of two boards in a listing). In `bench_ctrl_c`
  a stopped session may leave a job of a board the next one does not list, whose
  file makes more files than ids. Two sessions give a session disturbed by
  the one before. The third session matters for what `BenchReport` may promise:
  a session that was not cut short itself but ended early on an orphan's file
  leaves its own job behind, so the contamination passes on; "only answers of
  cut-short sessions turn up" holds of two sessions and not of three. The
  theorem `ImplementsReport` covers any number.
- Five runs are one complete click and the first run of another, or a click
  that fails at its first call and a complete one; four are enough for a click
  that fails at its last call. More runs only add answers of earlier ones.
- Three pids: the process before setup, the one setup starts, and the one that
  replaces it while it is monitored, or that restore starts. One step of memory
  passes threshold 0, which is both `START_RSS` and `END_RSS`: one round finds
  the memory beyond both, and the next reports. Thresholds that differ, in
  either order, are not in this run, which they make too long; the theorems
  about the invariants are for any.
- Four events let a task run twice on two CPUs, or once and again to the end of
  the trace, or be in one trace and not in the next. Two runs are anything
  (stopped, partial, complete) followed by the complete one the properties are
  about. Three tasks are listed as four names with the directory `elapsed`, one
  more than `Total`, and one more than `CheckNr`.
- Two documents may have the same picture, the same text, or two pictures of
  one base name. A first build damages a file or leaves it older, or newer,
  than an edit; a second one takes it or makes it again. Two ticks tell equal,
  older and newer apart. With three documents one can write a text between two
  others: `Alone` excludes them all, and the theorems are for any number.
- Three rows and two cells with spans up to one give a span into a row that has
  not had its own Nones, one from a row that a span has made longer, and one
  that ends where a row does. Spans of 1 by 2 reach over two rows.
- Two runs are enough to pass `isdir` together; the headers begin with the
  struct, lack a function, have one twice, have a pointer of another struct, or
  are empty.
- Two documents share a file and a name. Two changes: one before a page is made
  or while it is, one after. Two builds: one that is stopped or fails and one
  that repairs. `docs` has two texts, one with C files and one with an include.

`CHECK_DEADLOCK FALSE` where sessions, runs, builds and edits are bounded, and
where a directive returns (and a script that
waits for a board for ever is behaviour of the code, which `Completes`
excuses by name); `LeakMonitor` checks for deadlock.

### Fairness

- `BenchExec`: weak fairness of the main shell, of each loop and of each job,
  as the system schedules processes and `adb` returns in the end, with a result
  or without. None for beginning a session or cutting one short. `Completes`
  excuses what really keeps the script waiting: a job that failed, a serial
  listed twice, an earlier session that was killed.
- `BenchDemo`: weak fairness of the GUI thread only; the script may hang.
- `LeakMonitor`: weak fairness of the script only; the service may do nothing.
- `FlatTable`: weak fairness of the directive, which is one function that runs
  until it returns.
- `KFigure`, `TcmBuilder` and `DocRead` state no liveness: a build or a run may
  stop anywhere, and nothing in this code waits for anything.
- `EventParser`: weak fairness of the script only; nobody need record, start,
  stop, or type what `paste` reads. `AllEnds` needs an event in the trace.

## Disagreements found

With a run that shows it:

- `mon.sh setup` twice loses the originals (`leak_restore`). It is easily done:
  a setup that says "setup failed" has replaced both files already.
- `kfigure.py` declares `parallel_write_safe = True`, but two documents with
  the same `kernel-render` text meet at one file (`figures_parallel`): the
  second finds what the first has opened and not yet written, and converts it.
- `rstFlatTable.py` promises to span missing cells by the rightmost cell of the
  row; a rightmost cell that spans rows is stretched in all of them, and pushes
  the cells of the rows below over the edge (`flat_autospan`).

Found while modelling, without a run:

- The window announces "start bench test" and then "print test result", but the
  `read <id>` calls benchmark again: what the boxes show was not measured by
  the announced run. Each click costs four benchmarks.
- "report success" may be said on account of an old `leaks.out`: in setup
  because nothing removes it first, in monitoring because an earlier run's
  report may come late.
- `kevent_parser.sh` looks only for odd numbers of lines; a file that begins
  with its task losing the CPU and is even passes, and its column holds the
  times the task did not run.
- `KernelRender.run` puts what `build_node` returns into a list; for an unknown
  language and for an empty text that is a list already
  (`kfigure.py:477`-`494`).
- `convert_image` removes `img_node['uri']` from the images to copy after it has
  set it to the new file's (`kfigure.py:263`): the source is copied all the
  same, and in `KFigure` an `.svg` copied to the directory of converted files
  may meet one of them.
- `tcm_mod_builder.txt` describes `Kbuild` files and `target_core_fabric_ops.h`
  (lines 41 and 49) where the script has `Makefile` and `target_core_fabric.h`.
- The entries `tcm_mod_builder.py` appends are of the name in lower case; a
  directory of a name in mixed case is not found by them.
- Ctrl-C in the midst of `cp <file> <file>.org` (`mon.sh:42`, `47`) leaves a
  part of a file for the `.org`, while the original is still in place; the
  `restore` one would run then (`mon.sh:89`-`90`) moves the part over it, and the
  original is lost. Nothing in the repository says otherwise, so no run is to
  show it: `OneSetupIsUndone` excepts it by name (`torn`). Taking that exception
  away gives the trace.

Weaker than one might expect, and stated so in the properties: everything about
"own results" holds only until a session is cut short, and `PicturesAreCurrent`,
`StaleIsOutdated`, `InventoryIsTrue` and `EntriesLead` name the faults after
which nothing is promised. So do `OneSetupIsUndone` (setup upon setup, a torn
`.org`), `TestMeansReport`, `LeakWasCollected` and `EndReportIsNew` (a report or a
signal left over), `PeriodsAreRuns` (a task that ran when the trace began) and
`EntriesOnce` (a removed module). These faults are in the models and in the list
of hazards; where a property promises nothing of one, the hazard has a note and
no property.

## Proofs

`BenchExec_proofs` proves, for every set of boards, every length of listing and
every number of sessions, that `IInv` is inductive, and from it `TypeOK`,
`NothingMissing`, `OwnResults`, `BarrierHolds`, `SettledResults` and that `Spec`
implements `BenchReport!Spec`. Assumptions: `Board` is finite (files are
counted), the bounds are naturals, `Reported` are listings.

The argument. `SessionFlow`, `LoopFlow`, `JobFlow`, `DirFlow` say where the
processes are: sessions do not overlap, only a killed session's loop outlives
it, a loop has forked exactly the jobs up to its line. `IdsNoted` and
`IdsPrinted` carry a listed board from the listing to `id_list`, to what is left
of it and to the output; `rm -rf` cannot come between, so `NothingMissing`
needs no assumption about earlier sessions. `OwnResults` does, and needs an
induction over sessions inside the invariant: `Quiet` (an undisturbed session
that is over has no job alive) gives `OwnFiles` and `OwnIds` for the next one;
there each file is named after a job of this session that has opened it, so
choosing such a job for each file is an injection into the lines, and
`log_cnt >= id_cnt` makes it a bijection (`CountIsBarrier`, with the theorems on
finite cardinalities): nobody will truncate any more and no two boards share a
file. `AllAnswered` then survives to the end of the polling, each job has
answered (`AllMeasured`), and the session is quiet when it ends.

`WaitsEnd` is the safety half of `Completes`: when the loop and all jobs are
through and none has failed, then the count of the first wait suffices and the
file the second one polls is not empty (`WaitsAreOver`), unless a session was
killed or a serial listed twice. It rests on `WaitInv`: a file that was opened is
there (`OpenedIsPresent`), an empty one is of a job at work or failed
(`EmptyIsOpen`), whatever jobs of sessions stopped by Ctrl-C add beside. It makes
`log_cnt -lt id_cnt` the right test: files may outnumber ids.

`BenchDemo_proofs` proves the window's invariant (`DemoInv`), and from it
`DemoTypeOK`, `OneScriptAtATime` and `BoxesOfOneClick`: runs to come have no end
yet, the run waited for was not cut short, the third call's text is of the run
before the fourth.

`LeakMonitor_proofs` proves `OneSetupIsUndone` from `UndoInv`, which says for
each command of setup and restore, and for the midst of each copy, which of the
two files is the original and when a part of one may be about; and
`LeakTypeOK`, `TestMeansReport`, `LeakWasCollected` and `EndReportIsNew` from
`ReportInv`, for any bounds, sizes and thresholds. The latter follows the two
signals of `start_and_report_leak`: between the `kill`s and the test, a report
can only be of the process `$pid` names, because pids are not reused and the
script knows of none to come (`KnownPids`); that process handles the lower
signal first and so is collecting before it reports (`ReportsInOrder`); what the
test has found holds on until the last report is asked for, though the service
may die and be restarted at any moment (`MonitoredInOrder`). A signal or a file
left over from an earlier run breaks each of these, which is why the properties
except it (`leftover`).

`EventParser_proofs` proves the five invariants of the run, for any tasks, CPUs,
traces and bounds, from three inductive ones.

- `FreshInv` says for each stage of a run of all what is of this trace already:
  the csv files after the first, the tasks' files after the split, and the
  periods, which start from the empty directory the split leaves and are
  appended once per task because no task stays in `work`. It gives
  `FreshColumns`.
- `TraceInv` says what the kernel can have recorded. A CPU takes its task from
  the event before (`Recorded`); a task has one CPU at a time, so no event of
  another CPU falls between two that bracket a run of it (`OneCpu`); hence its
  events, of all CPUs and in order of their times, give it a CPU on the odd
  lines and take it away on the even ones (`InTurn`). That each line has a rank
  and each rank a line is an injection between finite sets of one size. The
  periods, which pair lines by position, are then in one-to-one correspondence
  with the runs of each length: `PeriodsAreRuns`. `EventTypeOK` is a part.
- `NamesInv` says which tasks each stage works on; `Counted` is what `ls -S |
  head` leaves of them. It gives `TasksCounted`, and `OddIsReported` with
  `TraceInv`: an odd file is one whose last number is negative.

`TcmBuilder_proofs` proves `TcmTypeOK`, `FilesOfOneRun`, `ModuleKept`,
`EntriesOnce` and `EntriesLead` from `TcmInv`, for any runs, names, protocols
and headers. Its parts: a name without a directory has no files (`NoDir`); a
directory's name is its run's (`Named`), and a run that has not come to `mkdir`
owns none (`Made`); the module of a run at work, or that has added an entry, is
its own or was removed (`Owned`), under it if it is still at work (`Pulled`);
each file of a module left alone is there, empty or whole as the place of its
run says (`Staged`); and an entry is of a run that came to the questions
(`Asked`). `EntriesLead` needs
`LeadInv` as well: what a run has taken from the header so far is counted by
line (`Found`), so that at the end each function is defined as often as the
header has a pointer for it. `OpsFound` says that they are taken in order as
well, and needs `OpsInv`: what a run has taken is what the lines it has passed
hold, each at its rank. No assumption beyond `TcmAssumption`.

`DocRead_proofs` proves `DocTypeOK`, `StaleIsOutdated` and `InventoryIsTrue`,
for any documents, texts and files. The page of a document may go two ways,
into the environment on disk when the build finishes or on disk alone when it
is stopped, so the invariant says the same of both environments: the document
is marked, its page has a flaw, or the page is right and all it was made of is
noted (`SavedKnows`, `EnvKnows`); a document is read for a reason that lasts
(`ReadForReason`), or a stopped build would repair nothing. For names:
only one that two documents describe may be lost while its owner is read again
(`LostIsDoubled`), which needs `Doc` to be finite (documents are counted).

`FlatTable_proofs` proves `CellsKept` and `RowsAreFull`, for lists and spans of
any size, from `FlatInv`: the row of an item holds its cells in order. Each
change of a row keeps its cells and their order and adds none of an author's
(`KeptMoved`): inserting Nones, stretching the last cell and appending empty
ones are shown to be such changes. `FlatTypeOK` adds that no None is written
out (`EntriesOfRow`). `StepsAreCounted` is the safety half of `TableEnds`, for
any table: rows grow under the loops, but each step lowers, in lexicographic
order, the phases, the rows of the phase, the cells from `x` on, and the places
of the row. Only a cell makes its row grow, and by Nones behind it that are
passed over. (That a step is possible until the directive returns is about
ENABLED, and model-checked as `TableEnds`.)

`TilesGrid` is proved there too, for tables of any size and spans, by counting
instead of following each None to its place. A *site* of row `r` is an entry
that reaches `r` and one of the columns it spans (`Sites`). Three steps:

- *The loops count sites* (`GridIsCounted`). While the Nones of spans are put
  in, the length of a row is the number of its sites of cells the loop has
  passed, and one for each cell still to come (`SoFar`); where among them an
  insertion lands does not matter. So at the end each row is as long as it has
  sites, `max_cols` is the most sites of a row (`Widest`), and what a row is
  written out as is the row as written with the difference added at its end, by
  one of the three ways of `roundOffTableDefinition` (`Grown`).
- *Sites are columns where spans do not meet.* In a layout a row's sites map
  onto the columns covered in it, one to one if no place is covered twice
  (`ColumnsOfSites`). What is left of an entry is covered (`CoveredBefore`), so
  no entry ends beyond as many columns as its row has (`InsideEdge`), and a
  table whose rows all have `w` sites fills its grid (`FullRowsTile`).
- *Adding at the ends moves nothing.* A table that is wider at the ends of rows
  no span touches, or by entries without spans, has every old entry in its old
  column and its places still apart (`Wider`, `SameColumns`, `ApartWider`), by
  least counterexample: the first entry, row by row and from left to right,
  that would be put elsewhere. This is where rows that lack cells must have
  nothing to do with row spans, and `flat_autospan` is what happens otherwise.

`GrownTiles` puts the last two together for any two tables so related, and
`TilesGridAlways` the first with it. Assumed, besides `FlatTableAssumption`, is
nothing: `Columns` is any operator, and the property speaks of tables it lays
out.

`KFigure_proofs` proves `FigureTypeOK`, `PicturesAreCurrent` and `MarkupKept`,
for any documents, pictures and builds, from `FigureInv`. A file is good, or a
tool is at work that will make it good: the one that opened it last (`Good`,
`InWork`). For a picture no fault is recorded of, a tool has read what its
source is now, no other picture's tool writes to the file, and what `isNewer`
holds for newer, and what a document shows, is good (`Current`). That a tool
reads a text and not a part of one rests on the texts (`MarkupInv`): a text is
all there or its last writer has still to write it, and two writers at once are
recorded as a race. `Times` (no file is of a time to come) is what makes a
strictly newer file one of the present source.

Every invariant and action property of the passing runs is proved. Model-checked
only are the liveness properties (`Completes`, `ClickReturns`, `LeakNoticed`,
`AllEnds`, `TableEnds`), which need fairness and ENABLED (`WaitsEnd` and
`StepsAreCounted` prove what two of them rest on), and that the layout
`MCColumns` computes is one: what a fold computes for every table is an
induction over data, which the prover does not do.

## Not modelled

- The `run` methods of the three directives of `kfigure.py` (lines 344-364,
  380-401, 456-520) and the registrations of its `setup`: they build nodes from
  their options and change nothing that outlives them.
- `conf.py`, `conf_nitpick.py` and the `conf.py` of each book: lists of values
  assigned once. What a changed value causes is in `DocRead`.
- `cxacru-cf.py`, `decode_msr.py`, the Perl postprocessors: filters from
  standard input to standard output that keep a counter or a table.
- Of the event parser the mode `get_ypt`, `fix_data` (never called) and
  `sched_event_parser.sh`, a straight-line conversion into a fresh directory;
  that the four names of `FILELIST` (`kevent_parser.sh:6`) may be too few; that
  single modes append to what they left (`kevent_parser.sh:25`), of which only
  a run of all is promised anything; that the header is ordered by `ls -S` and
  the columns by `du` (`kevent_parser.sh:170`).
- Copies that fail by themselves in `mon.sh` (line 43 and others), unlike those
  cut short by Ctrl-C: no command's status is looked at, so a full disk can lose
  anything.
- A write of `tcm_mod_add_kbuild` or `tcm_mod_add_kconfig`
  (`tcm_mod_builder.py:593`-`604`) that leaves a part of its line in `Makefile` or
  `Kconfig`, to which the next line appended would be joined. (Parts of the six
  generated files are modelled.)
- What `scripts/kernel-doc` prints of a name: in `DocRead` a document describes
  the names its text says, also those its `kernel-doc` directives describe, so
  a name that comes or goes with the C file alone is not in the model.
- `list.at(1)` of a call that prints fewer than two lines (`demo.cpp:37`),
  which is an assertion of Qt's.
- The C samples: `pthread_join.c:20` hands `&i` to threads, and what they print
  is any value of the loop; `issue_lockowner_thread_terminated.c:12` shows a
  deadlock on purpose; `segv.c:43` may write one byte past its buffer. They are
  demonstrations of libraries that are not in this repository, or one page of
  straight code.
- The notes and the documentation under translation.

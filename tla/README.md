# A verification project for cicro-benchmarks

The repository runs C programs under many compilers and tools and records how
long they take. Its own code is small: the driver `tools/bench.py`, the data
model and its file format in `tools/util/`, a merge tool, the runtime
configurations in `configs/`, and the harness library `C-Hayai`. The 64 programs
under `benchmarks/` are vendored workload. This directory holds TLA+ models of
that own code, TLC configurations that check them, and TLAPS proofs.

## The system

| Component | State | Operations | Interacts with |
|---|---|---|---|
| Result writer (`bench.py:637-693`) | BENCHFILE, BENCHFILE.deleteme, `.bench_*.json`, an open file | import at start, `write_results` at two call sites | session, file system |
| Benchmark runner (`bench.py:260-460, 695-729`) | loop positions, binaries in the test directory, session, `no_error`, exit status | clean, compile, execute, write | make, executors, writer |
| Harness executors (`bench.py:207-223, 492-513`) | child process, two pipes, a temporary directory | extract, spawn, communicate, time out | harness process |
| Result store (`datamodel*.py`, `merge_results.py`) | executions and runs in a database, JSON documents | load, save, merge | files of several starts and machines |
| Runtime configurations (`configs/*.py`) | none; PGO: binaries, profiles, the library | register, PGO build-train-rebuild | runner, make |
| C-Hayai benchmarker (`chayai_benchmarker.c`, the macros of `chayai_benchmark_pp.h`) | list of descriptors, results, blocks of `malloc` | register, set warm-up, warm up, run, report | harness files, clock, outputter, PAPI |
| C-Hayai arguments and utilities (`chayai_main.c`, `chayai_util.c`, `chayai_papi.c`) | options, event set, temporary directory | parse a word, make and remove the directory | argp, `exit`, PAPI |
| C-Hayai outputters (`chayai_json_outputter.c`, `chayai_console_outputter.c`) | two counters, stdio's buffer | begin, begin and end of a benchmark, end | `bench.py` or a terminal |
| C-Hayai clock (`chayai_clock.c`) | the id of the clock | now, duration, resolution | the system's clocks |
| Reports (`stats.py`, `detect_normal_iterations.py`, R scripts) | none | read a database | result files |

What makes them hard:

* **Crash and interrupt windows.** `write_results` is five directory operations
  and a buffered write; Ctrl-C, a failing call or a kill can come between any two
  of them, and what is left is found by the next process.
* **Swallowed exceptions.** Every execution and every write stands in a
  `try` that logs and goes on; whether the exit status, the file and the database
  still agree is a matter of each path.
* **State shared by accident.** All runtimes build in one directory and use one
  session; `--only-missing` asks the database that the process itself fills.
* **Two processes and two pipes.** Timeout, end of output, crash and hang race.
* **Position as identity.** In the file nothing but the index in two lists says
  which run belongs to which execution.
* **Linking by hand.** Descriptors are static and linked into a list through their
  own fields; the loops over it end only if the list does.
* **Nesting by hand.** Fixture, counters and clock are started and stopped by four
  macros; blocks are allocated and freed by index, and most results unchecked.
* **A document written piecewise.** The code that is measured may crash or call
  `exit` in the middle of the JSON text, and stdio writes when it likes.
* **Numbers.** Cut integers, timespec borrows, a loop that restarts itself, clocks
  that are set, means of nothing.

What correctness means for each component: the writer never loses what was
stored; the runner's exit status, file and options tell the truth about what was
measured; executors end and leave nothing behind; the store keeps measurements
and their attribution through any number of round trips and merges; C-Hayai
measures the bodies and nothing else, reports every run of every registered
benchmark once and in order, lets no reader take a part for the whole, and keeps
nothing from one benchmark to the next.

`PROJECT.json` lists every component, the hazards by source line with the
properties that cover them, and for each definition the lines it models.

## Modules

| Module | Models | State and actions |
|---|---|---|
| `ResultLog` | the promise of the result file, no code | `session`, `kept`; `Measure`, `Save`, `Resume` |
| `ResultWriter` | `write_results`, its callers, start of a process, faults | directory = three kinds of names for inodes, contents by inode, `pc` per system call |
| `MCResultWriter` | | symmetric results and inodes |
| `ResultWriterProofs` | | theorems about `ResultWriter` |
| `BenchRunner`, `MCBenchRunner` | `execute_runtimes`, `execute_single_runtime`, end of the main program | one action per step of the loop nest, `make` by the binaries it leaves, a harness by its answer, `write_results` by its outcome |
| `HarnessExecutor` | `default_executor`, `wllvm_executor` | parent and child interleaved, pipes of bounded size |
| `ResultStore`, `MCResultStore` | `save_file_as_json`, `load_file_in_db`, `merge_results.py` | files by name, the database of one `bench.py`, the documents and database of one merge |
| `BenchmarkReport` | the promise of a harness to its reader, no code | `plan`, `reported`, `state`; `Report`, `Complete`, `Fail` |
| `Chayai`, `MCChayai` | one harness process: `main`, `RUN_BENCHMARKS`, the benchmarker, the macros, PAPI, `exit` | list through `next`, options, loop positions, blocks, fixture, output tokens, directory; one action per call that can fail or be observed |
| `ChayaiArguments` | `chayai_parse_opt` with `strtol` and the cut to `unsigned int` | operators used by `Chayai` |
| `ChayaiOutputters` | both outputters | operators: tokens each function writes, and what makes them a document |
| `ChayaiTime` | time points and durations of the four builds of the clock | operators used by `Chayai` and `ChayaiClock` |
| `ChayaiClock` | `chayai_clock_resolution_measured`, choice of the clock | the loop beside a clock that advances, stands still and is set |
| `BenchRunnerProofs`, `HarnessExecutorProofs`, `ResultStoreProofs` | | theorems about those modules |
| `ChayaiTimeProofs`, `ChayaiClockProofs`, `ChayaiProofs` | | theorems about the time operators, the loop of the clock, and a harness process with its output |
| `NumberInduction` | | induction and recursion on the numbers, for the proofs |

`ResultWriter` refines `ResultLog` (`session` is the database, `kept` is what
complete documents hold, the buffered one of the open file included).
`BenchRunner` uses the writer by its outcome only: written whole, or raised or
interrupted with the file as it was, gone, cut short or already replaced
(`WriteReturns`, `WriteFails`); `ResultWriter` shows how each comes about.
`HarnessExecutor` is the inside of `BenchRunner`'s step from `StartExecution` to
`ExecutionReturns` or `ExecutionRaises`. `ResultStore` is what "a document" means
in `ResultWriter`. `Chayai` refines `BenchmarkReport`: `reported` is what the text
that has left the process says, `state` how the process ended; a plan
that names a benchmark twice is outside the promise. `Chayai` is, seen from
`HarnessExecutor`, the child: its output, its end or its hang. It takes its
durations from `ChayaiTime`, with the clock of the default build.

Operators whose names say what they break (`LinkNothing`, `WriteCurrentRun`, ...)
stand before the definition they would replace; each is marked "Mutant" and is
used by no specification. Replacing the definition by it makes the property it is
listed with in `PROJECT.json` fail.

### Decisions worth knowing

* Python's file object keeps the last part of the document in its buffer; the
  code calls `os.fsync` without `flush`, so the tail reaches the disk when the
  `with` block ends. Hence `Effective` (with the buffer) and `data` (on disk).
* `os.link` fails when the target exists; nobody else creates it in between, so
  the guard of `LinkNew` always holds (it is a conjunct of `WriterInv`).
* An interrupted `Measure` may leave rows in the session; which ones is a choice.
* In `BenchRunner` a refused flush or a failing commit (`CommitFails`) leaves the
  session unusable for good, because the code never rolls back; every later query
  raises where it stands. The configuration is looked up outside of the `try`, so
  what that raises ends the process with a status (`LookupRaises`).
* `write_failed` and `seen` in `BenchRunner` are history: whether the last write
  returned, and what was ever in the file. Between a failed write and the next that
  returns the file may hold less than before; `LossIsRepaired` says for how long.
* `make clean` that fails has removed any part of the binaries. `make` with `-i`
  builds any part; without it all targets must exist for it to succeed.
* `Popen.__exit__` closes the pipes and waits for the child without limit; that
  is what `WaitForChild` does after a timeout. After Ctrl-C it waits for a quarter of
  a second and no longer (`Interrupt`, `GiveUp`), so that a child that survives the
  signal is left behind. That is CPython's `subprocess`, and external to this code.
* In `ResultStore` runs and metadata are identified by the number of the
  execution that produced them, so that a swap is visible. Nobody starts
  `bench.py` on a file that is being merged into, and the reverse.
* In `Chayai` output is a sequence of tokens (a bracket, a comma, a name, a run, a
  number that may be nan), not of characters. stdio may write at any moment
  (`FlushStdout`), the code does where it calls `fflush`, and `exit` does at the
  latest. The measured code may crash or call `exit` in any of its bodies.
* `-i -1` becomes the largest `unsigned int`, because the number is cut before it is
  compared with a bound it can no longer exceed; properties that speak of what was
  asked for say "as long as it fits" (`AskedFits`).
* A harness that registers A, B, A hangs in `chayai_set_warmup_iterations`
  before its first run. One that registers A, B, A, C loses B without a word, and
  its JSON ends with a comma too many, because the comma is decided by the number of
  registrations. With 0 runs the mean is nan, and the text no JSON; so it is when a
  macro's parameter holds a quotation mark or a backslash, as in `'\0'`. `DocumentWhenReturned` states that these
  are the only ways to a broken document. No harness of the repository takes them.
* `chayai_papi.c` ignores what `PAPI_reset`, `PAPI_start` and `PAPI_stop` return. A
  failing stop leaves the event set running into the next run and the next
  benchmark, where the start fails; if the reset fails as well, a later stop reads
  what was counted since the first start. The history fields `stuck` (of `papi`)
  and `stale` (of a run) mark the two cases. `NothingKept` and `MeasuresBodies`
  except them by these fields, and nothing else.
* A failing `clock_gettime` leaves the time point uninitialised: the reading is then
  any value (`Uninitialised`), and `DurationIsElapsed` promises nothing.
* The Windows part of the clock is left out (it is not valid C as it stands), so
  is the table of theoretical resolutions, which nothing computes with.

## Runs

| Run | Question | Bounds | Result |
|---|---|---|---|
| `interrupts` | Do recoverable faults lose, strand or tear anything? Does the writer implement the log, and does what is measured arrive? | 2 results, 4 inodes, 2 starts, unlimited OSErrors, failing saves and Ctrl-C | `TypeOK`, `NothingLost`, `WriterInv`, `NoDebris`, `MeasuredIsStored`, `ImplementsLog` hold |
| `all` | Where can a stored result leave the disk? What does a stale `.deleteme` do? | same, every fault | `LossOnlyInWindows` (two steps only) and `StaleFreezesFile` hold |
| `runtimes` | Do status and file tell the truth, whatever writes and commits fail? Do runtimes disturb each other? Does it end? | 2 runtimes, 2 runs, 1 harness, 7 command lines, 5 answers, Ctrl-C, about 1 063 000 states | seven properties hold |
| `executors` | Do the executors end, whole and clean? | either executor, a timeout above or within reach, starts that fail, Ctrl-C, pipes of 2, output up to 4 each | four properties hold |
| `store` | Are measurements kept, and with their metadata, through load, save and merge? | 2 benchmarks, 3 executions, 3 files, 2 INFILEs | five properties hold |
| `chayai` | What may a reader of the output believe? Is the body measured, and nothing else? What is left behind? Does it end? | 31 plans with command lines, up to 4 benchmarks of 6 descriptors, failing calls of PAPI, 120 453 states | eleven properties hold, the refinement of `BenchmarkReport` among them |
| `clock` | Does the resolution loop end, with the least difference? Are durations the time that passed? | 4 builds, every set of readable clocks, 3 rounds, 2 settings of the wall clock, about 226 000 states | four properties hold |

Two starts are enough for everything an earlier process can leave to meet a later
one; four inodes are more than the names in use at any time (old file, its second
name, new file, one stranded temporary); two results tell an old document from a
new one. Two runs reach the intermediate and the final write, and
a failure followed by a success and the reverse; two runtimes reach reuse of
binaries and of an unusable session. With one harness `make` leaves its binary or
not; several harnesses with different fates in one run are left to the theorems,
which hold for any number of them. A pipe of 2 with outputs of 4 fills up.
Three executions give a list with a gap before, between and after; three files
allow a merge of a merge.

In `chayai` a second has 4 nanoseconds and a body takes 0, 1 or 5, so that runs cross
a second, take the same time and take none. `unsigned int` has 4 values and `long`
8 on each side: -1, the largest value and one beyond each are among the words.
The descriptors are one of each macro, one with 0 runs, one with 0 iterations and
one whose parameter has to be escaped; the plans reach the empty list, every position of a
second registration, and a crash before, between and after benchmarks that are
already out. The command lines reach each option with and without argument, unknown
ones, both outputters, events that PAPI takes and refuses, a PAPI whose later
calls fail, and warm-up of 0
and more. In `clock` a second has 4 nanoseconds and a microsecond 2; `Rounds` stands
for 1000, and 3 give a restart in the middle and an end without one; `MaxTime` of 5
allows five improvements; `MaxNs` and the settings of 3 back or forward let the
difference cross two seconds in either direction. Between two rounds the clock is
taken back by whole seconds (`Rebase`), which the durations do not see.

Five runs check a statement of the repository's own text that the code does not
keep; TLC finds the counterexample:

| Run | Text | What happens |
|---|---|---|
| `killed` | `bench.py:661` "atomic write" | a kill after `.deleteme` is gone and before the buffer is written loses stored results |
| `assert` | the assertion of `bench.py:675` | fails for good after an interrupt between link and unlink |
| `missing` | `--only-missing` (`bench.py:584`) with `--runs` (`bench.py:573`) | a benchmark that is missing in the file is executed in the first run and skipped in the others: the session holds the row of this process, even if that execution failed |
| `hang` | `--timeout` (`bench.py:569`) | a hung harness is waited for without limit |
| `attributed` | `datamodel_helper.py:295` | runs move to the metadata of another execution |

More observations follow from the models and have no run of their own.
`--ignore-invalid-measurements` (help at `bench.py:597`: "runs which exited with an
error code") looks at stderr only (395). Without `--ignore-errors` (595), a final
write that fails (457) still exits with 0. BENCHFILE has
no name at all between the unlink of the old file and the link of the new one
(`UnlinkOld`, `LinkNew`), so a reader may meet no file.

`missing` has one runtime, one harness, two runs and no Ctrl-C: the smallest bounds in
which a benchmark could be executed a second time.

## Fairness

`ResultWriter` states safety only and assumes none.
`BenchRunner`: weak fairness of its steps, provided that make and the harnesses
terminate; Ctrl-C is never assumed to happen. `HarnessExecutor`: weak fairness of
the executor (the end of its short wait after Ctrl-C included) and of the child,
which is a running process of its own until it hangs; hanging, crashing and Ctrl-C
are not fair. `Chayai`: weak fairness of the next step of
the process, which has one thread and is scheduled; calls into the measured code
and the system return. `ChayaiClock`: weak fairness of each step of the loop and of
the clock's advance; nobody is assumed to set the wall clock, or to leave it alone.
Where a liveness property is checked, the safety properties of the run are checked
under the same specification; fairness removes none of its finite behaviours.

## Proofs

`ResultWriterProofs` holds, for any results, inodes and number of starts:

* `TypeCorrect`: `Spec => []TypeOK`, for all faults.
* `WriterInvariant`: with the recoverable faults (OSError, a save that raises,
  Ctrl-C) `WriterInv` is inductive. It says, step by step, which names stand for
  complete documents and that they contain no more than the database (so that the
  new file supersedes the old). `NothingLost` alone is not inductive: that the old
  file may be unlinked follows only from the second name made before, and that the
  second name may be unlinked only from the new file holding at least as much.
* `NothingIsLost`: `NothingLost`, a conjunct of the above.
* `WriterImplementsLog`: `Spec => ImplementsLog`, each step maps to a step of
  `ResultLog` or to a stutter, from the same invariant.
* `StaleFreezes`: for all faults, a stale `.deleteme` freezes BENCHFILE until the
  in-place fallback is taken, kills and full disks included.
* `LossesAreInWindows`: for all faults, a result leaves the disk at two steps only.
  It rests on `PathInv`, what the atomic path guarantees itself whatever happens
  around it: the open file has nothing on disk, the old file has its two names
  when one is removed, and the new file is BENCHFILE before its temporary name
  goes. From it every complete document keeps name and content (`DocumentsStay`).
* `NoDebrisIsLeft` and `WhatIsMeasuredIsStored`: without a fault, `NoDebris` and
  `MeasuredIsStored`, from `CleanInv`, the names along an undisturbed write.

With these every property that a run checks of `ResultWriter` is also proved.

`BenchRunnerProofs`, for any runtimes, harnesses, runs, command lines and answers, from
one inductive invariant, `RunnerInv`, whose parts build on each other:

* `BinariesAreOwn` (`BinaryInv`): after the clean step no binary is left that the
  current runtime did not build; that it is so when a harness is executed follows from
  what held before the compilation.
* `MeasurementsAreInFile`: an invariant by itself once the types are known. A write that
  returns stores the session, and every way out of a runtime comes by the final write.
* `LossesAreRepaired`: from `FileInv`, that whatever was ever in the file is still in the
  session; a write that returns stores all of it. It needs `FreshInv`, that nothing is
  measured ahead of the loops (`Passed` says which executions they have behind them).
  Without it a step could begin an execution a second time, take its rows back, and
  the next write would leave it out.
* `ZeroMeansMeasured`: `Well` says that nothing went wrong up to now; as long as it holds, what
  was measured is complete (`CompleteInv`), every binary exists and nothing that the
  loops passed is missing (`CoverInv`), and status 0 comes from such a process (`StatusInv`).
* `RefusalsAreReported` (`PoisonedInv`): a refused flush clears `no_error`, and
  `no_failures` after it, before anything can be built or executed.

`HarnessExecutorProofs`, for any capacity of the pipes and length of output:
`AllIsReturned`, from `OutputInv` (what is read, in the pipe and still to be written is
what the child set out to write), and `NothingIsLeft`, from `HoldsInv`
(what the executor holds at each place). `NothingIsLeft` covers starts that fail and
Ctrl-C; after Ctrl-C it promises closed pipes and no temporary directory, but no end of
the child.

`ResultStoreProofs`, for any files, benchmarks, executions and INFILEs. A document lists
the runs of a benchmark without its gaps; the n-th run in the list is the n-th number
at which a run exists. The lemmas about such enumerations (`EnumerationExists`,
`KthOfEnumeration`, `RunsOfConcat`) carry the theorems:

* `FilesAreStable` follows from what `Load` and `Save` do to one database, `LoadIsStable`.
* `FilesExtend`: a database of `bench.py` starts with the runs of its BENCHFILE in order
  (`GrowInv`), and executions are appended.
* `DatabasesAreFaithful`: without gaps all databases and documents have lists of one
  length (`WholeInv`), those that a merge has opened included.
* `MergesAreWhole`, which speaks of the lists of runs and not of the metadata: after some INFILEs the database of the merge has their runs, one file
  after the other (`MergeInv`); the concatenation is unfolded by `FlattenNext`.

`ChayaiTimeProofs`, for any units: `DurationIsExact`, the duration between two
timespecs is the exact difference, and the intermediate timespec normalised, over
every borrow and in either direction; `MicroDurationIsExact` the same for timevals,
and `MicroDurationOfReadings`, that two readings are less than a microsecond off.

`ChayaiClockProofs`, for any number of rounds, steps and settings of the clock:

* `ClockTypeCorrect`: from `ClockInv`, types and which clock is read.
* `ResolutionIsThorough`: from `CountInv`, which relates the loop variable to the
  rounds taken and to those since the last improvement (`i =< since + 1`: the
  restart sets it to 1, not to 0).
* `DurationsAreElapsed`: from `ReadingInv`, the reading that is held is what the
  clock showed when the round began, together with the lemmas of `ChayaiTimeProofs`.
  It excludes `mach_absolute_time`, whose unsigned ticks wrap; that build is only
  model-checked.

`ChayaiProofs`, for any plan, macros, command line, widths and failures:

* `ListIsThePlan`, by induction over the registrations (`RegisterListInv`); nothing else
  touches the list.
* `NothingIsKept`: the invariant has a part for each resource. `CoreInv` and `RunTypes`
  are the types, with `cursor` a benchmark in the loops. `FixtureInv` says by the
  position in the run function whether the fixture is set up and the counters may
  count: that they are stopped at the end, or that a `PAPI_stop` failed, follows from
  every position before it; `CountingInv` says that only a process that asked for
  counters has any running.
  `HeapInv` says which counters are allocated at each point of the two loops, and
  `FilesInv` which handlers stand in which order while file and directory exist.
* `RepeatsAreNeverReported`: `Linked` says that each benchmark with a successor has one
  of the plan. When the last one was registered before, all have, so that
  the walk of `SetWarmup` never leaves the plan (`NoWayOut`).
* `BodiesAreMeasured`: `ResultInv` says of the runs that are over that total, minimum and
  maximum summarise them and that each belongs to what really happened; `OneRunInv` says
  for each position in the run function what of the current run has been measured,
  down to the clock read before and after the bodies. The counters of a `stale` run are
  the one exception.
* `FinishedBenchmarksAreOut` and `ReportIsImplemented`: a benchmark is reported by one
  closing token. Everything else the outputters write is in `QuietTexts`, closed under
  concatenation, and what is reported of two texts is what is reported of each
  (`ReportedOfConcat`). Hence a step of the loop adds no benchmark or `cursor` (`JsonReportsOne`,
  `ConsoleReportsOne`), and `OrderInv` follows: what is reported are the first benchmarks of the
  plan, as far as `cursor`. The refinement adds what has arrived (`TextInv`, `Arrivals`) and
  takes each action to `Report`, `Complete`, `Fail` or a stutter (`StepsImplementReport`).
* `ReadersAreNotDeceived` and `DocumentsAreReturned`, from `DocumentInv`. `OrderInv` says which
  benchmarks are in the text, not whether it is a document. For that `ShapeInv` says of
  the text at each position in the loops where a piece begins and ends (every piece is a
  chain of tokens that may follow each other, `Chained`; two pieces chain if
  their ends do, `Piece`) and that "nan" and a broken name stand in it exactly if a benchmark
  reported so far gave rise to them. `ParsedInv` relates the number of runs to the words
  read, and `WalkInv` the cursor to the number of benchmarks reported. The hard case is a
  plan with a repetition: the comma is left out after as many benchmarks as were
  registered, and `WalkInv` shows, with `LastAt`, that the walk reports fewer before it is
  over, so that the array closes after a comma and no document comes out.
* `ColoursAreTrue`: `Reds` counts the red copies of a line piece by piece of the report; no
  piece ends in red, so that the counts add up. A sum lies between as many times its least
  and its greatest number and is one of them exactly if all numbers are equal
  (`SumsLieBetween`, by induction), so that with `ResultInv` the signs of the deviations are
  those that the property promises (`SpreadOfRuns`).
* `TypeCorrect`, with `PlaceInv` for the positions in the words and in the list.

What a recursive function computes is reached by `NumberInduction`. The induction theorems
of the library take the statement as an operator, which the provers cannot
instantiate. The module derives induction for statements given as sets of numbers, from the
well-founded order of finite sets, and the existence of functions defined by recursion
(`RecursionExists`). Sums, closing tokens, enumerations and concatenations are
treated with these; their lemmas say that every function with the recursive equation
has the same values (`ClosedUnique`) and that there is one.

The assumptions are those of the modules, which the runs evaluate:
`ConstantsAssumption` (results, inodes, options, answers and bounds; `MaxExecutions` is at
least 1 since a file may hold an execution before the first start),
`UnitsAssumption` (a second is some number of microseconds),
`MachAssumption` (a fraction and a width), `WidthAssumption` (`unsigned int` holds more
than 2, and no more than `long`), `MacroAssumption` and `ProgramsAssumption` (types of
what a harness defines, of its plan and words), `TicksAssumption` (no run takes longer
than an `int64_t` of nanoseconds can say, 292 years: the minimum starts there),
`LoopAssumption` and `ClockAssumption`. Theorems about the writer that need fewer faults
say so as their hypothesis.

Only model-checked: liveness (`Terminates` of three modules, `ExecutorEnds`), which the prover
does not do; and `DurationIsElapsed` for builds with `mach_absolute_time`. Every other
property that a passing run checks is also proved, both refinements included.

## Not modelled, and the plan

Left out for good: the vendored programs and their harness files, the R scripts,
the paper, containers, colours and wording of the log;
`is_system_ready_for_benchmarking` and system information, which only fill columns.
Of C-Hayai: the Windows clock, the wording and number formats of the console report,
what the measured code itself writes to stdout between the tokens, and calls of
`chayai_run_benchmarks` without `RUN_BENCHMARKS`, which nobody makes.

Numbers of runs beyond `INT_MAX` are not modelled (the loop of
`chayai_benchmarker.c:125` that frees the counters has an `int` index), nor a second
Ctrl-C in one executor, nor one inside the constructor of `Popen`.

Two `bench.py` on one BENCHFILE are left out, too: nothing says that they may.

In order of importance:

1. `PgoExecutor`: clean, build, train and rebuild in the shared directory, with the
   library deleted in between (`configs/pgo.py`); the Valgrind and Sulong executors as
   instances of `HarnessExecutor`.
2. `ResultStore`: documents whose load raises half-way (partial import), runtime
   filters.
3. `detect_normal_iterations`: the keys of the iteration file, against those that
   `bench.py` looks up.
4. Composition: `BenchRunner` with `ResultWriter` in place of the outcome of a
   write.

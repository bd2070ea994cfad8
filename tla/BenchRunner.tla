----------------------------- MODULE BenchRunner ----------------------------
(***************************************************************************)
(* One process of tools/bench.py, from execute_runtimes() to sys.exit():   *)
(* for every runtime the clean step, the compilation, the executions of    *)
(* all harnesses, run after run, and the writes of the results, with every *)
(* early return, swallowed exception and Ctrl-C on the way.                *)
(*                                                                         *)
(* make is modelled by the binaries it leaves in the test directory, a     *)
(* harness by what its process answers, write_results by its outcome (how  *)
(* it reaches the file is the module ResultWriter).                        *)
(***************************************************************************)
EXTENDS Naturals, FiniteSets

CONSTANTS NumRuntimes,   \* the runtimes that --filter-runtime selects
          NumHarnesses,  \* the harnesses that --filter-harness selects
          Runs,          \* --runs
          Options,       \* the command lines considered
          Answers,       \* what a harness process may do
          Interrupts     \* whether the user may press Ctrl-C

Runtime == 1..NumRuntimes
Harness == 1..NumHarnesses
Execution == Runtime \X (1..Runs) \X Harness

\* Who built the binary of a harness: a runtime of this process, nobody (there
\* is none), or an earlier process.
NoBinary == 0
Earlier == NumRuntimes + 1

\* --skip-compilation implies that the clean step is skipped (bench.py:696).
AllOptions ==
  {o \in [only_missing : BOOLEAN, ignore_errors : BOOLEAN,
          ignore_invalid : BOOLEAN, skip_clean : BOOLEAN,
          skip_compilation : BOOLEAN] : o.skip_compilation => o.skip_clean}

\* stdout of the harness: nothing, no JSON, JSON without benchmarks, all of the
\* measurements, an entry that raises after others were added, an entry that
\* the database refuses.
Stdout == {"empty", "garbage", "no_benchmarks", "good", "raises", "refused"}
Returned == [stdout : Stdout, stderr : BOOLEAN, exit_code : {0, 1}]

ASSUME ConstantsAssumption ==
  /\ NumRuntimes \in Nat \ {0} /\ NumHarnesses \in Nat /\ Runs \in Nat
  /\ Options \subseteq AllOptions
  /\ Answers \subseteq Returned
  /\ Interrupts \in BOOLEAN

VARIABLES
  opt,          \* the command line
  pc,           \* where the process is
  runtime,      \* number of the current runtime
  run,          \* run_id + 1
  harness,      \* the next harness of the listing
  bin,          \* who built each harness's binary
  present,      \* <<runtime, harness>> pairs imported from the benchmark file
  rows,         \* what the database has of each execution
  answer,       \* the stderr and exit code stored for each execution
  poisoned,     \* a flush or commit failed and the session was not rolled back
  no_error,     \* of execute_single_runtime
  no_failures,  \* of execute_runtimes
  file,         \* the executions whose measurements are in the file
  status,       \* exit code of bench.py, 2 while it runs
  interrupted,  \* a KeyboardInterrupt is on its way out
  write_failed, \* history: the last write of the results did not return
  seen          \* history: the executions whose measurements were ever in the file

progress == <<runtime, run, harness>>
database == <<present, rows, answer, poisoned>>
stored == <<file, write_failed, seen>>
results == <<no_failures, stored, status, interrupted>>
vars == <<opt, pc, progress, bin, database, no_error, results>>

\* An execution row without, with some, or with all of its measurements.
RowStates == {"none", "started", "partial", "full"}
Measured == {e \in Execution : rows[e] \in {"partial", "full"}}
NoAnswer == [stderr |-> FALSE, exit_code |-> 0]

Current == <<runtime, run, harness>>

Init == /\ opt \in Options
        /\ pc = "runtimes" /\ runtime = 0 /\ run = 1 /\ harness = 1
        /\ bin \in [Harness -> {NoBinary, Earlier}]
        /\ present \in SUBSET (Runtime \X Harness)
        /\ rows = [e \in Execution |-> "none"]
        /\ answer = [e \in Execution |-> NoAnswer]
        /\ poisoned = FALSE
        /\ no_error = TRUE /\ no_failures = TRUE
        /\ file = {} /\ write_failed = FALSE /\ seen = {}
        /\ status = 2 /\ interrupted = FALSE

-----------------------------------------------------------------------------
(* execute_runtimes and the end of the main program.                       *)

\* The next runtime, and its configuration row.
NextRuntime == /\ pc = "runtimes" /\ runtime < NumRuntimes /\ ~poisoned
               /\ runtime' = runtime + 1 /\ run' = 1 /\ harness' = 1
               /\ no_error' = TRUE
               /\ pc' = "clean"
               /\ UNCHANGED <<opt, bin, database, results>>

ExitStatus(ok) == IF ok \/ opt.ignore_errors THEN 0 ELSE 1

\* The configuration row is looked up and committed outside of the try block of
\* execute_single_runtime: what that raises, because the session is unusable or
\* becomes so, arrives in the main program.
LookupRaises == /\ pc = "runtimes" /\ runtime < NumRuntimes
                /\ poisoned' = TRUE
                /\ no_failures' = FALSE /\ status' = ExitStatus(FALSE)
                /\ pc' = "exited"
                /\ UNCHANGED <<opt, progress, bin, present, rows, answer, no_error,
                               stored, interrupted>>

\* All runtimes are done.
Exit == /\ pc = "runtimes" /\ runtime = NumRuntimes
        /\ status' = ExitStatus(no_failures)
        /\ pc' = "exited"
        /\ UNCHANGED <<opt, progress, bin, database, no_error, no_failures, stored,
                       interrupted>>

-----------------------------------------------------------------------------
(* execute_single_runtime.                                                 *)

SkipClean == /\ pc = "clean" /\ opt.skip_clean
             /\ pc' = "compile"
             /\ UNCHANGED <<opt, progress, bin, database, no_error, results>>

CleanSucceeds == /\ pc = "clean" /\ ~opt.skip_clean
                 /\ bin' = [h \in Harness |-> NoBinary]
                 /\ pc' = "compile"
                 /\ UNCHANGED <<opt, progress, database, no_error, results>>

\* Mutant: the result of the clean step is not looked at.
CleanFailsUnnoticed ==
  /\ pc = "clean" /\ ~opt.skip_clean
  /\ \E left \in SUBSET Harness :
       bin' = [h \in Harness |-> IF h \in left THEN bin[h] ELSE NoBinary]
  /\ pc' = "compile"
  /\ UNCHANGED <<opt, progress, database, no_error, results>>

\* `make clean' stopped somewhere: return False.
CleanFails == /\ pc = "clean" /\ ~opt.skip_clean
              /\ \E left \in SUBSET Harness :
                   bin' = [h \in Harness |-> IF h \in left THEN bin[h] ELSE NoBinary]
              /\ no_error' = FALSE
              /\ pc' = "final_write"
              /\ UNCHANGED <<opt, progress, database, results>>

\* The first run begins, or there is none.
StartRuns == pc' = IF Runs = 0 THEN "final_write" ELSE "harness"

SkipCompilation == /\ pc = "compile" /\ opt.skip_compilation
                   /\ StartRuns
                   /\ UNCHANGED <<opt, progress, bin, database, no_error, results>>

\* make leaves the binaries of `built' behind, and the others as they were.
Build(built) == bin' = [h \in Harness |-> IF h \in built THEN runtime ELSE bin[h]]

\* The targets that are not built were up to date or, with -i, failed.
Enough(built) == opt.ignore_errors \/ \A h \in Harness \ built : bin[h] # NoBinary

CompileSucceeds == /\ pc = "compile" /\ ~opt.skip_compilation
                   /\ \E built \in SUBSET Harness : Enough(built) /\ Build(built)
                   /\ StartRuns
                   /\ UNCHANGED <<opt, progress, database, no_error, results>>

\* The library, or without -i a target, does not compile: return False.
CompileFails == /\ pc = "compile" /\ ~opt.skip_compilation
                /\ \E built \in SUBSET Harness :
                     /\ built = {} \/ (~opt.ignore_errors /\ built # Harness)
                     /\ Build(built)
                /\ no_error' = FALSE
                /\ pc' = "final_write"
                /\ UNCHANGED <<opt, progress, database, results>>

-----------------------------------------------------------------------------
(* The executions.                                                         *)

Listed(h) == bin[h] # NoBinary

\* Some execution of this configuration and harness, of any run, this process's
\* included, is in the database.
AlreadyPresent(h) == \/ <<runtime, h>> \in present
                     \/ \E r \in 1..Runs : rows[<<runtime, r, h>>] # "none"

SkipHarness == /\ pc = "harness" /\ harness \in Harness
               /\ ~Listed(harness) \/ (opt.only_missing /\ AlreadyPresent(harness))
               /\ harness' = harness + 1
               /\ UNCHANGED <<opt, pc, runtime, run, bin, database, no_error, results>>

\* The execution row is committed before the harness is started.
StartExecution == /\ pc = "harness" /\ harness \in Harness
                  /\ Listed(harness)
                  /\ opt.only_missing => ~AlreadyPresent(harness)
                  /\ rows' = [rows EXCEPT ![Current] = "started"]
                  /\ pc' = "executing"
                  /\ UNCHANGED <<opt, progress, bin, present, answer, poisoned,
                                 no_error, results>>

\* A row cannot be committed, before or after the compilation, or before or after
\* the execution of a harness: the session becomes unusable, return False.
CommitFails ==
  /\ \/ /\ pc = "compile" /\ ~opt.skip_compilation
        /\ \E built \in SUBSET Harness :
             (built = {} \/ Enough(built)) /\ Build(built)
     \/ pc = "harness" /\ harness \in Harness /\ Listed(harness) /\ UNCHANGED bin
     \/ pc = "executing" /\ UNCHANGED bin
  /\ poisoned' = TRUE /\ no_error' = FALSE
  /\ pc' = "final_write"
  /\ UNCHANGED <<opt, progress, present, rows, answer, results>>

\* Mutant: the except clause only logs.
ExecutionRaisesUnnoticed == /\ pc = "executing"
                            /\ harness' = harness + 1
                            /\ pc' = "harness"
                            /\ UNCHANGED <<opt, runtime, run, bin, database, no_error,
                                           results>>

\* exec_func raises: timeout, no such file, a result that does not unpack.
ExecutionRaises == /\ pc = "executing"
                   /\ no_error' = FALSE
                   /\ harness' = harness + 1
                   /\ pc' = "harness"
                   /\ UNCHANGED <<opt, runtime, run, bin, database, results>>

\* With --ignore-invalid-measurements, output on stderr ends the iteration.
Discarded(a) == a.stderr /\ opt.ignore_invalid

\* stderr and exit code are stored before anything else.
Answered(a) == answer' = [answer EXCEPT ![Current] =
                            [stderr |-> a.stderr, exit_code |-> a.exit_code]]

Refused(a) == a.stdout = "refused" /\ ~Discarded(a)

ExecutionReturns ==
  /\ pc = "executing"
  /\ \E a \in Answers :
       /\ ~Refused(a)
       /\ Answered(a)
       /\ rows' = [rows EXCEPT ![Current] =
                     IF Discarded(a) THEN "started"
                     ELSE CASE a.stdout = "good" -> "full"
                            [] a.stdout = "raises" -> "partial"
                            [] OTHER -> "started"]
       /\ no_error' = (no_error /\ ~a.stderr /\ a.stdout = "good")
  /\ harness' = harness + 1
  /\ pc' = "harness"
  /\ UNCHANGED <<opt, runtime, run, bin, present, poisoned, results>>

\* Mutant: the outer except clause returns what went before.
RefusedUnnoticed == /\ pc = "executing"
                    /\ \E a \in Answers : Refused(a) /\ Answered(a)
                    /\ poisoned' = TRUE /\ UNCHANGED no_error
                    /\ pc' = "final_write"
                    /\ UNCHANGED <<opt, progress, bin, present, rows, results>>

\* The flush of an entry raises; the except clause asks the unusable session for
\* the name of the harness, which raises again: the outer one returns False.
ExecutionRefused == /\ pc = "executing"
                    /\ \E a \in Answers : Refused(a) /\ Answered(a)
                    /\ poisoned' = TRUE /\ no_error' = FALSE
                    /\ pc' = "final_write"
                    /\ UNCHANGED <<opt, progress, bin, present, rows, results>>

\* Mutant: one run too many.
EndOfRunOffByOne ==
  /\ pc = "harness" /\ harness = NumHarnesses + 1
  /\ pc' = IF run =< Runs THEN "intermediate_write" ELSE "final_write"
  /\ UNCHANGED <<opt, progress, bin, database, no_error, results>>

EndOfRun == /\ pc = "harness" /\ harness = NumHarnesses + 1
            /\ pc' = IF run < Runs THEN "intermediate_write" ELSE "final_write"
            /\ UNCHANGED <<opt, progress, bin, database, no_error, results>>

-----------------------------------------------------------------------------
(* result_writer_func().                                                   *)

\* Mutants: only the executions of the current run are written, or only those
\* with all of their measurements.
WriteCurrentRun == /\ ~poisoned
                   /\ file' = {e \in Measured : e[2] = run} /\ write_failed' = FALSE
WriteComplete == /\ ~poisoned
                 /\ file' = {e \in Execution : rows[e] = "full"} /\ write_failed' = FALSE

\* The session is queried for everything there is.
WriteReturns == ~poisoned /\ file' = Measured /\ write_failed' = FALSE

\* A write that raises or is interrupted leaves the file as it was, or gone or
\* cut short, or (the removal of the old file failed) already replaced; an
\* unusable session makes every write raise before there is anything to store.
WriteFails == /\ file' \in {file, {}} \cup (IF poisoned THEN {} ELSE {Measured})
              /\ write_failed' = TRUE

WriteFile(ok) == /\ IF ok THEN WriteReturns ELSE WriteFails
                 /\ seen' = seen \cup file'

\* Mutant: the run is not counted.
IntermediateWriteOnly ==
  /\ pc = "intermediate_write"
  /\ \E ok \in BOOLEAN : WriteFile(ok) /\ no_error' = (no_error /\ ok)
  /\ harness' = 1 /\ pc' = "harness"
  /\ UNCHANGED <<opt, runtime, run, bin, database, no_failures, status, interrupted>>

IntermediateWrite == /\ pc = "intermediate_write"
                     /\ \E ok \in BOOLEAN :
                          WriteFile(ok) /\ no_error' = (no_error /\ ok)
                     /\ run' = run + 1 /\ harness' = 1
                     /\ pc' = "harness"
                     /\ UNCHANGED <<opt, runtime, bin, database, no_failures, status,
                                    interrupted>>

\* The write of the finally clause: when it raises, that is only logged.
FinalWrite == /\ pc = "final_write" /\ ~interrupted
              /\ \E ok \in BOOLEAN : WriteFile(ok)
              /\ no_failures' = (no_failures /\ no_error)
              /\ pc' = "runtimes"
              /\ UNCHANGED <<opt, progress, bin, database, no_error, status, interrupted>>

\* The same with a KeyboardInterrupt pending: the main program passes it over,
\* with no_failures as it was before the call of execute_runtimes.
FinalWriteInterrupted ==
  /\ pc = "final_write" /\ interrupted
  /\ \E ok \in BOOLEAN : WriteFile(ok)
  /\ no_failures' = TRUE /\ status' = ExitStatus(TRUE)
  /\ pc' = "exited"
  /\ UNCHANGED <<opt, progress, bin, database, no_error, interrupted>>

-----------------------------------------------------------------------------
(* Ctrl-C.                                                                 *)

\* Inside the try block of execute_single_runtime; an interrupted execution may
\* have added some of its measurements already.
Interrupt == /\ Interrupts /\ ~interrupted
             /\ \/ /\ pc \in {"clean", "compile", "harness", "executing"}
                   /\ UNCHANGED stored
                \/ pc = "intermediate_write" /\ WriteFile(FALSE)
             /\ interrupted' = TRUE
             /\ pc' = "final_write"
             /\ \/ UNCHANGED rows
                \/ pc = "executing" /\ rows' = [rows EXCEPT ![Current] = "partial"]
             /\ UNCHANGED <<opt, progress, bin, present, answer, poisoned, no_error,
                            no_failures, status>>

\* Between two runtimes, or inside the final write.
InterruptOutside == /\ Interrupts
                    /\ \/ pc = "runtimes" /\ UNCHANGED stored
                       \/ pc = "final_write" /\ WriteFile(FALSE)
                    /\ interrupted' = TRUE
                    /\ no_failures' = TRUE /\ status' = ExitStatus(TRUE)
                    /\ pc' = "exited"
                    /\ UNCHANGED <<opt, progress, bin, database, no_error>>

-----------------------------------------------------------------------------
Step == \/ NextRuntime \/ LookupRaises \/ Exit
        \/ SkipClean \/ CleanSucceeds \/ CleanFails
        \/ SkipCompilation \/ CompileSucceeds \/ CompileFails
        \/ SkipHarness \/ StartExecution \/ CommitFails
        \/ ExecutionRaises \/ ExecutionReturns \/ ExecutionRefused \/ EndOfRun
        \/ IntermediateWrite \/ FinalWrite \/ FinalWriteInterrupted

\* The process is gone.
Gone == pc = "exited" /\ UNCHANGED vars

Next == Step \/ Interrupt \/ InterruptOutside \/ Gone

Spec == Init /\ [][Next]_vars

\* bench.py keeps running, provided that make and the harnesses terminate.
FairSpec == Spec /\ WF_vars(Step)

-----------------------------------------------------------------------------
TypeOK == /\ opt \in Options
          /\ pc \in {"runtimes", "clean", "compile", "harness", "executing",
                     "intermediate_write", "final_write", "exited"}
          /\ runtime \in 0..NumRuntimes
          /\ run \in 1..Runs \cup {1}
          /\ harness \in 1..(NumHarnesses + 1)
          /\ bin \in [Harness -> 0..(NumRuntimes + 1)]
          /\ present \subseteq Runtime \X Harness
          /\ rows \in [Execution -> RowStates]
          /\ answer \in [Execution -> [stderr : BOOLEAN, exit_code : {0, 1}]]
          /\ poisoned \in BOOLEAN /\ no_error \in BOOLEAN /\ no_failures \in BOOLEAN
          /\ file \subseteq Execution /\ seen \subseteq Execution
          /\ status \in 0..2
          /\ interrupted \in BOOLEAN /\ write_failed \in BOOLEAN

\* What is measured for a runtime is a binary that this runtime compiled, never
\* one that another runtime or process left behind, unless the user skips the
\* clean step (bench.py:301-316).
OwnBinary == pc = "executing" /\ ~opt.skip_clean => bin[harness] = runtime

\* An uninterrupted exit with status 0 and without --ignore-errors: every
\* execution was measured in full and wrote nothing to stderr, and none that
\* should have taken place is missing (bench.py:260-267, 460, 716-729).
Complete(e) == rows[e] = "full" /\ ~answer[e].stderr
StatusZeroMeansMeasured ==
  pc = "exited" /\ status = 0 /\ ~interrupted /\ ~opt.ignore_errors =>
    /\ \A e \in Execution : rows[e] # "none" => Complete(e)
    /\ ~opt.only_missing /\ ~opt.skip_compilation =>
         \A e \in Execution : rows[e] # "none"

\* What was measured is in the file at the end of every runtime and of the
\* process, by whichever return, exception or Ctrl-C it ends, if the last write
\* returned: also what an earlier write failed to store, or what an interrupted
\* execution left in the database (bench.py:440, 454).
MeasuredIsInFile == pc \in {"runtimes", "exited"} /\ ~write_failed => file = Measured

\* A write that returns brings back everything that was ever in the file, what
\* writes that failed or were interrupted took out of it included
\* (bench.py:440, 454, 677, 690).
LossIsRepaired == ~write_failed => seen \subseteq file

\* Of a process with --only-missing that reports success, the help says that it
\* executes the benchmarks that are missing in the benchfile (bench.py:584), each
\* as many times as --runs tells it (bench.py:573).
MissingIsRepeated ==
  pc = "exited" /\ status = 0 /\ ~interrupted /\ ~opt.ignore_errors /\ opt.only_missing =>
    \A e \in Execution : rows[e] # "none" =>
      \A r \in 1..Runs : rows[<<e[1], r, e[3]>>] # "none"

\* Once the database refused something nothing more is built or executed, and the
\* exit status tells, unless --ignore-errors or Ctrl-C hides it (bench.py:432-451).
RefusedIsReported ==
  poisoned => /\ pc \in {"final_write", "runtimes", "exited"}
              /\ pc = "exited" /\ ~interrupted /\ ~opt.ignore_errors => status = 1

\* If make and the harnesses terminate, so does bench.py.
Terminates == <>(pc = "exited")
=============================================================================

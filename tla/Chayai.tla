-------------------------------- MODULE Chayai --------------------------------
(***************************************************************************)
(* A harness of the benchmarks: its main function registers benchmarks     *)
(* with C-Hayai, may ask for a temporary directory, and says               *)
(* RUN_BENCHMARKS (C-Hayai/src/chayai.h:100).  One action per step that    *)
(* touches the list of descriptors, the memory, the clock, PAPI, the       *)
(* temporary directory or the output, up to the end of the process by      *)
(* return, exit or a crash in the code that is measured.                   *)
(***************************************************************************)
EXTENDS ChayaiArguments, ChayaiOutputters, ChayaiTime, FiniteSets

CONSTANTS Programs,   \* the main functions and command lines considered
          Macro,      \* for each benchmark, the macro that defines it and its arguments
          NULL,
          INT64_MAX,
          Ticks       \* how long one iteration of a body may take

Benchmarks == DOMAIN Macro
Kinds == {"BENCHMARK", "BENCHMARK_P", "BENCHMARK_F", "BENCHMARK_P_F"}

ASSUME MacroAssumption ==
  /\ \A d \in Benchmarks :
       Macro[d] \in [kind : Kinds, runs : Nat, iterations : Nat, quotes : BOOLEAN]
  /\ NULL \notin Benchmarks
ASSUME ProgramsAssumption ==
  \A p \in Programs :
    /\ p.plan \in Seq(Benchmarks) /\ p.words \in Seq(Words)
    /\ \A i \in DOMAIN p.words : p.words[i].key = "p" => p.words[i].value \in Nat
    /\ p.tmp \in Nat /\ p.workdir \in BOOLEAN
\* No run takes longer than an int64_t can say, 292 years of nanoseconds.
ASSUME TicksAssumption ==
  /\ Ticks \subseteq Nat /\ INT64_MAX \in Nat
  /\ \E longest \in Ticks : /\ \A t \in Ticks : t =< longest
                          /\ \A d \in Benchmarks : Macro[d].iterations * longest =< INT64_MAX

VARIABLES
  program,       \* plan: what main registers; words: its command line; tmp: how often
                 \* it asks for a directory; workdir: whether CHAYAI_WORKDIR is set
  pc,
  registered,    \* how much of the plan is registered
  first, last, next, nbBenchmarksRegistered, \* the list of descriptors
  warmup,        \* the warmup field of each descriptor
  arguments, parsed, \* CHayaiArguments, and how many words it comes from
  cursor,        \* currentBenchmarkDescriptor of the loop at hand
  phase, k, step, iterations, \* which run, and where in the run function
  result,        \* CHayaiBenchmarkResult
  papiCounters,  \* of the run at hand
  papi,          \* the event set: created, counting, what it counted, and (history) stuck:
                 \* it counts because a PAPI_stop failed
  heap,          \* blocks that are allocated: <<"singleRuns", 0>>, <<"counters", run>>
  fixtures,      \* fixtures that are set up
  now, startTime, endTime,
  numOfBenchmarks, curBenchmarkNum, \* of the JSON outputter
  out, flushed,  \* what was printed, and how much of it has left the process
  dir, file, handlers, \* the directory, a file of the harness, the functions of atexit
  status,        \* "alive", or how the process ends: "return" of main, "crash", or exit:
                 \* "exit" in a body, "help", "usage" (64), "exit2" for PAPI
  truth          \* history: for each measured run, the time and number of its bodies

list == <<registered, first, last, next, nbBenchmarksRegistered, warmup>>
loops == <<cursor, phase, k, step, iterations>>
running == <<papiCounters, papi, heap, fixtures, now, startTime, endTime>>
output == <<numOfBenchmarks, curBenchmarkNum, out, flushed>>
files == <<dir, file, handlers>>
vars == <<program, pc, list, arguments, parsed, loops, result, running, output, files, status, truth>>

-----------------------------------------------------------------------------
(* The macros of chayai_benchmark_pp.h: what the register function puts    *)
(* into the descriptor, and the steps of the run function.  The text of    *)
(* the parameters becomes part of a name; "quotes" says that it breaks a   *)
(* JSON string, by a quotation mark or a backslash, as in '\0'.            *)

Descriptor(d, quotes) == [runs |-> Macro[d].runs, iterations |-> Macro[d].iterations,
                          warmup |-> 2, quotes |-> quotes]

BENCHMARK_descriptor(d) == Descriptor(d, FALSE)
BENCHMARK_P_descriptor(d) == Descriptor(d, Macro[d].quotes)
BENCHMARK_F_descriptor(d) == Descriptor(d, FALSE)
BENCHMARK_P_F_descriptor(d) == Descriptor(d, Macro[d].quotes)

BENCHMARK_run ==
  <<"papi_start", "papi_reset", "start", "body", "end", "papi_stop", "duration">>

BENCHMARK_P_run ==
  <<"papi_start", "papi_reset", "start", "body", "end", "papi_stop", "duration">>

\* Mutant: the clock is started before the fixture is set up.
BENCHMARK_F_start_first ==
  <<"start", "set_up", "papi_start", "papi_reset", "body", "end", "papi_stop", "tear_down",
    "duration">>

BENCHMARK_F_run ==
  <<"set_up", "papi_start", "papi_reset", "start", "body", "end", "papi_stop", "tear_down",
    "duration">>

BENCHMARK_P_F_run ==
  <<"set_up", "papi_start", "papi_reset", "start", "body", "end", "papi_stop", "tear_down",
    "duration">>

descriptor(d) == CASE Macro[d].kind = "BENCHMARK"     -> BENCHMARK_descriptor(d)
                   [] Macro[d].kind = "BENCHMARK_P"   -> BENCHMARK_P_descriptor(d)
                   [] Macro[d].kind = "BENCHMARK_F"   -> BENCHMARK_F_descriptor(d)
                   [] Macro[d].kind = "BENCHMARK_P_F" -> BENCHMARK_P_F_descriptor(d)

RunFunction(d) == CASE Macro[d].kind = "BENCHMARK"     -> BENCHMARK_run
                    [] Macro[d].kind = "BENCHMARK_P"   -> BENCHMARK_P_run
                    [] Macro[d].kind = "BENCHMARK_F"   -> BENCHMARK_F_run
                    [] Macro[d].kind = "BENCHMARK_P_F" -> BENCHMARK_P_F_run

-----------------------------------------------------------------------------
NoResult == [warmupRuns |-> 0, runs |-> 0, iterations |-> 0, timeTotal |-> 0,
             timeRunMin |-> INT64_MAX, timeRunMax |-> -INT64_MAX - 1, singleRuns |-> <<>>]
Midnight == now_clock_gettime(0)

Init ==
  /\ program \in Programs
  /\ pc = "register" /\ status = "alive"
  /\ registered = 0 /\ first = NULL /\ last = NULL /\ nbBenchmarksRegistered = 0
  /\ next = [d \in Benchmarks |-> NULL] /\ warmup = [d \in Benchmarks |-> 0]
  /\ arguments = DefaultArguments /\ parsed = 0
  /\ cursor = NULL /\ phase = "warmup" /\ k = 0 /\ step = 1 /\ iterations = 0
  /\ result = NoResult /\ truth = <<>>
  /\ papiCounters = NoCounters /\ papi = [created |-> FALSE, counting |-> FALSE, stuck |-> FALSE, count |-> 0]
  /\ heap = {} /\ fixtures = 0
  /\ now = 0 /\ startTime = Midnight /\ endTime = Midnight
  /\ numOfBenchmarks = 0 /\ curBenchmarkNum = 0 /\ out = <<>> /\ flushed = 0
  /\ dir = "none" /\ file = FALSE /\ handlers = <<>>

Exit(how) == pc' = "exit" /\ status' = how
Crash == pc' = "ended" /\ status' = "crash"
Goto(label) == pc' = label /\ UNCHANGED status

-----------------------------------------------------------------------------
(* The main function of the harness, up to RUN_BENCHMARKS.                 *)

\* Mutant: only the first benchmark becomes the last of the list.
register_keeps_last(d) ==
  /\ IF first = NULL THEN first' = d /\ last' = d /\ UNCHANGED next
                     ELSE next' = [next EXCEPT ![last] = d] /\ UNCHANGED <<first, last>>
  /\ nbBenchmarksRegistered' = nbBenchmarksRegistered + 1

\* Mutant: the list is ended after the new descriptor.
register_and_end(d) ==
  /\ IF first = NULL THEN first' = d /\ next' = [next EXCEPT ![d] = NULL]
                     ELSE next' = [next EXCEPT ![last] = d, ![d] = NULL] /\ UNCHANGED first
  /\ last' = d
  /\ nbBenchmarksRegistered' = nbBenchmarksRegistered + 1

\* Appends; the next field of the descriptor itself is left as it is.
chayai_register_benchmark(d) ==
  /\ IF first = NULL THEN first' = d /\ UNCHANGED next
                     ELSE next' = [next EXCEPT ![last] = d] /\ UNCHANGED first
  /\ last' = d
  /\ nbBenchmarksRegistered' = nbBenchmarksRegistered + 1

Register ==
  /\ pc = "register" /\ registered < Len(program.plan)
  /\ LET d == program.plan[registered + 1] IN
       /\ warmup' = [warmup EXCEPT ![d] = descriptor(d).warmup]
       /\ chayai_register_benchmark(d)
  /\ registered' = registered + 1
  /\ UNCHANGED <<program, pc, status, arguments, parsed, loops, result, running, output, files, truth>>

\* main goes on: some harnesses need a directory and remove their files at exit.
AllRegistered ==
  /\ pc = "register" /\ registered = Len(program.plan)
  /\ Goto(IF program.tmp > 0 THEN "directory" ELSE "arguments")
  /\ k' = program.tmp
  /\ UNCHANGED <<program, list, arguments, parsed, cursor, phase, step, iterations, result, running,
                 output, files, truth>>

tmp_dir_created == dir = "made"

\* chayai_util_get_tmp_dir: the directory it has, the one of the environment, or a new
\* one; mkdtemp may fail, and does when the name has been filled in before.
GetTmpDir ==
  /\ pc = "directory" /\ k > 0
  /\ k' = k - 1
  /\ \/ (tmp_dir_created \/ program.workdir) /\ Goto("directory") /\ UNCHANGED files
     \/ /\ ~tmp_dir_created /\ ~program.workdir /\ dir = "none"
        /\ dir' = "made" /\ handlers' = Append(handlers, "remove_tmp_dir")
        /\ Goto("directory") /\ UNCHANGED file
     \/ ~tmp_dir_created /\ ~program.workdir /\ Crash /\ UNCHANGED files
  /\ UNCHANGED <<program, list, arguments, parsed, cursor, phase, step, iterations, result, running,
                 output, truth>>

\* Mutant: the harness registers its handler before the directory has one.
CleanupFirst ==
  /\ pc = "directory" /\ k = 0
  /\ handlers' = <<"benchmark_cleanup">> \o handlers
  /\ Goto("arguments")
  /\ UNCHANGED <<program, list, arguments, parsed, loops, result, running, output, dir, file, truth>>

\* atexit(benchmark_cleanup), after the call that registered the other handler.
AtExitCleanup ==
  /\ pc = "directory" /\ k = 0
  /\ handlers' = Append(handlers, "benchmark_cleanup")
  /\ Goto("arguments")
  /\ UNCHANGED <<program, list, arguments, parsed, loops, result, running, output, dir, file, truth>>

-----------------------------------------------------------------------------
(* RUN_BENCHMARKS.                                                         *)

\* argp hands one word after the other to chayai_parse_opt.
ParseWord ==
  /\ pc = "arguments" /\ arguments.outcome = "ok" /\ parsed < Len(program.words)
  /\ arguments' = chayai_parse_opt(arguments, program.words[parsed + 1])
  /\ parsed' = parsed + 1
  /\ papi' = [papi EXCEPT !.created = arguments'.papiEvents # PapiNull]
  /\ UNCHANGED <<program, pc, status, list, loops, result, papiCounters, heap, fixtures, now,
                 startTime, endTime, output, files, truth>>

ParsingEnds ==
  /\ pc = "arguments" /\ (arguments.outcome # "ok" \/ parsed = Len(program.words))
  /\ CASE arguments.outcome = "ok"    -> Goto("outputter")
       [] arguments.outcome = "crash" -> Crash
       [] OTHER                       -> Exit(arguments.outcome)
  /\ UNCHANGED <<program, list, arguments, parsed, loops, result, running, output, files, truth>>

\* The outputter's functions are those of arguments.outputterInit from here on; then
\* chayai_set_warmup_iterations starts at the head of the list.
SetOutputter ==
  /\ pc = "outputter"
  /\ cursor' = first
  /\ Goto("set_warmup")
  /\ UNCHANGED <<program, list, arguments, parsed, phase, k, step, iterations, result, running, output,
                 files, truth>>

\* Mutant: the pointer is not moved on.
SetWarmupOfFirst ==
  /\ pc = "set_warmup" /\ cursor # NULL
  /\ warmup' = [warmup EXCEPT ![cursor] = arguments.warmupIterations]
  /\ UNCHANGED <<program, pc, status, registered, first, last, next, nbBenchmarksRegistered,
                 arguments, parsed, loops, result, running, output, files, truth>>

SetWarmup ==
  /\ pc = "set_warmup" /\ cursor # NULL
  /\ warmup' = [warmup EXCEPT ![cursor] = arguments.warmupIterations]
  /\ cursor' = next[cursor]
  /\ UNCHANGED <<program, pc, status, registered, first, last, next, nbBenchmarksRegistered,
                 arguments, parsed, phase, k, step, iterations, result, running, output, files, truth>>

IsJson == arguments.outputterInit = "json"

\* PAPI_list_events may fail; then begin() of the outputter.
Begin ==
  /\ pc = "set_warmup" /\ cursor = NULL
  /\ \/ /\ papi.created /\ Exit("exit2") /\ UNCHANGED <<cursor, output>>
     \/ /\ Goto("next") /\ cursor' = first
        /\ IF IsJson THEN /\ out' = json_begin
                          /\ numOfBenchmarks' = nbBenchmarksRegistered /\ curBenchmarkNum' = 0
                     ELSE /\ out' = console_begin(nbBenchmarksRegistered)
                          /\ UNCHANGED <<numOfBenchmarks, curBenchmarkNum>>
        /\ UNCHANGED flushed
  /\ UNCHANGED <<program, list, arguments, parsed, phase, k, step, iterations, result, running, files,
                 truth>>

-----------------------------------------------------------------------------
(* chayai_run_benchmarks.                                                  *)

Write(tokens) == out' = out \o tokens

\* Mutant: the number of the command line is not used.
runs_of_macro(d) == descriptor(d).runs

RunsOf(d) ==
  IF arguments.benchmarkIterations > 0 THEN arguments.benchmarkIterations ELSE descriptor(d).runs

\* malloc may fail; nobody looks before the first run is stored.
NextBenchmark ==
  /\ pc = "next" /\ cursor # NULL
  /\ result' = [NoResult EXCEPT !.warmupRuns = warmup[cursor], !.runs = RunsOf(cursor),
                                !.iterations = descriptor(cursor).iterations]
  /\ truth' = <<>>
  /\ heap' \in {heap, heap \cup {<<"singleRuns", 0>>}}
  /\ IF IsJson THEN UNCHANGED out ELSE Write(console_begin_benchmark(cursor))
  /\ phase' = "warmup" /\ k' = 0
  /\ Goto("loop")
  /\ UNCHANGED <<program, list, arguments, parsed, cursor, step, iterations, papiCounters, papi, fixtures,
                 now, startTime, endTime, numOfBenchmarks, curBenchmarkNum, flushed, files>>

Counters(run) == {<<"counters", run>>}
Garbage == -2  \* what malloc returns

Enter(counters) ==
  /\ papiCounters' = counters
  /\ iterations' = descriptor(cursor).iterations /\ step' = 1
  /\ UNCHANGED <<program, list, arguments, parsed, cursor, phase, k, result, papi, fixtures, now, startTime,
                 endTime, output, files>>

WarmupRun ==
  /\ pc = "loop" /\ phase = "warmup" /\ k < result.warmupRuns
  /\ IF arguments.papiEvents > 0 THEN heap' = heap \cup Counters(k) /\ Enter(Garbage)
                                 ELSE UNCHANGED heap /\ Enter(NoCounters)
  /\ Goto("run")
  /\ UNCHANGED truth

\* for (i < result.warmupRuns) is over.
WarmupDone ==
  /\ pc = "loop" /\ phase = "warmup" /\ k = result.warmupRuns
  /\ phase' = "measure" /\ k' = 0
  /\ UNCHANGED <<program, pc, status, list, arguments, parsed, cursor, step, iterations, result, running,
                 output, files, truth>>

\* memset of the counters, which crashes when there are events and no memory.
MeasuredRun ==
  /\ pc = "loop" /\ phase = "measure" /\ k < result.runs
  /\ \/ /\ arguments.papiEvents > 0
        /\ heap' = heap \cup Counters(k) /\ Enter(0)
        /\ Goto("run")
     \/ /\ arguments.papiEvents > 0
        /\ UNCHANGED <<program, list, arguments, parsed, loops, result, running, output, files>>
        /\ Crash
     \/ /\ arguments.papiEvents =< 0
        /\ UNCHANGED heap /\ Enter(NoCounters)
        /\ Goto("run")
  /\ truth' = IF pc' = "run" THEN Append(truth, [time |-> 0, bodies |-> 0, counted |-> FALSE, stale |-> FALSE])
                             ELSE truth

-----------------------------------------------------------------------------
(* The run function, step by step.                                         *)

At(s) == pc = "run" /\ RunFunction(cursor)[step] = s
Proceed == step' = step + 1 /\ UNCHANGED <<program, pc, status, list, arguments, parsed, cursor, phase, k,
                                           result, heap, output, handlers, dir>>
Count(papi_) == IF papi_.counting THEN [papi_ EXCEPT !.count = @ + 1] ELSE papi_

\* The fixture's own work takes time, and PAPI would count it.
SetUp ==
  /\ At("set_up") /\ Proceed
  /\ fixtures' = fixtures + 1 /\ now' = now + 1 /\ papi' = Count(papi)
  /\ UNCHANGED <<iterations, papiCounters, startTime, endTime, file, truth>>

\* PAPI_start may fail, which nobody notices; an event set that is empty, or still
\* counts, cannot be started.
chayai_papi_start ==
  /\ At("papi_start") /\ Proceed
  /\ \/ papi.created /\ arguments.papiEvents > 0 /\ ~papi.counting
          /\ papi' = [papi EXCEPT !.counting = TRUE, !.count = 0]
     \/ UNCHANGED papi
  /\ truth' = IF phase = "measure" THEN [truth EXCEPT ![Len(truth)].counted = papi'.counting]
                                   ELSE truth
  /\ UNCHANGED <<iterations, papiCounters, fixtures, now, startTime, endTime, file>>

\* Named for reading, it resets them; PAPI_reset may fail too.
chayai_papi_read_counters ==
  /\ At("papi_reset") /\ Proceed
  /\ papi' \in {papi, [papi EXCEPT !.count = 0]}
  /\ truth' = IF phase = "measure"
              THEN [truth EXCEPT ![Len(truth)].stale = papi.stuck /\ papi'.count # 0]
              ELSE truth
  /\ UNCHANGED <<iterations, papiCounters, fixtures, now, startTime, endTime, file>>

\* Whole seconds before the run do not matter for its duration.
StartTime ==
  /\ At("start") /\ Proceed
  /\ now' \in 0 .. (Second - 1)
  /\ startTime' = chayai_clock_now("clock_gettime", now')
  /\ UNCHANGED <<iterations, papiCounters, papi, fixtures, endTime, file, truth>>

\* while (iterations--): one call of the body, which may write the harness's file.
Body ==
  /\ At("body") /\ iterations > 0
  /\ iterations' = iterations - 1
  /\ papi' = Count(papi)
  /\ file' \in IF program.tmp > 0 THEN {file, TRUE} ELSE {file}
  /\ \E t \in Ticks :
       /\ now' = now + t
       /\ truth' = IF phase = "measure"
                   THEN [truth EXCEPT ![Len(truth)].time = @ + t, ![Len(truth)].bodies = @ + 1]
                   ELSE truth
  /\ UNCHANGED <<program, pc, status, list, arguments, parsed, cursor, phase, k, step, result, papiCounters,
                 heap, fixtures, startTime, endTime, output, dir, handlers>>

BodiesDone ==
  /\ At("body") /\ iterations = 0 /\ Proceed
  /\ UNCHANGED <<iterations, papiCounters, papi, fixtures, now, startTime, endTime, file, truth>>

\* The measured code is C: it may crash, fail an assertion, or call exit.
BodyFails ==
  /\ At("body") /\ iterations > 0
  /\ Crash \/ Exit("exit")
  /\ file' \in IF program.tmp > 0 THEN {file, TRUE} ELSE {file}
  /\ UNCHANGED <<program, list, arguments, parsed, loops, result, running, output, dir, handlers, truth>>

EndTime ==
  /\ At("end") /\ Proceed
  /\ endTime' = chayai_clock_now("clock_gettime", now)
  /\ UNCHANGED <<iterations, papiCounters, papi, fixtures, now, startTime, file, truth>>

\* PAPI_stop fails, and leaves the counters alone, when they were not started; it may also
\* fail when they were, and they go on counting.
chayai_papi_stop_counters ==
  /\ At("papi_stop") /\ Proceed
  /\ \/ /\ papiCounters' = IF papi.counting THEN papi.count ELSE papiCounters
        /\ papi' = [papi EXCEPT !.counting = FALSE, !.stuck = FALSE, !.count = 0]
        /\ UNCHANGED truth
     \/ /\ papi.counting
        /\ papi' = [papi EXCEPT !.stuck = TRUE]
        /\ truth' = IF phase = "measure" THEN [truth EXCEPT ![Len(truth)].counted = FALSE]
                                         ELSE truth
        /\ UNCHANGED papiCounters
  /\ UNCHANGED <<iterations, fixtures, now, startTime, endTime, file>>

TearDown ==
  /\ At("tear_down") /\ Proceed
  /\ fixtures' = fixtures - 1 /\ now' = now + 1 /\ papi' = Count(papi)
  /\ UNCHANGED <<iterations, papiCounters, startTime, endTime, file, truth>>

singleRun == [time |-> chayai_clock_duration("clock_gettime", startTime, endTime),
              papiCounters |-> papiCounters]

\* The locals of a run are dead after it and are forgotten.
Leave ==
  /\ k' = k + 1 /\ step' = 1
  /\ papiCounters' = NoCounters /\ now' = 0 /\ startTime' = Midnight /\ endTime' = Midnight
  /\ UNCHANGED <<program, list, arguments, parsed, cursor, phase, iterations, papi, fixtures, output, files,
                 truth>>

WarmupReturns ==
  /\ At("duration") /\ phase = "warmup"
  /\ heap' = heap \ Counters(k)
  /\ Goto("loop") /\ Leave
  /\ UNCHANGED result

Totals(r, time) ==
  [r EXCEPT !.timeTotal = @ + time,
            !.timeRunMin = IF @ > time THEN time ELSE @,
            !.timeRunMax = IF @ < time THEN time ELSE @]

\* The store into singleRuns crashes when malloc had failed.
MeasuredReturns ==
  /\ At("duration") /\ phase = "measure"
  /\ \/ /\ <<"singleRuns", 0>> \in heap
        /\ result' = [Totals(result, singleRun.time) EXCEPT !.singleRuns = Append(@, singleRun)]
        /\ Goto("loop") /\ Leave
     \/ /\ <<"singleRuns", 0>> \notin heap
        /\ Crash
        /\ UNCHANGED <<program, list, arguments, parsed, loops, result, papiCounters, papi, fixtures, now,
                       startTime, endTime, output, files, truth>>
  /\ UNCHANGED heap

-----------------------------------------------------------------------------
\* for (i < result.runs) is over.
MeasureDone ==
  /\ pc = "loop" /\ phase = "measure" /\ k = result.runs
  /\ Goto("report")
  /\ UNCHANGED <<program, list, arguments, parsed, loops, result, running, output, files, truth>>

\* The index that frees the counters is an int: not for more than INT_MAX runs.
Freed(runs) == {<<"counters", i>> : i \in 0 .. (runs - 1)} \cup {<<"singleRuns", 0>>}

\* Mutant: no fflush after a benchmark.
json_not_flushed == flushed

json_flushed == Len(out')

\* endBenchmark() of the outputter, the memory, and on to the next descriptor.
EndBenchmark ==
  /\ pc = "report"
  /\ IF IsJson
     THEN /\ curBenchmarkNum' = curBenchmarkNum + 1
          /\ Write(json_end_benchmark(cursor, descriptor(cursor).quotes, result, curBenchmarkNum',
                                      numOfBenchmarks))
          /\ flushed' = json_flushed
     ELSE /\ Write(console_end_benchmark(cursor, result))
          /\ UNCHANGED <<curBenchmarkNum, flushed>>
  /\ heap' = heap \ Freed(result.runs)
  /\ cursor' = next[cursor]
  /\ result' = NoResult /\ truth' = <<>> /\ k' = 0 /\ phase' = "warmup"
  /\ Goto("next")
  /\ UNCHANGED <<program, list, arguments, parsed, step, iterations, papiCounters, papi, fixtures, now,
                 startTime, endTime, numOfBenchmarks, files>>

End ==
  /\ pc = "next" /\ cursor = NULL
  /\ IF IsJson THEN Write(json_end) /\ flushed' = Len(out')
               ELSE Write(console_end(nbBenchmarksRegistered)) /\ UNCHANGED flushed
  /\ Goto("cleanup")
  /\ UNCHANGED <<program, list, arguments, parsed, loops, result, running, numOfBenchmarks, curBenchmarkNum,
                 files, truth>>

\* chayai_main_cleanup_arguments returns early when the event set cannot be emptied, as when
\* it still counts.
CleanupArguments ==
  /\ pc = "cleanup"
  /\ \/ ~papi.counting /\ papi' = [papi EXCEPT !.created = FALSE]
     \/ papi.created /\ UNCHANGED papi
  /\ Exit("return")
  /\ UNCHANGED <<program, list, arguments, parsed, loops, result, papiCounters, heap, fixtures, now,
                 startTime, endTime, output, files, truth>>

-----------------------------------------------------------------------------
(* exit: the functions of atexit, the last registered first, then stdio,    *)
(* which may also have written before.                                     *)

benchmark_cleanup ==
  /\ pc = "exit" /\ handlers # <<>> /\ Last(handlers) = "benchmark_cleanup"
  /\ file' = FALSE
  /\ handlers' = Front(handlers)
  /\ UNCHANGED <<program, pc, status, list, arguments, parsed, loops, result, running, output, dir, truth>>

\* rmdir fails when something is left in the directory; nobody looks.
chayai_remove_tmp_dir ==
  /\ pc = "exit" /\ handlers # <<>> /\ Last(handlers) = "remove_tmp_dir"
  /\ dir' = IF tmp_dir_created THEN (IF file THEN "left" ELSE "removed") ELSE dir
  /\ handlers' = Front(handlers)
  /\ UNCHANGED <<program, pc, status, list, arguments, parsed, loops, result, running, output, file, truth>>

\* stdio writes when its buffer is full, at any moment, and in exit at the latest.
FlushStdout ==
  /\ pc # "ended" /\ flushed < Len(out)
  /\ flushed' = Len(out)
  /\ UNCHANGED <<program, pc, status, list, arguments, parsed, loops, result, running, numOfBenchmarks,
                 curBenchmarkNum, out, files, truth>>

Terminate ==
  /\ pc = "exit" /\ handlers = <<>> /\ flushed = Len(out)
  /\ Goto("ended")
  /\ UNCHANGED <<program, list, arguments, parsed, loops, result, running, output, files, truth>>

Done == pc = "ended" /\ UNCHANGED vars

Main == Register \/ AllRegistered \/ GetTmpDir \/ AtExitCleanup
Setup == ParseWord \/ ParsingEnds \/ SetOutputter \/ SetWarmup \/ Begin
Loop == NextBenchmark \/ WarmupRun \/ WarmupDone \/ MeasuredRun \/ MeasureDone \/ EndBenchmark \/ End
Run == \/ SetUp \/ chayai_papi_start \/ chayai_papi_read_counters \/ StartTime \/ Body \/ BodiesDone
       \/ BodyFails \/ EndTime \/ chayai_papi_stop_counters \/ TearDown
       \/ WarmupReturns \/ MeasuredReturns
Shutdown == CleanupArguments \/ benchmark_cleanup \/ chayai_remove_tmp_dir
            \/ FlushStdout \/ Terminate

Next == Main \/ Setup \/ Loop \/ Run \/ Shutdown \/ Done

Spec == Init /\ [][Next]_vars

\* The process is scheduled, and calls into the harness and the system return.
FairSpec == Spec /\ WF_vars(Next)

-----------------------------------------------------------------------------
Plan == program.plan
Distinct == \A i, j \in DOMAIN Plan : Plan[i] = Plan[j] => i = j
LastRepeats == \E i \in 1 .. (Len(Plan) - 1) : Plan[i] = Plan[Len(Plan)]

\* The runs that the user or the macro asked for, as long as the number fits.
Asked(d) ==
  LET given == {i \in DOMAIN program.words : program.words[i].key = "i"}
      number == IF given = {} THEN 0 ELSE program.words[Max(given)].value
  IN IF number = 0 THEN Macro[d].runs ELSE number
AskedFits == \A i \in DOMAIN program.words :
               program.words[i].key = "i" => program.words[i].value \in 0 .. (UINT - 1)

SumOf(numbers) ==
  LET sum[i \in 0 .. Len(numbers)] == IF i = 0 THEN 0 ELSE sum[i - 1] + numbers[i]
  IN sum[Len(numbers)]

\* The variables have their types.
TypeOK ==
  /\ program \in Programs
  /\ pc \in {"register", "directory", "arguments", "outputter", "set_warmup", "next", "loop", "run",
             "report", "cleanup", "exit", "ended"}
  /\ registered \in 0 .. Len(Plan) /\ nbBenchmarksRegistered = registered
  /\ {first, last, cursor} \subseteq Benchmarks \cup {NULL}
  /\ next \in [Benchmarks -> Benchmarks \cup {NULL}] /\ warmup \in [Benchmarks -> Nat]
  /\ arguments \in Arguments /\ parsed \in 0 .. Len(program.words)
  /\ phase \in {"warmup", "measure"} /\ k \in Nat /\ step \in 1 .. 9 /\ iterations \in Nat
  /\ papiCounters \in Int /\ papi \in [created : BOOLEAN, counting : BOOLEAN, stuck : BOOLEAN, count : Nat]
  /\ fixtures \in Nat /\ now \in Nat /\ startTime \in TimeSpec /\ endTime \in TimeSpec
  /\ flushed \in 0 .. Len(out)
  /\ dir \in {"none", "made", "left", "removed"} /\ file \in BOOLEAN
  /\ status \in {"alive", "return", "crash", "exit", "help", "usage", "exit2"}

\* The list (chayai_benchmarker.c:24-35) links each benchmark to the one registered after
\* it; one that was registered again, to what follows the last time. So the list is the
\* plan as long as nothing is registered twice, and otherwise what lies between is no
\* longer on the way, or the last benchmark leads back into a circle.
ListIsPlan ==
  /\ first = IF registered = 0 THEN NULL ELSE Plan[1]
  /\ last = IF registered = 0 THEN NULL ELSE Plan[registered]
  /\ \A i \in 1 .. (registered - 1) :
       (\A j \in (i + 1) .. (registered - 1) : Plan[j] # Plan[i]) => next[Plan[i]] = Plan[i + 1]
  /\ \A d \in Benchmarks : (\A i \in 1 .. (registered - 1) : Plan[i] # d) => next[d] = NULL

\* A harness that registers its last benchmark twice walks in a circle before it has
\* written anything: set_warmup (chayai_benchmarker.c:46-49) never ends, and nothing
\* is reported.
RepeatsNeverReport == LastRepeats => out = <<>> /\ status # "return"

\* Whatever part of the JSON text has arrived when a reader looks, or when the
\* process crashes, exits or is killed (chayai_json_outputter.c:41-144): a text that is
\* a complete document reports every benchmark of the plan, in order, each with
\* as many runs as were asked for.
ReaderNotDeceived ==
  IsJson => \A n \in flushed .. Len(out) :
    LET text == SubSeq(out, 1, n)
        runs == {i \in 1 .. n : text[i].kind = "run"}
    IN IsDocument(text) =>
         /\ Reported(text) = Plan
         /\ AskedFits => RunsReported(text) = [i \in DOMAIN Plan |-> Asked(Plan[i])]
         /\ Cardinality(runs) = SumOf(RunsReported(text))

\* When main returns, the JSON text is a document exactly if no benchmark was
\* registered twice, none has 0 runs, whose mean and deviation are nan
\* (chayai_json_outputter.c:116-127), and no name holds a quotation mark or
\* a backslash that breaks a JSON string (83-84).
DocumentWhenReturned ==
  (IsJson /\ status = "return" /\ pc = "ended" /\ AskedFits) =>
    (IsDocument(out) <=> /\ Distinct
                         /\ \A i \in DOMAIN Plan :
                              /\ Asked(Plan[i]) > 0
                              /\ ~(Macro[Plan[i]].quotes
                                     /\ Macro[Plan[i]].kind \in {"BENCHMARK_P", "BENCHMARK_P_F"}))

\* A benchmark that is over has left the process (fflush, chayai_json_outputter.c:143): a crash
\* in a later one does not take it away.
FinishedIsOut ==
  (IsJson /\ Distinct) =>
    LET there == Reported(SubSeq(out, 1, flushed)) IN
      /\ pc \in {"loop", "run", "report"} => \E i \in DOMAIN Plan :
                                               Plan[i] = cursor /\ there = SubSeq(Plan, 1, i - 1)
      /\ pc \in {"cleanup", "exit"} /\ status \in {"alive", "return"} => there = Plan

\* The numbers of a benchmark are those of its bodies, as many as the macro says. The
\* fixture is not measured (chayai_benchmark_pp.h:219-228), whatever the phase of the clock;
\* total, minimum and maximum are those of all runs (chayai_benchmarker.c:114-116). The
\* counters of a run (chayai_papi.c:8-24) hold nothing of an earlier run, are 0
\* when PAPI did not count or could not stop, and missing without events; only when PAPI_stop
\* fails after a run and PAPI_reset in the next, which nobody notices, may they count both.
MeasuresBodies ==
  pc = "report" =>
    LET runs == result.singleRuns
        times == [i \in DOMAIN runs |-> runs[i].time]
    IN /\ times = [i \in 1 .. result.runs |-> truth[i].time]
       /\ \A i \in DOMAIN truth : truth[i].bodies = Macro[cursor].iterations
       /\ result.timeTotal = SumOf(times)
       /\ \A i \in DOMAIN times : times[i] \in result.timeRunMin .. result.timeRunMax
       /\ times # <<>> => {result.timeRunMin, result.timeRunMax} \subseteq ToSet(times)
       /\ \A i \in DOMAIN runs : ~truth[i].stale =>
            runs[i].papiCounters = IF arguments.papiEvents =< 0 THEN NoCounters
                                   ELSE IF truth[i].counted THEN truth[i].bodies ELSE 0

\* From one benchmark to the next (chayai_benchmarker.c:73-136) no block and no fixture is
\* left, and no running counter unless a PAPI_stop failed (chayai_papi.c:22, nobody looks);
\* within a benchmark each counter that will be freed is allocated once. After an orderly
\* end, by return or exit, the temporary directory is gone too (chayai_util.c:13-41): the
\* harness's file is removed before the directory.
NothingKept ==
  /\ pc \in {"next", "cleanup"} => heap = {} /\ fixtures = 0 /\ (papi.counting => papi.stuck)
  /\ (pc = "report" /\ arguments.papiEvents > 0) =>
       heap \ {<<"singleRuns", 0>>} = Freed(result.runs) \ {<<"singleRuns", 0>>}
  /\ (pc = "ended" /\ status # "crash") => dir \in {"none", "removed"} /\ ~file

\* The console report calls the slowest run red exactly if the runs differ, as a time
\* and as a rate, and never the fastest (chayai_console_outputter.c:211-255); with no iterations
\* their rows have no numbers and stay green.
ColoursTellSpread ==
  (pc = "report" /\ ~IsJson) =>
    LET text == console_end_benchmark(cursor, result)
        Red(line) == {i \in 2 .. Len(text) :
                        text[i] = Token("text", line, 0) /\ text[i - 1] = Token("colour", "RED", 0)}
        differ == \E i, j \in DOMAIN truth : truth[i].time # truth[j].time
        rows == IF ~differ THEN 0 ELSE IF result.iterations = 0 THEN 1 ELSE 2
    IN /\ Red("Fastest") = {} /\ Red("Best performance") = {}
       /\ Cardinality(Red("Slowest")) = rows /\ Cardinality(Red("Worst performance")) = rows

-----------------------------------------------------------------------------
\* For a reader of the output, the program does what BenchmarkReport promises: what has
\* left the process are the first benchmarks of the plan, and main returns only with
\* all of them there.
Report == INSTANCE BenchmarkReport WITH
            Plans <- {p.plan : p \in Programs},
            plan <- Plan,
            reported <- Reported(SubSeq(out, 1, flushed)),
            state <- IF pc # "ended" THEN "running"
                     ELSE IF status = "return" THEN "complete" ELSE "failed"
ImplementsReport == Report!Spec

\* Every process ends whose last benchmark was not registered before (the loops of
\* chayai_benchmarker.c:46-136 over the list, the runs and the iterations).
Terminates == ~LastRepeats ~> pc = "ended"
=============================================================================

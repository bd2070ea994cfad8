----------------------------- MODULE ChayaiProofs -----------------------------
(***************************************************************************)
(* A run of a harness, for every plan, command line and macro: the list is *)
(* what was registered, what a benchmark takes it gives back, its numbers  *)
(* are those of its bodies, and a reader of the output gets the benchmarks *)
(* of the plan, in order, as BenchmarkReport promises, and a JSON document *)
(* only when it has them all; the colours of the console report tell       *)
(* whether the runs differ; a list that leads back into itself is never    *)
(* reported.                                                               *)
(***************************************************************************)
EXTENDS Chayai, ChayaiTimeProofs, NumberInduction, SequenceTheorems

-----------------------------------------------------------------------------
(* The list of registered benchmarks.                                      *)

ListInv ==
  /\ program \in Programs
  /\ registered \in 0 .. Len(Plan)
  /\ next \in [Benchmarks -> Benchmarks \cup {NULL}]
  /\ ListIsPlan

LEMMA PlanTypes ==
  ASSUME program \in Programs
  PROVE  /\ Plan \in Seq(Benchmarks) /\ Len(Plan) \in Nat
         /\ \A i \in 1 .. Len(Plan) : Plan[i] \in Benchmarks /\ Plan[i] # NULL
BY ProgramsAssumption, MacroAssumption DEF Plan

LEMMA InitListInv == Init => ListInv
<1> SUFFICES ASSUME Init PROVE ListInv
  OBVIOUS
<1>1. Len(Plan) \in Nat
  BY PlanTypes DEF Init
<1> QED
  BY <1>1 DEF Init, ListInv, ListIsPlan

LEMMA RegisterListInv == ListInv /\ Register => ListInv'
<1> SUFFICES ASSUME ListInv, Register PROVE ListInv'
  OBVIOUS
<1> DEFINE d == Plan[registered + 1]
<1>1. /\ program \in Programs /\ program' = program
      /\ registered \in 0 .. Len(Plan) /\ registered < Len(Plan)
      /\ registered' = registered + 1
      /\ chayai_register_benchmark(d)
      /\ next \in [Benchmarks -> Benchmarks \cup {NULL}]
  BY DEF ListInv, Register, Plan
<1>2. Len(Plan) \in Nat /\ \A i \in 1 .. Len(Plan) : Plan[i] \in Benchmarks /\ Plan[i] # NULL
  BY <1>1, PlanTypes
<1>3. /\ first = IF registered = 0 THEN NULL ELSE Plan[1]
      /\ last = IF registered = 0 THEN NULL ELSE Plan[registered]
      /\ \A i \in 1 .. (registered - 1) :
           (\A j \in (i + 1) .. (registered - 1) : Plan[j] # Plan[i]) => next[Plan[i]] = Plan[i + 1]
      /\ \A b \in Benchmarks : (\A i \in 1 .. (registered - 1) : Plan[i] # b) => next[b] = NULL
  BY DEF ListInv, ListIsPlan
<1>4. d \in Benchmarks /\ Plan' = Plan /\ registered + 1 \in 1 .. Len(Plan)
  BY <1>1, <1>2 DEF Plan
<1>5. CASE registered = 0
  <2>1. first' = Plan[1] /\ last' = Plan[1] /\ next' = next
    BY <1>1, <1>3, <1>5 DEF chayai_register_benchmark
  <2> QED
    BY <1>1, <1>3, <1>4, <1>5, <2>1 DEF ListInv, ListIsPlan
<1>6. CASE registered # 0
  <2>1. registered \in 1 .. Len(Plan)
    BY <1>1, <1>2, <1>6
  <2>2. last = Plan[registered] /\ last \in Benchmarks /\ first = Plan[1] /\ first # NULL
    BY <1>2, <1>3, <1>6, <2>1
  <2>3. first' = first /\ last' = d /\ next' = [next EXCEPT ![last] = d]
    BY <1>1, <2>2 DEF chayai_register_benchmark
  <2>4. next' \in [Benchmarks -> Benchmarks \cup {NULL}]
    BY <1>1, <1>4, <2>3
  <2>5. ASSUME NEW i \in 1 .. registered, \A j \in (i + 1) .. registered : Plan[j] # Plan[i]
        PROVE  next'[Plan[i]] = Plan[i + 1]
    <3>1. CASE i = registered
      BY <1>1, <2>2, <2>3, <3>1
    <3>2. CASE i # registered
      <4>1. i \in 1 .. (registered - 1) /\ registered \in (i + 1) .. registered
        BY <2>1, <3>2
      <4>2. Plan[i] # last /\ Plan[i] \in Benchmarks
        BY <1>2, <2>1, <2>2, <2>5, <4>1
      <4>3. next[Plan[i]] = Plan[i + 1]
        BY <1>3, <2>1, <2>5, <4>1
      <4> QED
        BY <1>1, <2>3, <4>2, <4>3
    <3> QED
      BY <3>1, <3>2
  <2>6. ASSUME NEW b \in Benchmarks, \A i \in 1 .. registered : Plan[i] # b
        PROVE  next'[b] = NULL
    <3>1. b # last
      BY <2>1, <2>2, <2>6
    <3>2. next[b] = NULL
      BY <1>3, <2>1, <2>6
    <3> QED
      BY <1>1, <2>3, <3>1, <3>2
  <2>7. registered' - 1 = registered /\ registered' # 0 /\ registered' \in 0 .. Len(Plan)
    BY <1>1, <1>2, <2>1
  <2>8. ListIsPlan'
    BY <1>1, <1>4, <2>2, <2>3, <2>5, <2>6, <2>7 DEF ListIsPlan
  <2> QED
    BY <1>1, <1>4, <2>4, <2>7, <2>8 DEF ListInv
<1> QED
  BY <1>5, <1>6

\* What ListInv is about.
registry == <<program, registered, first, last, next>>

\* Nothing but Register touches the list.
LEMMA OthersKeepRegistry == Next => Register \/ UNCHANGED registry
<1> SUFFICES ASSUME Next, ~Register PROVE UNCHANGED registry
  OBVIOUS
<1> USE DEF registry, list
<1>1. CASE Main
  BY <1>1 DEF Main, AllRegistered, GetTmpDir, AtExitCleanup
<1>2. CASE Setup
  BY <1>2 DEF Setup, ParseWord, ParsingEnds, SetOutputter, SetWarmup, Begin
<1>3. CASE Loop
  BY <1>3 DEF Loop, NextBenchmark, WarmupRun, WarmupDone, MeasuredRun, MeasureDone, EndBenchmark,
              End, Enter
<1>4. CASE Run
  BY <1>4 DEF Run, SetUp, chayai_papi_start, chayai_papi_read_counters, StartTime, Body,
              BodiesDone, BodyFails, EndTime, chayai_papi_stop_counters, TearDown, WarmupReturns,
              MeasuredReturns, Proceed, Leave
<1>5. CASE Shutdown
  BY <1>5 DEF Shutdown, CleanupArguments, benchmark_cleanup, chayai_remove_tmp_dir, FlushStdout,
              Terminate
<1>6. CASE Done
  BY <1>6 DEF Done, vars
<1> QED
  BY <1>1, <1>2, <1>3, <1>4, <1>5, <1>6 DEF Next

LEMMA NextListInv == ListInv /\ [Next]_vars => ListInv'
<1>1. ListInv /\ UNCHANGED registry => ListInv'
  BY DEF registry, ListInv, ListIsPlan, Plan
<1> QED
  BY <1>1, RegisterListInv, OthersKeepRegistry DEF vars, list, registry

\* The list is what was registered (chayai_benchmarker.c:24-35): the plan, in order, unless a
\* benchmark is registered again; for every plan and set of benchmarks.
THEOREM ListIsThePlan == Spec => []ListIsPlan
<1>1. ListInv => ListIsPlan
  BY DEF ListInv
<1> QED
  BY <1>1, InitListInv, NextListInv, PTL DEF Spec

-----------------------------------------------------------------------------
(* The command line.                                                       *)

LEMMA NumberIsUnsigned ==
  ASSUME NEW w \in Words
  PROVE  LET n == read_unsigned_int_arg(w) IN n # <<>> => n[1] \in 0 .. (UINT - 1)
<1>1. w.value \in Int /\ UINT \in Nat \ {0} /\ LONG \in Nat
  BY WidthAssumption DEF Words
<1>2. strtol(w.value) \in Int
  BY <1>1 DEF strtol
<1>3. strtol(w.value) % UINT \in 0 .. (UINT - 1)
  BY <1>1, <1>2
<1> QED
  BY <1>3 DEF read_unsigned_int_arg

LEMMA ParseType ==
  ASSUME NEW a \in Arguments, NEW w \in Words, w.key = "p" => w.value \in Nat
  PROVE  chayai_parse_opt(a, w) \in Arguments
<1> DEFINE n == read_unsigned_int_arg(w)
<1>1. n # <<>> => n[1] \in 0 .. (UINT - 1)
  BY NumberIsUnsigned
<1>2. \A how \in {"usage", "help", "exit2", "crash"} : Ends(a, how) \in Arguments
  BY DEF Ends, Arguments
<1>3. CASE w.key = "o"
  BY <1>2, <1>3 DEF chayai_parse_opt, parse_output, Arguments
<1>4. CASE w.key = "w"
  <2>1. ReadInto(a, "warmupIterations", w) \in Arguments
    BY <1>1, <1>2 DEF ReadInto, Arguments
  <2> QED
    BY <1>4, <2>1 DEF chayai_parse_opt
<1>5. CASE w.key = "i"
  <2>1. ReadInto(a, "benchmarkIterations", w) \in Arguments
    BY <1>1, <1>2 DEF ReadInto, Arguments
  <2> QED
    BY <1>5, <2>1 DEF chayai_parse_opt
<1>6. CASE w.key = "p"
  <2>1. w.value \in Nat /\ a.papiEvents \in Nat \cup {-1}
    BY <1>6 DEF Arguments, PapiNull
  <2>2. parse_papi(a, w) \in Arguments
    BY <1>2, <2>1 DEF parse_papi, Arguments, PapiNull
  <2> QED
    BY <1>6, <2>2 DEF chayai_parse_opt
<1>7. CASE w.key \notin {"o", "w", "i", "p"}
  BY <1>2, <1>7 DEF chayai_parse_opt
<1> QED
  BY <1>3, <1>4, <1>5, <1>6, <1>7

-----------------------------------------------------------------------------
(* What the other invariants stand on: the command line, the descriptor at *)
(* hand, and the numbers of runs.                                          *)

InLoop == pc \in {"loop", "run", "report"}
SingleRuns == [time : Int, papiCounters : Int]
EventSets == [created : BOOLEAN, counting : BOOLEAN, stuck : BOOLEAN, count : Nat]
Results == [warmupRuns : Nat, runs : Nat, iterations : Nat, timeTotal : Int, timeRunMin : Int,
            timeRunMax : Int, singleRuns : Seq(SingleRuns)]

CoreInv ==
  /\ ListInv
  /\ arguments \in Arguments /\ parsed \in 0 .. Len(program.words)
  /\ warmup \in [Benchmarks -> Nat]
  /\ cursor \in Benchmarks \cup {NULL}
  /\ k \in Nat
  /\ InLoop => cursor \in Benchmarks
  /\ result \in Results

RunTypes ==
  /\ startTime \in TimeSpec /\ endTime \in TimeSpec
  /\ now \in Nat /\ iterations \in Nat /\ papiCounters \in Int
  /\ papi \in EventSets

WordsFit == \A i \in 1 .. Len(program.words) :
            /\ program.words[i] \in Words
            /\ program.words[i].key = "p" => program.words[i].value \in Nat

LEMMA WordTypes == program \in Programs => WordsFit /\ Len(program.words) \in Nat
BY ProgramsAssumption DEF WordsFit

LEMMA FirstType == ListInv => first \in Benchmarks \cup {NULL}
<1> SUFFICES ASSUME ListInv PROVE first \in Benchmarks \cup {NULL}
  OBVIOUS
<1>1. CASE registered = 0
  BY <1>1 DEF ListInv, ListIsPlan
<1>2. CASE registered # 0
  <2>1. 1 \in 1 .. Len(Plan) /\ first = Plan[1]
    BY <1>2, PlanTypes DEF ListInv, ListIsPlan
  <2> QED
    BY <2>1, PlanTypes DEF ListInv
<1> QED
  BY <1>1, <1>2

LEMMA DescriptorTypes ==
  ASSUME NEW d \in Benchmarks
  PROVE  descriptor(d).warmup \in Nat /\ descriptor(d).runs \in Nat
         /\ descriptor(d).iterations \in Nat
<1>1. Macro[d].kind \in Kinds /\ Macro[d].runs \in Nat /\ Macro[d].iterations \in Nat
  BY MacroAssumption
<1>2. descriptor(d) \in {Descriptor(d, FALSE), Descriptor(d, Macro[d].quotes)}
  BY <1>1 DEF descriptor, Kinds, BENCHMARK_descriptor, BENCHMARK_P_descriptor,
             BENCHMARK_F_descriptor, BENCHMARK_P_F_descriptor
<1> QED
  BY <1>1, <1>2 DEF Descriptor

LEMMA TimeTypes ==
  /\ \A n \in Nat : chayai_clock_now("clock_gettime", n) \in TimeSpec
  /\ Midnight \in TimeSpec
  /\ \A s, e \in TimeSpec : chayai_clock_duration("clock_gettime", s, e) \in Int
<1>1. \A n \in Nat : now_clock_gettime(n) \in TimeSpec
  <2> SUFFICES ASSUME NEW n \in Nat PROVE now_clock_gettime(n) \in TimeSpec
    OBVIOUS
  <2>1. Second \in Nat /\ Second > 0
    BY UnitsAssumption
  <2>2. n \div Second \in Int /\ n % Second \in 0 .. (Second - 1)
    BY <2>1
  <2> QED
    BY <2>2 DEF now_clock_gettime, TimeSpec
<1>2. \A s, e \in TimeSpec : chayai_clock_duration("clock_gettime", s, e) \in Int
  <2> SUFFICES ASSUME NEW s \in TimeSpec, NEW e \in TimeSpec
               PROVE  chayai_clock_duration("clock_gettime", s, e) \in Int
    OBVIOUS
  <2>1. s.tv_sec \in Int /\ s.tv_nsec \in Int /\ e.tv_sec \in Int /\ e.tv_nsec \in Int /\ Second \in Int
    BY UnitsAssumption DEF TimeSpec
  <2>2. s.tv_sec * Second \in Int /\ e.tv_sec * Second \in Int
    BY <2>1
  <2>3. Nanoseconds(s) \in Int /\ Nanoseconds(e) \in Int
    BY <2>1, <2>2 DEF Nanoseconds
  <2>4. duration_clock_gettime(s, e) \in Int
    BY <2>3, DurationIsExact
  <2> QED
    BY <2>4 DEF chayai_clock_duration
<1> QED
  BY <1>1, <1>2 DEF chayai_clock_now, Midnight

LEMMA ResultTypes ==
  /\ NoResult \in Results
  /\ \A r \in Results, t \in Int : Totals(r, t) \in Results
  /\ \A r \in Results, one \in SingleRuns : [r EXCEPT !.singleRuns = Append(@, one)] \in Results
<1>1. NoResult \in Results
  BY TicksAssumption DEF NoResult, Results
<1>2. ASSUME NEW r \in Results, NEW t \in Int PROVE Totals(r, t) \in Results
  <2> DEFINE min == IF r.timeRunMin > t THEN t ELSE r.timeRunMin
             max == IF r.timeRunMax < t THEN t ELSE r.timeRunMax
             r1 == [r EXCEPT !.timeTotal = @ + t]
             r2 == [r1 EXCEPT !.timeRunMin = min]
  <2>1. r1 \in Results /\ min \in Int /\ max \in Int
    BY DEF Results
  <2>2. r2 \in Results
    BY <2>1 DEF Results
  <2>3. [r2 EXCEPT !.timeRunMax = max] \in Results
    BY <2>1, <2>2 DEF Results
  <2>4. Totals(r, t) = [r2 EXCEPT !.timeRunMax = max]
    BY DEF Totals, Results
  <2> QED
    BY <2>3, <2>4
<1>3. ASSUME NEW r \in Results, NEW one \in SingleRuns
      PROVE  [r EXCEPT !.singleRuns = Append(@, one)] \in Results
  <2>1. Append(r.singleRuns, one) \in Seq(SingleRuns)
    BY DEF Results
  <2> QED
    BY <2>1 DEF Results
<1> QED
  BY <1>1, <1>2, <1>3

LEMMA InitCoreInv == Init => CoreInv /\ RunTypes
<1> SUFFICES ASSUME Init PROVE CoreInv /\ RunTypes
  OBVIOUS
<1>1. ListInv
  BY InitListInv
<1>2. DefaultArguments \in Arguments
  <2>1. 0 \in 0 .. (UINT - 1) /\ 2 \in 0 .. (UINT - 1)
    BY WidthAssumption
  <2> QED
    BY <2>1 DEF DefaultArguments, Arguments, PapiNull
<1>3. Len(program.words) \in Nat
  BY WordTypes DEF Init
<1> QED
  BY <1>1, <1>2, <1>3, TimeTypes, ResultTypes DEF Init, CoreInv, RunTypes, InLoop, NoCounters, EventSets

LEMMA RunsOfType ==
  ASSUME CoreInv, NEW d \in Benchmarks
  PROVE  RunsOf(d) \in Nat
BY DescriptorTypes DEF CoreInv, Arguments, RunsOf

\* What CoreInv is about, apart from the list.
core == <<program, arguments, parsed, warmup, cursor, k, pc, result>>

LEMMA NextCoreInv == CoreInv /\ RunTypes /\ [Next]_vars => CoreInv'
<1> SUFFICES ASSUME CoreInv, RunTypes, [Next]_vars PROVE CoreInv'
  OBVIOUS
<1>1. ListInv' /\ ListInv
  BY NextListInv DEF CoreInv
<1>2. /\ first \in Benchmarks \cup {NULL} /\ next \in [Benchmarks -> Benchmarks \cup {NULL}]
      /\ NULL \notin Benchmarks
      /\ program \in Programs /\ Len(program.words) \in Nat /\ WordsFit
  BY <1>1, FirstType, WordTypes, MacroAssumption DEF ListInv
<1> USE <1>1 DEF CoreInv, InLoop
<1>3. CASE UNCHANGED core
  BY <1>3 DEF core
<1>4. CASE Register
  <2>1. Plan[registered + 1] \in Benchmarks /\ descriptor(Plan[registered + 1]).warmup \in Nat
    BY <1>2, <1>4, PlanTypes, DescriptorTypes DEF Register, ListInv, Plan
  <2>2. warmup' \in [Benchmarks -> Nat]
    BY <1>4, <2>1 DEF Register, Plan
  <2> QED
    BY <1>4, <2>2 DEF Register, loops
<1>5. CASE AllRegistered
  <2>1. program.tmp \in Nat
    BY <1>2, ProgramsAssumption
  <2> QED
    BY <1>5, <2>1 DEF AllRegistered, list, Goto
<1>6. CASE GetTmpDir
  BY <1>6 DEF GetTmpDir, list, Goto, Crash
<1>7. CASE AtExitCleanup \/ CleanupArguments \/ ParsingEnds \/ BodyFails
  BY <1>7 DEF AtExitCleanup, CleanupArguments, ParsingEnds, BodyFails, list, loops, Goto, Crash, Exit
<1>8. CASE ParseWord
  <2>1. parsed + 1 \in 1 .. Len(program.words)
    BY <1>2, <1>8 DEF ParseWord
  <2>2. arguments' \in Arguments
    BY <1>2, <1>8, <2>1, ParseType DEF ParseWord, WordsFit
  <2> QED
    BY <1>8, <2>1, <2>2 DEF ParseWord, list, loops
<1>9. CASE SetOutputter \/ Begin
  BY <1>2, <1>9 DEF SetOutputter, Begin, list, Goto, Exit
<1>10. CASE SetWarmup
  <2>1. next[cursor] \in Benchmarks \cup {NULL} /\ arguments.warmupIterations \in Nat
    BY <1>2, <1>10, WidthAssumption DEF SetWarmup, Arguments
  <2> QED
    BY <1>10, <2>1 DEF SetWarmup
<1>11. CASE NextBenchmark
  <2> DEFINE r1 == [NoResult EXCEPT !.warmupRuns = warmup[cursor]]
             r2 == [r1 EXCEPT !.runs = RunsOf(cursor)]
  <2>1. /\ cursor \in Benchmarks /\ RunsOf(cursor) \in Nat /\ warmup[cursor] \in Nat
        /\ descriptor(cursor).iterations \in Nat
    BY <1>11, RunsOfType, DescriptorTypes DEF NextBenchmark
  <2>2. r1 \in Results
    BY <2>1, ResultTypes DEF Results
  <2>3. r2 \in Results
    BY <2>1, <2>2 DEF Results
  <2>4. [r2 EXCEPT !.iterations = descriptor(cursor).iterations] \in Results
    BY <2>1, <2>3 DEF Results
  <2>5. result' = [r2 EXCEPT !.iterations = descriptor(cursor).iterations]
    BY <1>11, ResultTypes DEF NextBenchmark, Results
  <2> HIDE DEF r1, r2
  <2> QED
    BY <1>11, <2>1, <2>4, <2>5 DEF NextBenchmark, list, Goto
<1>12. CASE WarmupRun \/ MeasuredRun
  BY <1>12 DEF WarmupRun, MeasuredRun, Enter, Goto, Crash, list, loops
<1>13. CASE WarmupDone \/ MeasureDone
  BY <1>13 DEF WarmupDone, MeasureDone, list, loops, Goto
<1>14. CASE SetUp \/ chayai_papi_start \/ chayai_papi_read_counters \/ StartTime \/ BodiesDone
            \/ EndTime \/ chayai_papi_stop_counters \/ TearDown
  BY <1>14 DEF SetUp, chayai_papi_start, chayai_papi_read_counters, StartTime, BodiesDone, EndTime,
               chayai_papi_stop_counters, TearDown, Proceed, list
<1>15. CASE Body
  BY <1>15 DEF Body, list
<1>16. CASE WarmupReturns
  BY <1>16 DEF WarmupReturns, Leave, Goto, At, list
<1>17. CASE MeasuredReturns
  <2>1. singleRun \in SingleRuns
    BY TimeTypes DEF singleRun, SingleRuns, RunTypes
  <2>2. singleRun.time \in Int
    BY <2>1 DEF SingleRuns
  <2>3. Totals(result, singleRun.time) \in Results
    BY <2>2, ResultTypes
  <2>4. [Totals(result, singleRun.time) EXCEPT !.singleRuns = Append(@, singleRun)] \in Results
    BY <2>1, <2>3, ResultTypes
  <2>5. result' \in Results
    BY <1>17, <2>4 DEF MeasuredReturns
  <2> QED
    BY <1>17, <2>5 DEF MeasuredReturns, Leave, Goto, Crash, At, list, loops
<1>18. CASE EndBenchmark
  <2>1. next[cursor] \in Benchmarks \cup {NULL}
    BY <1>2, <1>18 DEF EndBenchmark
  <2> QED
    BY <1>18, <2>1, ResultTypes DEF EndBenchmark, list, Goto
<1>19. CASE End \/ benchmark_cleanup \/ chayai_remove_tmp_dir \/ FlushStdout \/ Terminate
  BY <1>19 DEF End, benchmark_cleanup, chayai_remove_tmp_dir, FlushStdout, Terminate, list, loops, Goto
<1>20. Done \/ UNCHANGED vars => UNCHANGED core
  BY DEF Done, vars, core, list, loops
<1> QED
  BY <1>3, <1>4, <1>5, <1>6, <1>7, <1>8, <1>9, <1>10, <1>11, <1>12, <1>13, <1>14, <1>15, <1>16,
     <1>17, <1>18, <1>19, <1>20 DEF Next, Main, Setup, Loop, Run, Shutdown

LEMMA EventSetTypes ==
  /\ \A p \in EventSets, b \in BOOLEAN : [p EXCEPT !.created = b] \in EventSets
  /\ \A p \in EventSets : [p EXCEPT !.count = 0] \in EventSets /\ Count(p) \in EventSets
  /\ \A p \in EventSets, b \in BOOLEAN : [p EXCEPT !.counting = b, !.count = 0] \in EventSets
  /\ \A p \in EventSets : [p EXCEPT !.counting = FALSE, !.stuck = FALSE, !.count = 0] \in EventSets
  /\ \A p \in EventSets : [p EXCEPT !.stuck = TRUE] \in EventSets
<1>1. ASSUME NEW p \in EventSets PROVE Count(p) \in EventSets
  BY DEF Count, EventSets
<1>2. ASSUME NEW p \in EventSets, NEW b \in BOOLEAN
      PROVE  [p EXCEPT !.counting = b, !.count = 0] \in EventSets
  <2> DEFINE p1 == [p EXCEPT !.counting = b]
  <2>1. p1 \in EventSets
    BY DEF EventSets
  <2> HIDE DEF p1
  <2>2. [p1 EXCEPT !.count = 0] \in EventSets
    BY <2>1 DEF EventSets
  <2> QED
    BY <2>2 DEF p1
<1>3. ASSUME NEW p \in EventSets, NEW b \in BOOLEAN
      PROVE  [p EXCEPT !.created = b] \in EventSets /\ [p EXCEPT !.count = 0] \in EventSets
  BY DEF EventSets
<1>4. ASSUME NEW p \in EventSets PROVE [p EXCEPT !.stuck = TRUE] \in EventSets
  BY DEF EventSets
<1>5. ASSUME NEW p \in EventSets
      PROVE  [p EXCEPT !.counting = FALSE, !.stuck = FALSE, !.count = 0] \in EventSets
  <2> DEFINE p1 == [p EXCEPT !.counting = FALSE]
             p2 == [p1 EXCEPT !.stuck = FALSE]
  <2>1. p1 \in EventSets
    BY DEF EventSets
  <2> HIDE DEF p1
  <2>2. p2 \in EventSets
    BY <2>1 DEF EventSets
  <2> HIDE DEF p2
  <2>3. [p2 EXCEPT !.count = 0] \in EventSets
    BY <2>2 DEF EventSets
  <2> QED
    BY <2>3 DEF p1, p2
<1> QED
  BY <1>1, <1>2, <1>3, <1>4, <1>5

running_ == <<startTime, endTime, now, iterations, papiCounters, papi>>

LEMMA NextRunTypes == CoreInv /\ RunTypes /\ [Next]_vars => RunTypes'
<1> SUFFICES ASSUME CoreInv, RunTypes, [Next]_vars PROVE RunTypes'
  OBVIOUS
<1> USE DEF RunTypes, list, loops, running
<1>0. /\ \A p \in EventSets, b \in BOOLEAN : [p EXCEPT !.created = b] \in EventSets
      /\ \A p \in EventSets : [p EXCEPT !.count = 0] \in EventSets /\ Count(p) \in EventSets
      /\ \A p \in EventSets, b \in BOOLEAN : [p EXCEPT !.counting = b, !.count = 0] \in EventSets
      /\ \A p \in EventSets : [p EXCEPT !.counting = FALSE, !.stuck = FALSE, !.count = 0] \in EventSets
      /\ \A p \in EventSets : [p EXCEPT !.stuck = TRUE] \in EventSets
  BY EventSetTypes
<1>1. CASE UNCHANGED running_
  BY <1>1 DEF running_
<1>2. CASE Main \/ ParsingEnds \/ SetOutputter \/ SetWarmup \/ Begin
  BY <1>2 DEF Main, Register, AllRegistered, GetTmpDir, AtExitCleanup, ParsingEnds, SetOutputter,
              SetWarmup, Begin
<1>3. CASE ParseWord
  <2>1. (arguments'.papiEvents # PapiNull) \in BOOLEAN
    OBVIOUS
  <2>2. [papi EXCEPT !.created = (arguments'.papiEvents # PapiNull)] \in EventSets
    BY <1>0, <2>1, Zenon
  <2> QED
    BY <1>3, <2>2 DEF ParseWord
<1>4. CASE NextBenchmark \/ WarmupDone \/ MeasureDone \/ EndBenchmark \/ End \/ BodyFails
  BY <1>4 DEF NextBenchmark, WarmupDone, MeasureDone, EndBenchmark, End, BodyFails
<1>5. CASE WarmupRun \/ MeasuredRun
  <2>1. cursor \in Benchmarks
    BY <1>5 DEF WarmupRun, MeasuredRun, CoreInv, InLoop
  <2>2. descriptor(cursor).iterations \in Nat
    BY <2>1, DescriptorTypes
  <2> QED
    BY <1>5, <2>2 DEF WarmupRun, MeasuredRun, Enter, Garbage, NoCounters
<1>6. CASE SetUp \/ TearDown
  <2>1. Count(papi) \in EventSets
    BY <1>0
  <2>2. UNCHANGED <<startTime, endTime, iterations, papiCounters>> /\ now' \in Nat /\ papi' = Count(papi)
    BY <1>6 DEF SetUp, TearDown
  <2> QED
    BY <2>1, <2>2
<1>13. CASE Body
  <2>1. now' \in Nat
    BY <1>13, TicksAssumption DEF Body
  <2>2. iterations' \in Nat
    BY <1>13 DEF Body
  <2> QED
    BY <1>0, <1>13, <2>1, <2>2 DEF Body
<1>7. CASE chayai_papi_start
  <2>1. papi' \in EventSets
    BY <1>0, <1>7 DEF chayai_papi_start
  <2> QED
    BY <1>7, <2>1 DEF chayai_papi_start
<1>14. CASE chayai_papi_read_counters
  BY <1>0, <1>14 DEF chayai_papi_read_counters
<1>15. CASE chayai_papi_stop_counters
  <2>1. papiCounters' \in Int
    BY <1>15 DEF chayai_papi_stop_counters, EventSets
  <2>2. papi' \in EventSets
    BY <1>0, <1>15 DEF chayai_papi_stop_counters
  <2> QED
    BY <1>15, <2>1, <2>2 DEF chayai_papi_stop_counters
<1>8. CASE StartTime \/ EndTime \/ BodiesDone
  <2>1. now' \in Nat
    BY <1>8, UnitsAssumption DEF StartTime, EndTime, BodiesDone
  <2>2. chayai_clock_now("clock_gettime", now') \in TimeSpec
        /\ chayai_clock_now("clock_gettime", now) \in TimeSpec
    BY <2>1, TimeTypes
  <2> QED
    BY <1>8, <2>1, <2>2 DEF StartTime, EndTime, BodiesDone
<1>9. CASE WarmupReturns \/ MeasuredReturns
  <2>1. Leave \/ UNCHANGED running_
    BY <1>9 DEF WarmupReturns, MeasuredReturns, running_
  <2>2. CASE Leave
    BY <2>2, TimeTypes DEF Leave, NoCounters
  <2> QED
    BY <1>1, <2>1, <2>2
<1>10. CASE CleanupArguments
  BY <1>0, <1>10 DEF CleanupArguments
<1>11. CASE benchmark_cleanup \/ chayai_remove_tmp_dir \/ FlushStdout \/ Terminate
  BY <1>11 DEF benchmark_cleanup, chayai_remove_tmp_dir, FlushStdout, Terminate
<1>12. Done \/ UNCHANGED vars => UNCHANGED running_
  BY DEF Done, vars, running_
<1> QED
  BY <1>1, <1>2, <1>3, <1>4, <1>5, <1>6, <1>7, <1>8, <1>9, <1>10, <1>11, <1>12,
     <1>13, <1>14, <1>15 DEF Next, Setup, Loop, Run, Shutdown

-----------------------------------------------------------------------------
(* Where in the run function a fixture is set up and PAPI may count.       *)

WithFixture(d) == Macro[d].kind \in {"BENCHMARK_F", "BENCHMARK_P_F"}

Held(d, i) == IF WithFixture(d) /\ i \in 2 .. 8 THEN 1 ELSE 0
MayCount(d, i) == IF WithFixture(d) THEN i \in 3 .. 7 ELSE i \in 2 .. 6

Asking == arguments.papiEvents > 0

\* Only events that were asked for are counted, and not before the command line is read.
CountingInv == papi.counting => Asking /\ pc \notin {"register", "directory", "arguments"}

FixtureInv ==
  /\ CountingInv
  /\ pc \notin {"run", "exit", "ended"} => fixtures = 0 /\ (papi.counting => papi.stuck)
  /\ pc = "run" => /\ step \in 1 .. (IF WithFixture(cursor) THEN 9 ELSE 7)
                   /\ fixtures = Held(cursor, step)
                   /\ (papi.counting /\ ~papi.stuck => MayCount(cursor, step))

LEMMA Positions ==
  ASSUME NEW d \in Benchmarks
  PROVE  /\ ~WithFixture(d) => RunFunction(d) = BENCHMARK_run
         /\ WithFixture(d) => RunFunction(d) = BENCHMARK_F_run
<1>1. Macro[d].kind \in Kinds
  BY MacroAssumption
<1> QED
  BY <1>1 DEF RunFunction, WithFixture, Kinds, BENCHMARK_run, BENCHMARK_P_run, BENCHMARK_F_run,
              BENCHMARK_P_F_run

\* What a step of the run function finds.
LEMMA AtPosition ==
  ASSUME CoreInv, FixtureInv, pc = "run"
  PROVE  /\ cursor \in Benchmarks /\ step \in Nat
         /\ RunFunction(cursor)[step] =
              IF WithFixture(cursor) THEN BENCHMARK_F_run[step] ELSE BENCHMARK_run[step]
         /\ step \in 1 .. (IF WithFixture(cursor) THEN 9 ELSE 7)
BY Positions DEF CoreInv, InLoop, FixtureInv

LEMMA InitFixtureInv == Init => FixtureInv
BY DEF Init, FixtureInv, CountingInv

LEMMA NextCountingInv == RunTypes /\ CountingInv /\ [Next]_vars => CountingInv'
<1> SUFFICES ASSUME RunTypes, CountingInv, [Next]_vars PROVE CountingInv'
  OBVIOUS
<1> DEFINE Early == {"register", "directory", "arguments"}
<1>1. ASSUME papi'.counting = papi.counting, arguments' = arguments, pc' \in Early => pc \in Early
      PROVE  CountingInv'
  BY <1>1 DEF CountingInv, Asking
<1> USE DEF list, loops, running, Goto, Crash, Exit
<1>2. CASE Main \/ ParsingEnds \/ SetOutputter \/ SetWarmup \/ Begin
  BY <1>1, <1>2 DEF Main, Register, AllRegistered, GetTmpDir, AtExitCleanup, ParsingEnds,
                    SetOutputter, SetWarmup, Begin
<1>3. CASE ParseWord
  <2>1. papi'.counting = papi.counting
    BY <1>3 DEF ParseWord, RunTypes, EventSets
  <2>2. ~papi.counting
    BY <1>3 DEF ParseWord, CountingInv
  <2> QED
    BY <2>1, <2>2 DEF CountingInv
<1>4. CASE Loop
  BY <1>1, <1>4 DEF Loop, NextBenchmark, WarmupRun, WarmupDone, MeasuredRun, MeasureDone,
                    EndBenchmark, End, Enter
<1>5. CASE chayai_papi_start
  <2>1. pc = "run" /\ pc' = pc /\ arguments' = arguments
    BY <1>5 DEF chayai_papi_start, At, Proceed
  <2>2. arguments.papiEvents > 0 \/ papi' = papi
    BY <1>5 DEF chayai_papi_start
  <2> QED
    BY <2>1, <2>2 DEF CountingInv, Asking
<1>6. CASE chayai_papi_read_counters \/ chayai_papi_stop_counters
  <2>1. pc = "run" /\ pc' = pc /\ arguments' = arguments
    BY <1>6 DEF chayai_papi_read_counters, chayai_papi_stop_counters, At, Proceed
  <2>2. papi'.counting => papi.counting
    BY <1>6 DEF chayai_papi_read_counters, chayai_papi_stop_counters, RunTypes, EventSets
  <2> QED
    BY <2>1, <2>2 DEF CountingInv, Asking
<1>7. CASE SetUp \/ Body \/ TearDown
  <2>1. UNCHANGED <<pc, arguments>> /\ papi' = Count(papi)
    BY <1>7 DEF SetUp, Body, TearDown, Proceed
  <2>2. papi'.counting = papi.counting
    BY <2>1 DEF Count, RunTypes, EventSets
  <2> QED
    BY <1>1, <2>1, <2>2
<1>8. CASE StartTime \/ BodiesDone \/ BodyFails \/ EndTime \/ WarmupReturns \/ MeasuredReturns
  BY <1>1, <1>8 DEF StartTime, BodiesDone, BodyFails, EndTime, WarmupReturns, MeasuredReturns,
                    Proceed, Leave
<1>9. CASE CleanupArguments
  <2>1. papi'.counting = papi.counting
    BY <1>9 DEF CleanupArguments, RunTypes, EventSets
  <2> QED
    BY <1>1, <1>9, <2>1 DEF CleanupArguments
<1>10. CASE benchmark_cleanup \/ chayai_remove_tmp_dir \/ FlushStdout \/ Terminate
  BY <1>1, <1>10 DEF benchmark_cleanup, chayai_remove_tmp_dir, FlushStdout, Terminate
<1>11. CASE Done \/ UNCHANGED vars
  BY <1>1, <1>11 DEF Done, vars
<1> QED
  BY <1>2, <1>3, <1>4, <1>5, <1>6, <1>7, <1>8, <1>9, <1>10, <1>11 DEF Next, Setup, Run, Shutdown

LEMMA NextFixtureInv == CoreInv /\ RunTypes /\ FixtureInv /\ [Next]_vars => FixtureInv'
<1> SUFFICES ASSUME CoreInv, RunTypes, FixtureInv, [Next]_vars PROVE FixtureInv'
  OBVIOUS
<1>0. CountingInv'
  BY NextCountingInv DEF FixtureInv
<1> USE <1>0
<1> USE DEF FixtureInv, list, loops, running, Goto, Crash, Exit
<1>1. CASE Main \/ ParsingEnds \/ SetOutputter \/ SetWarmup \/ Begin
  BY <1>1 DEF Main, Register, AllRegistered, GetTmpDir, AtExitCleanup, ParsingEnds, SetOutputter,
              SetWarmup, Begin
<1>2. CASE ParseWord
  <2>1. papi'.counting = papi.counting /\ papi'.stuck = papi.stuck
    BY <1>2 DEF ParseWord, RunTypes, EventSets
  <2> QED
    BY <1>2, <2>1 DEF ParseWord
<1>3. CASE NextBenchmark \/ WarmupDone \/ MeasureDone \/ EndBenchmark \/ End \/ BodyFails
  BY <1>3 DEF NextBenchmark, WarmupDone, MeasureDone, EndBenchmark, End, BodyFails
<1>4. CASE WarmupRun \/ MeasuredRun
  <2>1. pc = "loop" /\ (pc' = "run" => step' = 1) /\ UNCHANGED <<fixtures, papi, cursor>>
        /\ pc' \in {"run", "ended"}
    BY <1>4 DEF WarmupRun, MeasuredRun, Enter
  <2> QED
    BY <2>1 DEF Held, MayCount
<1>5. ASSUME pc = "run", UNCHANGED <<pc, cursor>>
      PROVE  /\ cursor \in Benchmarks /\ step \in Nat
             /\ WithFixture(cursor) => step \in 1 .. 9 /\ RunFunction(cursor)[step] = BENCHMARK_F_run[step]
             /\ ~WithFixture(cursor) => step \in 1 .. 7 /\ RunFunction(cursor)[step] = BENCHMARK_run[step]
  BY <1>5, AtPosition
<1>6. CASE SetUp
  <2>1. WithFixture(cursor) /\ step = 1
    BY <1>5, <1>6 DEF SetUp, At, Proceed, BENCHMARK_run, BENCHMARK_F_run
  <2>2. /\ papi.counting => papi.stuck
        /\ papi'.counting = papi.counting /\ papi'.stuck = papi.stuck
        /\ fixtures' = 1 /\ step' = 2 /\ UNCHANGED <<pc, cursor>>
    BY <1>6, <2>1 DEF SetUp, At, Proceed, Count, MayCount, Held, RunTypes, EventSets
  <2> QED
    BY <1>6, <2>1, <2>2 DEF SetUp, At, MayCount, Held
<1>7. CASE chayai_papi_start
  <2>1. step = IF WithFixture(cursor) THEN 2 ELSE 1
    BY <1>5, <1>7 DEF chayai_papi_start, At, Proceed, BENCHMARK_run, BENCHMARK_F_run
  <2> QED
    BY <1>7, <2>1 DEF chayai_papi_start, At, Proceed, MayCount, Held
<1>8. CASE chayai_papi_read_counters
  <2>1. step = IF WithFixture(cursor) THEN 3 ELSE 2
    BY <1>5, <1>8 DEF chayai_papi_read_counters, At, Proceed, BENCHMARK_run, BENCHMARK_F_run
  <2> QED
    BY <1>8, <2>1 DEF chayai_papi_read_counters, At, Proceed, MayCount, Held
<1>9. CASE StartTime
  <2>1. step = IF WithFixture(cursor) THEN 4 ELSE 3
    BY <1>5, <1>9 DEF StartTime, At, Proceed, BENCHMARK_run, BENCHMARK_F_run
  <2> QED
    BY <1>9, <2>1 DEF StartTime, At, Proceed, MayCount, Held
<1>10. CASE BodiesDone
  <2>1. step = IF WithFixture(cursor) THEN 5 ELSE 4
    BY <1>5, <1>10 DEF BodiesDone, At, Proceed, BENCHMARK_run, BENCHMARK_F_run
  <2> QED
    BY <1>10, <2>1 DEF BodiesDone, At, Proceed, MayCount, Held
<1>11. CASE Body
  <2>1. papi'.counting = papi.counting /\ papi'.stuck = papi.stuck
    BY <1>11 DEF Body, Count, RunTypes, EventSets
  <2> QED
    BY <1>11, <2>1 DEF Body
<1>12. CASE EndTime
  <2>1. step = IF WithFixture(cursor) THEN 6 ELSE 5
    BY <1>5, <1>12 DEF EndTime, At, Proceed, BENCHMARK_run, BENCHMARK_F_run
  <2> QED
    BY <1>12, <2>1 DEF EndTime, At, Proceed, MayCount, Held
<1>13. CASE chayai_papi_stop_counters
  <2>1. step = IF WithFixture(cursor) THEN 7 ELSE 6
    BY <1>5, <1>13 DEF chayai_papi_stop_counters, At, Proceed, BENCHMARK_run, BENCHMARK_F_run
  <2>2. papi'.counting => papi'.stuck
    BY <1>13 DEF chayai_papi_stop_counters, RunTypes, EventSets
  <2> QED
    BY <1>13, <2>1, <2>2 DEF chayai_papi_stop_counters, At, Proceed, MayCount, Held
<1>14. CASE TearDown
  <2>1. WithFixture(cursor) /\ step = 8
    BY <1>5, <1>14 DEF TearDown, At, Proceed, BENCHMARK_run, BENCHMARK_F_run
  <2>2. papi'.counting = papi.counting /\ papi'.stuck = papi.stuck
    BY <1>14 DEF TearDown, Count, RunTypes, EventSets
  <2> QED
    BY <1>14, <2>1, <2>2 DEF TearDown, At, Proceed, MayCount, Held
<1>15. CASE WarmupReturns \/ MeasuredReturns
  <2>1. At("duration") /\ UNCHANGED <<fixtures, papi>> /\ pc' \in {"loop", "ended"}
    BY <1>15 DEF WarmupReturns, MeasuredReturns, Leave
  <2>2. step = IF WithFixture(cursor) THEN 9 ELSE 7
    BY <2>1, AtPosition DEF At, BENCHMARK_run, BENCHMARK_F_run
  <2> QED
    BY <2>1, <2>2 DEF At, MayCount, Held
<1>16. CASE CleanupArguments \/ benchmark_cleanup \/ chayai_remove_tmp_dir \/ FlushStdout \/ Terminate
  BY <1>16 DEF CleanupArguments, benchmark_cleanup, chayai_remove_tmp_dir, FlushStdout, Terminate
<1>17. CASE Done \/ UNCHANGED vars
  BY <1>17 DEF Done, vars
<1> QED
  BY <1>1, <1>2, <1>3, <1>4, <1>6, <1>7, <1>8, <1>9, <1>10, <1>11, <1>12, <1>13, <1>14, <1>15, <1>16,
     <1>17 DEF Next, Setup, Loop, Run, Shutdown

-----------------------------------------------------------------------------
(* The blocks a benchmark has allocated.                                   *)

Results0 == <<"singleRuns", 0>>
Kept(n) == {<<"counters", i>> : i \in 0 .. (n - 1)}
Expected == IF arguments.papiEvents =< 0 THEN {}
            ELSE IF phase = "measure" THEN Kept(IF pc = "run" THEN k + 1 ELSE k)
            ELSE IF pc = "run" THEN Counters(k) ELSE {}

HeapInv ==
  /\ phase \in {"warmup", "measure"}
  /\ ~InLoop /\ pc \notin {"exit", "ended"} => heap = {}
  /\ InLoop => heap \ {Results0} = Expected
  /\ pc = "report" => phase = "measure" /\ k = result.runs

LEMMA KeptFacts ==
  /\ Kept(0) = {}
  /\ \A n \in Nat : /\ Kept(n + 1) = Kept(n) \cup Counters(n)
                    /\ Results0 \notin Kept(n) /\ Results0 \notin Counters(n)
                    /\ Freed(n) = Kept(n) \cup {Results0}
<1>1. Kept(0) = {}
  BY DEF Kept
<1>2. ASSUME NEW n \in Nat PROVE Kept(n + 1) = Kept(n) \cup Counters(n)
  <2>1. 0 .. ((n + 1) - 1) = (0 .. (n - 1)) \cup {n}
    OBVIOUS
  <2> QED
    BY <2>1 DEF Kept, Counters
<1>3. ASSUME NEW n \in Nat
      PROVE  /\ Results0 \notin Kept(n) /\ Results0 \notin Counters(n)
             /\ Freed(n) = Kept(n) \cup {Results0}
  <2>1. \A i : <<"counters", i>> # Results0
    BY DEF Results0
  <2> QED
    BY <2>1 DEF Kept, Counters, Freed, Results0
<1> QED
  BY <1>1, <1>2, <1>3

LEMMA InitHeapInv == Init => HeapInv
BY DEF Init, HeapInv, InLoop

\* What HeapInv is about.
blocks == <<pc, phase, k, heap, arguments, result>>

LEMMA NextHeapInv == CoreInv /\ HeapInv /\ [Next]_vars => HeapInv'
<1> SUFFICES ASSUME CoreInv, HeapInv, [Next]_vars PROVE HeapInv'
  OBVIOUS
<1> USE DEF HeapInv, InLoop, list, loops, running, Goto, Crash, Exit
<1>0. k \in Nat /\ (InLoop => result.runs \in Nat)
  BY DEF CoreInv, Results
<1>1. CASE UNCHANGED blocks
  BY <1>1 DEF blocks, Expected
<1>2. CASE Main \/ ParseWord \/ ParsingEnds \/ SetOutputter \/ SetWarmup \/ Begin \/ End
  BY <1>2 DEF Main, Register, AllRegistered, GetTmpDir, AtExitCleanup, ParseWord, ParsingEnds,
              SetOutputter, SetWarmup, Begin, End
<1>3. CASE NextBenchmark
  <2>1. heap = {} /\ heap' \in {{}, {Results0}}
    BY <1>3 DEF NextBenchmark, Results0
  <2>2. pc' = "loop" /\ phase' = "warmup" /\ UNCHANGED arguments
    BY <1>3 DEF NextBenchmark
  <2> QED
    BY <2>1, <2>2 DEF Expected
<1>4. CASE WarmupRun
  <2>1. /\ pc = "loop" /\ pc' = "run" /\ phase = "warmup" /\ UNCHANGED <<phase, k, arguments>>
        /\ heap' = IF arguments.papiEvents > 0 THEN heap \cup Counters(k) ELSE heap
    BY <1>4 DEF WarmupRun, Enter
  <2>2. heap \ {Results0} = {} /\ Expected' = IF arguments.papiEvents =< 0 THEN {} ELSE Counters(k)
    BY <2>1 DEF Expected, Counters
  <2>3. arguments.papiEvents \in Int
    BY DEF CoreInv, Arguments, PapiNull
  <2> QED
    BY <1>0, <2>1, <2>2, <2>3, KeptFacts
<1>5. CASE WarmupDone
  <2>1. /\ pc = "loop" /\ phase = "warmup" /\ phase' = "measure" /\ k' = 0
        /\ UNCHANGED <<pc, heap, arguments>>
    BY <1>5 DEF WarmupDone
  <2> QED
    BY <2>1, KeptFacts DEF Expected
<1>6. CASE MeasuredRun
  <2>1. /\ pc = "loop" /\ phase = "measure" /\ UNCHANGED <<phase, k, arguments>>
        /\ pc' \in {"run", "ended"}
        /\ pc' = "run" => heap' = IF arguments.papiEvents > 0 THEN heap \cup Counters(k) ELSE heap
    BY <1>6 DEF MeasuredRun, Enter, CoreInv, Arguments, PapiNull
  <2>2. arguments.papiEvents \in Int
    BY DEF CoreInv, Arguments, PapiNull
  <2>3. heap \ {Results0} = IF arguments.papiEvents =< 0 THEN {} ELSE Kept(k)
    BY <2>1 DEF Expected
  <2>4. pc' = "run" => Expected' = IF arguments.papiEvents =< 0 THEN {} ELSE Kept(k) \cup Counters(k)
    BY <1>0, <2>1, KeptFacts DEF Expected
  <2>5. pc' = "run" => heap' \ {Results0} = Expected'
    BY <1>0, <2>1, <2>2, <2>3, <2>4, KeptFacts
  <2> QED
    BY <2>1, <2>5
<1>7. CASE WarmupReturns
  <2>1. /\ pc = "run" /\ pc' = "loop" /\ phase = "warmup" /\ UNCHANGED <<phase, arguments>>
        /\ heap' = heap \ Counters(k)
    BY <1>7 DEF WarmupReturns, Leave, At
  <2>2. heap \ {Results0} \subseteq Counters(k) /\ Expected' = {}
    BY <2>1 DEF Expected
  <2> QED
    BY <2>1, <2>2
<1>8. CASE MeasuredReturns
  <2>1. /\ pc = "run" /\ phase = "measure" /\ UNCHANGED <<phase, arguments, heap>>
        /\ (pc' = "loop" /\ k' = k + 1) \/ pc' = "ended"
    BY <1>8 DEF MeasuredReturns, Leave, At
  <2> QED
    BY <2>1 DEF Expected
<1>9. CASE MeasureDone
  BY <1>9 DEF MeasureDone, Expected
<1>10. CASE EndBenchmark
  <2>1. pc = "report" /\ pc' = "next" /\ heap' = heap \ Freed(k) /\ phase' = "warmup"
    BY <1>10 DEF EndBenchmark
  <2>2. heap \ {Results0} \subseteq Kept(k)
    BY <2>1 DEF Expected
  <2>3. heap' = {}
    BY <1>0, <2>1, <2>2, KeptFacts
  <2> QED
    BY <2>1, <2>3
<1>11. CASE SetUp \/ chayai_papi_start \/ chayai_papi_read_counters \/ StartTime \/ BodiesDone
            \/ EndTime \/ chayai_papi_stop_counters \/ TearDown \/ Body
  <2>1. UNCHANGED blocks
    BY <1>11 DEF SetUp, chayai_papi_start, chayai_papi_read_counters, StartTime, BodiesDone, EndTime,
                 chayai_papi_stop_counters, TearDown, Body, Proceed, blocks
  <2> QED
    BY <1>1, <2>1
<1>12. CASE BodyFails \/ CleanupArguments
  BY <1>12 DEF BodyFails, CleanupArguments
<1>13. CASE benchmark_cleanup \/ chayai_remove_tmp_dir \/ FlushStdout
  <2>1. UNCHANGED blocks
    BY <1>13 DEF benchmark_cleanup, chayai_remove_tmp_dir, FlushStdout, blocks
  <2> QED
    BY <1>1, <2>1
<1>14. CASE Terminate
  BY <1>14 DEF Terminate
<1>15. CASE Done \/ UNCHANGED vars
  BY <1>1, <1>15 DEF Done, vars, blocks
<1> QED
  BY <1>2, <1>3, <1>4, <1>5, <1>6, <1>7, <1>8, <1>9, <1>10, <1>11, <1>12, <1>13, <1>14, <1>15
     DEF Next, Setup, Loop, Run, Shutdown

-----------------------------------------------------------------------------
(* The temporary directory and the functions of atexit.                    *)

OnlyRemove == <<"remove_tmp_dir">>
OnlyCleanup == <<"benchmark_cleanup">>
Both == <<"remove_tmp_dir", "benchmark_cleanup">>

\* Before the first handler runs: the harness's own stands last, if there is a file.
Armed == \/ program.tmp = 0 /\ dir = "none" /\ handlers = <<>> /\ ~file
         \/ dir = "none" /\ handlers = OnlyCleanup
         \/ dir = "made" /\ handlers = Both
Disarmed == \/ dir \in {"none", "removed"} /\ handlers = <<>> /\ ~file
            \/ dir = "made" /\ handlers = OnlyRemove /\ ~file

FilesInv ==
  /\ pc = "register" => dir = "none" /\ handlers = <<>> /\ ~file
  /\ pc = "directory" => /\ ~file
                         /\ \/ dir = "none" /\ handlers = <<>>
                            \/ dir = "made" /\ handlers = OnlyRemove
  /\ pc \notin {"register", "directory", "exit", "ended"} => Armed
  /\ pc = "exit" => Armed \/ Disarmed
  /\ pc = "ended" /\ status # "crash" => dir \in {"none", "removed"} /\ ~file

LEMMA HandlerFacts ==
  /\ Last(Both) = "benchmark_cleanup" /\ Front(Both) = OnlyRemove
  /\ Last(OnlyCleanup) = "benchmark_cleanup" /\ Front(OnlyCleanup) = <<>>
  /\ Last(OnlyRemove) = "remove_tmp_dir" /\ Front(OnlyRemove) = <<>>
  /\ Append(<<>>, "benchmark_cleanup") = OnlyCleanup /\ Append(<<>>, "remove_tmp_dir") = OnlyRemove
  /\ Append(OnlyRemove, "benchmark_cleanup") = Both
<1>1. Len(Both) = 2 /\ Len(OnlyCleanup) = 1 /\ Len(OnlyRemove) = 1
  BY DEF Both, OnlyCleanup, OnlyRemove
<1>2. /\ Last(Both) = "benchmark_cleanup" /\ Last(OnlyCleanup) = "benchmark_cleanup"
      /\ Last(OnlyRemove) = "remove_tmp_dir"
  BY <1>1 DEF Last, Both, OnlyCleanup, OnlyRemove
<1>3. Front(Both) = OnlyRemove
  <2>1. Front(Both) = SubSeq(Both, 1, 1)
    BY <1>1 DEF Front
  <2> QED
    BY <2>1 DEF Both, OnlyRemove
<1>4. Front(OnlyCleanup) = <<>> /\ Front(OnlyRemove) = <<>>
  <2>1. Front(OnlyCleanup) = SubSeq(OnlyCleanup, 1, 0) /\ Front(OnlyRemove) = SubSeq(OnlyRemove, 1, 0)
    BY <1>1 DEF Front
  <2> QED
    BY <2>1 DEF OnlyCleanup, OnlyRemove
<1>5. Append(<<>>, "benchmark_cleanup") = OnlyCleanup /\ Append(<<>>, "remove_tmp_dir") = OnlyRemove
  BY DEF OnlyCleanup, OnlyRemove
<1>6. Append(OnlyRemove, "benchmark_cleanup") = Both
  <2> DEFINE H == {"remove_tmp_dir", "benchmark_cleanup"}
  <2>1. OnlyRemove \in Seq(H) /\ "benchmark_cleanup" \in H /\ Both \in Seq(H)
    BY DEF OnlyRemove, Both
  <2>2. /\ Append(OnlyRemove, "benchmark_cleanup") \in Seq(H)
        /\ Len(Append(OnlyRemove, "benchmark_cleanup")) = Len(OnlyRemove) + 1
        /\ \A i \in 1 .. Len(OnlyRemove) : Append(OnlyRemove, "benchmark_cleanup")[i] = OnlyRemove[i]
        /\ Append(OnlyRemove, "benchmark_cleanup")[Len(OnlyRemove) + 1] = "benchmark_cleanup"
    BY <2>1, AppendProperties, SMTT(20)
  <2>3. /\ Both[1] = "remove_tmp_dir" /\ Both[2] = "benchmark_cleanup"
        /\ OnlyRemove[1] = "remove_tmp_dir"
    BY DEF Both, OnlyRemove
  <2>4. \A i \in 1 .. Len(Both) : Append(OnlyRemove, "benchmark_cleanup")[i] = Both[i]
    <3>1. \A i \in 1 .. 2 : i = 1 \/ i = 2
      OBVIOUS
    <3> QED
      BY <1>1, <2>2, <2>3, <3>1
  <2>5. Len(Append(OnlyRemove, "benchmark_cleanup")) = Len(Both)
    BY <1>1, <2>2
  <2> QED
    BY <2>1, <2>2, <2>4, <2>5, SeqEqual
<1> QED
  BY <1>2, <1>3, <1>4, <1>5, <1>6

LEMMA InitFilesInv == Init => FilesInv
BY DEF Init, FilesInv

\* What FilesInv is about.
disk == <<pc, status, program, dir, file, handlers>>

LEMMA NextFilesInv == CoreInv /\ FilesInv /\ [Next]_vars => FilesInv'
<1> SUFFICES ASSUME CoreInv, FilesInv, [Next]_vars PROVE FilesInv'
  OBVIOUS
<1> USE DEF FilesInv, files, Goto, Crash, Exit
<1>1. CASE UNCHANGED disk
  BY <1>1 DEF disk, Armed, Disarmed
<1>2. CASE Register
  BY <1>2 DEF Register
<1>3. CASE AllRegistered
  <2>1. program.tmp \in Nat
    BY ProgramsAssumption DEF CoreInv, ListInv
  <2> QED
    BY <1>3, <2>1 DEF AllRegistered, Armed
<1>4. CASE GetTmpDir
  BY <1>4, HandlerFacts DEF GetTmpDir, tmp_dir_created
<1>5. CASE AtExitCleanup
  BY <1>5, HandlerFacts DEF AtExitCleanup, Armed
<1>6. CASE ParseWord \/ ParsingEnds \/ SetOutputter \/ SetWarmup \/ Begin
  <2>1. Armed /\ UNCHANGED <<program, dir, file, handlers>>
    BY <1>6 DEF ParseWord, ParsingEnds, SetOutputter, SetWarmup, Begin
  <2>2. Armed'
    BY <2>1 DEF Armed
  <2>3. pc' \notin {"register", "directory"} /\ (pc' = "ended" => status' = "crash")
    BY <1>6 DEF ParseWord, ParsingEnds, SetOutputter, SetWarmup, Begin
  <2> QED
    BY <2>2, <2>3
<1>7. CASE Loop \/ CleanupArguments
  <2>1. /\ Armed /\ UNCHANGED <<program, dir, file, handlers>>
        /\ pc' \notin {"register", "directory"} /\ (pc' = "ended" => status' = "crash")
    BY <1>7 DEF Loop, NextBenchmark, WarmupRun, WarmupDone, MeasuredRun, MeasureDone, EndBenchmark,
                End, Enter, CleanupArguments
  <2>2. Armed'
    BY <2>1 DEF Armed
  <2> QED
    BY <2>1, <2>2
<1>8. CASE Body \/ BodyFails
  <2>1. /\ Armed /\ UNCHANGED <<program, dir, handlers>>
        /\ file' \in (IF program.tmp > 0 THEN {file, TRUE} ELSE {file})
        /\ pc' \notin {"register", "directory"} /\ (pc' = "ended" => status' = "crash")
    BY <1>8 DEF Body, BodyFails, At
  <2>2. ~(0 > 0)
    OBVIOUS
  <2>3. program.tmp = 0 => file' = file
    BY <2>1, <2>2, Zenon
  <2>4. Armed'
    BY <2>1, <2>3 DEF Armed
  <2> QED
    BY <2>1, <2>4
<1>9. CASE Run /\ ~Body /\ ~BodyFails
  <2>1. /\ Armed /\ UNCHANGED <<program, dir, file, handlers>>
        /\ pc' \notin {"register", "directory"} /\ (pc' = "ended" => status' = "crash")
    BY <1>9 DEF Run, SetUp, chayai_papi_start, chayai_papi_read_counters, StartTime, BodiesDone,
                EndTime, chayai_papi_stop_counters, TearDown, WarmupReturns, MeasuredReturns,
                Proceed, Leave, At
  <2>2. Armed'
    BY <2>1 DEF Armed
  <2> QED
    BY <2>1, <2>2
<1>10. CASE benchmark_cleanup
  <2>1. /\ pc = "exit" /\ UNCHANGED <<pc, program, dir>> /\ ~file'
        /\ handlers # <<>> /\ Last(handlers) = "benchmark_cleanup" /\ handlers' = Front(handlers)
    BY <1>10 DEF benchmark_cleanup
  <2>2. Disarmed'
    BY <2>1, HandlerFacts DEF Armed, Disarmed
  <2> QED
    BY <2>1, <2>2
<1>11. CASE chayai_remove_tmp_dir
  <2>1. /\ pc = "exit" /\ UNCHANGED <<pc, program, file>>
        /\ dir' = IF dir = "made" THEN (IF file THEN "left" ELSE "removed") ELSE dir
        /\ handlers # <<>> /\ Last(handlers) = "remove_tmp_dir" /\ handlers' = Front(handlers)
    BY <1>11 DEF chayai_remove_tmp_dir, tmp_dir_created
  <2>2. Disarmed'
    BY <2>1, HandlerFacts DEF Armed, Disarmed
  <2> QED
    BY <2>1, <2>2
<1>12. CASE FlushStdout \/ Done \/ UNCHANGED vars
  <2>1. UNCHANGED disk
    BY <1>12 DEF FlushStdout, Done, vars, disk
  <2> QED
    BY <1>1, <2>1
<1>13. CASE Terminate
  <2>1. pc = "exit" /\ handlers = <<>> /\ pc' = "ended" /\ UNCHANGED <<dir, file>>
    BY <1>13 DEF Terminate
  <2>2. Both # <<>> /\ OnlyCleanup # <<>> /\ OnlyRemove # <<>>
    BY DEF Both, OnlyCleanup, OnlyRemove
  <2> QED
    BY <2>1, <2>2 DEF Armed, Disarmed
<1> QED
  BY <1>2, <1>3, <1>4, <1>5, <1>6, <1>7, <1>8, <1>9, <1>10, <1>11, <1>12, <1>13
     DEF Next, Main, Setup, Shutdown

-----------------------------------------------------------------------------
(* A plan whose last benchmark was registered before.                      *)

PlanSet == {Plan[j] : j \in 1 .. Len(Plan)}

\* What has a successor has one of the plan: the way through the list cannot end there.
Linked ==
  /\ \A i \in 1 .. (registered - 1) : next[Plan[i]] \in PlanSet
  /\ pc # "register" => registered = Len(Plan)

RepeatsInv ==
  LastRepeats =>
    /\ out = <<>> /\ status # "return"
    /\ pc \in {"register", "directory", "arguments", "outputter", "set_warmup", "exit", "ended"}
    /\ pc = "set_warmup" => cursor \in PlanSet

LEMMA InitRepeats == Init => Linked /\ RepeatsInv
BY DEF Init, Linked, RepeatsInv

\* With a last benchmark that was there before, every benchmark of the plan has a successor.
LEMMA NoWayOut ==
  ASSUME ListInv, Linked, LastRepeats, pc # "register"
  PROVE  /\ \A d \in PlanSet : next[d] \in PlanSet
         /\ first \in PlanSet /\ PlanSet \subseteq Benchmarks
<1>1. /\ Len(Plan) \in Nat /\ registered = Len(Plan)
      /\ \A i \in 1 .. Len(Plan) : Plan[i] \in Benchmarks
  BY PlanTypes DEF ListInv, Linked
<1>2. PICK i \in 1 .. (Len(Plan) - 1) : Plan[i] = Plan[Len(Plan)]
  BY DEF LastRepeats
<1>3. ASSUME NEW j \in 1 .. Len(Plan) PROVE next[Plan[j]] \in PlanSet
  <2>1. CASE j = Len(Plan)
    BY <1>1, <1>2, <2>1 DEF Linked
  <2>2. CASE j # Len(Plan)
    <3>1. j \in 1 .. (registered - 1)
      BY <1>1, <2>2
    <3> QED
      BY <3>1 DEF Linked
  <2> QED
    BY <2>1, <2>2
<1>4. first = Plan[1] /\ 1 \in 1 .. Len(Plan)
  BY <1>1, <1>2 DEF ListInv, ListIsPlan
<1> QED
  BY <1>1, <1>3, <1>4 DEF PlanSet

LEMMA NextLinked == ListInv /\ Linked /\ [Next]_vars => Linked'
<1> SUFFICES ASSUME ListInv, Linked, [Next]_vars PROVE Linked'
  OBVIOUS
<1>1. CASE Register
  <2>1. /\ program \in Programs /\ program' = program /\ pc' = pc /\ pc = "register"
        /\ registered' = registered + 1 /\ registered \in 0 .. Len(Plan) /\ registered < Len(Plan)
        /\ chayai_register_benchmark(Plan[registered + 1])
        /\ next \in [Benchmarks -> Benchmarks \cup {NULL}]
    BY <1>1 DEF Register, ListInv, Plan
  <2>2. Plan' = Plan /\ PlanSet' = PlanSet /\ Len(Plan) \in Nat
    BY <2>1, PlanTypes DEF Plan, PlanSet
  <2>3. Plan[registered + 1] \in PlanSet
    BY <2>1, <2>2 DEF PlanSet
  <2>4. \A i \in 1 .. Len(Plan) : Plan[i] \in Benchmarks /\ Plan[i] # NULL
    BY <2>1, PlanTypes
  <2>5. ASSUME NEW i \in 1 .. registered PROVE next'[Plan[i]] \in PlanSet
    <3>1. registered # 0 /\ registered \in 1 .. Len(Plan) /\ i \in 1 .. Len(Plan)
      BY <2>1, <2>2
    <3>2. first = Plan[1] /\ last = Plan[registered] /\ first # NULL /\ last \in Benchmarks
      BY <2>2, <2>4, <3>1 DEF ListInv, ListIsPlan
    <3>3. next' = [next EXCEPT ![last] = Plan[registered + 1]]
      BY <2>1, <3>2 DEF chayai_register_benchmark
    <3>4. CASE Plan[i] = last
      BY <2>1, <2>3, <3>2, <3>3, <3>4
    <3>5. CASE Plan[i] # last
      <4>1. i \in 1 .. (registered - 1)
        BY <2>1, <2>2, <3>2, <3>5
      <4> QED
        BY <2>1, <2>4, <3>1, <3>3, <3>5, <4>1 DEF Linked
    <3> QED
      BY <3>4, <3>5
  <2>6. registered' - 1 = registered
    BY <2>1, <2>2
  <2> QED
    BY <2>1, <2>2, <2>5, <2>6 DEF Linked
<1>2. CASE UNCHANGED registry /\ ~Register
  <2>1. Plan' = Plan /\ PlanSet' = PlanSet /\ registered' = registered /\ next' = next
    BY <1>2 DEF registry, Plan, PlanSet
  <2>2. pc' # "register" => registered = Len(Plan)
    <3>1. CASE pc # "register"
      BY <3>1 DEF Linked
    <3>2. CASE pc = "register"
      BY <1>2, <3>2 DEF Next, Main, Setup, Loop, Run, Shutdown, Done, vars, AllRegistered,
         GetTmpDir, AtExitCleanup, ParseWord, ParsingEnds, SetOutputter, SetWarmup, Begin,
         NextBenchmark, WarmupRun, WarmupDone, MeasuredRun, MeasureDone, EndBenchmark, End, At,
         SetUp, chayai_papi_start, chayai_papi_read_counters, StartTime, Body, BodiesDone,
         BodyFails, EndTime, chayai_papi_stop_counters, TearDown, WarmupReturns, MeasuredReturns,
         CleanupArguments, benchmark_cleanup, chayai_remove_tmp_dir, FlushStdout, Terminate, Plan
    <3> QED
      BY <3>1, <3>2
  <2> QED
    BY <2>1, <2>2 DEF Linked
<1>3. UNCHANGED vars => UNCHANGED registry /\ pc' = pc
  BY DEF vars, list, registry
<1>4. CASE UNCHANGED vars
  <2>1. Plan' = Plan /\ PlanSet' = PlanSet /\ registered' = registered /\ next' = next /\ pc' = pc
    BY <1>3, <1>4 DEF registry, Plan, PlanSet
  <2> QED
    BY <2>1 DEF Linked
<1> QED
  BY <1>1, <1>2, <1>4, OthersKeepRegistry

LEMMA NextRepeats == CoreInv /\ Linked /\ RepeatsInv /\ [Next]_vars => RepeatsInv'
<1> SUFFICES ASSUME CoreInv, Linked, RepeatsInv, [Next]_vars, LastRepeats' PROVE RepeatsInv'
  BY DEF RepeatsInv
<1>1. ListInv /\ ListInv' /\ arguments \in Arguments
  BY NextListInv DEF CoreInv
<1>2. program' = program
  BY <1>1, OthersKeepRegistry DEF Register, registry, vars
<1>3. LastRepeats /\ PlanSet' = PlanSet
  BY <1>2 DEF LastRepeats, Plan, PlanSet
<1>4. /\ out = <<>> /\ status # "return"
      /\ pc \in {"register", "directory", "arguments", "outputter", "set_warmup", "exit", "ended"}
      /\ pc = "set_warmup" => cursor \in PlanSet
  BY <1>3 DEF RepeatsInv
<1>5. pc # "register" => /\ \A d \in PlanSet : next[d] \in PlanSet
                         /\ first \in PlanSet /\ NULL \notin PlanSet
  BY <1>1, <1>3, NoWayOut, MacroAssumption
<1>6. arguments.outcome # "return"
  BY <1>1 DEF Arguments
<1> SUFFICES /\ out' = <<>> /\ status' # "return"
             /\ pc' \in {"register", "directory", "arguments", "outputter", "set_warmup", "exit", "ended"}
             /\ pc' = "set_warmup" => cursor' \in PlanSet
  BY <1>3 DEF RepeatsInv
<1> USE <1>4, <1>5, <1>6 DEF Goto, Exit, Crash
<1>7. CASE Main
  BY <1>7 DEF Main, Register, AllRegistered, GetTmpDir, AtExitCleanup, output, loops
<1>8. CASE Setup
  BY <1>8 DEF Setup, ParseWord, ParsingEnds, SetOutputter, SetWarmup, Begin, output, loops
<1>9. CASE Loop \/ Run
  BY <1>9 DEF Loop, Run, NextBenchmark, WarmupRun, WarmupDone, MeasuredRun, MeasureDone,
     EndBenchmark, End, At, SetUp, chayai_papi_start, chayai_papi_read_counters, StartTime, Body,
     BodiesDone, BodyFails, EndTime, chayai_papi_stop_counters, TearDown, WarmupReturns,
     MeasuredReturns
<1>10. CASE Shutdown
  BY <1>10 DEF Shutdown, CleanupArguments, benchmark_cleanup, chayai_remove_tmp_dir, FlushStdout,
     Terminate, output, loops
<1>11. CASE Done \/ UNCHANGED vars
  BY <1>11 DEF Done, vars, output, loops
<1> QED
  BY <1>7, <1>8, <1>9, <1>10, <1>11 DEF Next

-----------------------------------------------------------------------------
RunInv == CoreInv /\ RunTypes /\ FixtureInv /\ HeapInv /\ FilesInv

LEMMA RunInvHolds == Spec => []RunInv
<1>1. Init => RunInv
  BY InitCoreInv, InitFixtureInv, InitHeapInv, InitFilesInv DEF RunInv
<1>2. RunInv /\ [Next]_vars => RunInv'
  BY NextCoreInv, NextRunTypes, NextFixtureInv, NextHeapInv, NextFilesInv DEF RunInv
<1> QED
  BY <1>1, <1>2, PTL DEF Spec

\* Whatever the plan, the command line and the failures of malloc, PAPI and the measured
\* code: no block and no fixture outlives its benchmark (chayai_benchmarker.c:73-136), a
\* running counter does only when PAPI_stop failed (chayai_papi.c:22), no counter is freed that was not allocated, and an
\* orderly end leaves neither file nor directory (chayai_util.c:13-41).
THEOREM NothingIsKept == Spec => []NothingKept
<1>1. RunInv => NothingKept
  <2> SUFFICES ASSUME RunInv PROVE NothingKept
    OBVIOUS
  <2>1. pc \in {"next", "cleanup"} => heap = {} /\ fixtures = 0 /\ (papi.counting => papi.stuck)
    BY DEF RunInv, HeapInv, FixtureInv, InLoop
  <2>2. ASSUME pc = "report", arguments.papiEvents > 0
        PROVE  heap \ {<<"singleRuns", 0>>} = Freed(result.runs) \ {<<"singleRuns", 0>>}
    <3>1. result.runs \in Nat /\ arguments.papiEvents \in Int
      BY DEF RunInv, CoreInv, Results, Arguments, PapiNull
    <3>2. heap \ {Results0} = Kept(result.runs)
      BY <2>2, <3>1 DEF RunInv, HeapInv, InLoop, Expected
    <3>3. Freed(result.runs) = Kept(result.runs) \cup {Results0} /\ Results0 \notin Kept(result.runs)
      BY <3>1, KeptFacts
    <3> QED
      BY <3>2, <3>3 DEF Results0
  <2>3. (pc = "ended" /\ status # "crash") => dir \in {"none", "removed"} /\ ~file
    BY DEF RunInv, FilesInv
  <2> QED
    BY <2>1, <2>2, <2>3 DEF NothingKept
<1> QED
  BY <1>1, RunInvHolds, PTL

\* A plan whose last benchmark was registered before is never reported
\* (chayai_benchmarker.c:24-49): for every plan, however long the circle.
THEOREM RepeatsAreNeverReported == Spec => []RepeatsNeverReport
<1>1. Init => Linked /\ RepeatsInv
  BY InitRepeats
<1>2. RunInv => CoreInv /\ ListInv
  BY DEF RunInv, CoreInv
<1>3. RunInv /\ Linked /\ RepeatsInv /\ [Next]_vars => (Linked /\ RepeatsInv)'
  BY <1>2, NextLinked, NextRepeats
<1>4. RepeatsInv => RepeatsNeverReport
  BY DEF RepeatsInv, RepeatsNeverReport
<1> QED
  BY <1>1, <1>3, <1>4, RunInvHolds, PTL DEF Spec

-----------------------------------------------------------------------------
(* Sums.                                                                   *)

\* f[i] is the sum of the first i numbers.
Sums(f, numbers) ==
  f = [i \in 0 .. Len(numbers) |-> IF i = 0 THEN 0 ELSE f[i - 1] + numbers[i]]

LEMMA SumUnique ==
  ASSUME NEW s, NEW t, Len(s) \in Nat, Len(t) \in Nat, Len(s) =< Len(t),
         \A i \in 1 .. Len(s) : s[i] = t[i],
         NEW f, NEW g, Sums(f, s), Sums(g, t)
  PROVE  \A i \in 0 .. Len(s) : f[i] = g[i]
<1> DEFINE P == {i \in Nat : i \in 0 .. Len(s) => f[i] = g[i]}
<1>1. 0 \in P
  BY DEF Sums
<1>2. ASSUME NEW i \in Nat, i \in P PROVE i + 1 \in P
  <2> SUFFICES ASSUME i + 1 \in 0 .. Len(s) PROVE f[i + 1] = g[i + 1]
    OBVIOUS
  <2>1. f[i] = g[i] /\ s[i + 1] = t[i + 1]
    BY <1>2
  <2>2. f[i + 1] = f[i] + s[i + 1] /\ g[i + 1] = g[i] + t[i + 1]
    BY DEF Sums
  <2> QED
    BY <2>1, <2>2
<1>3. Nat \subseteq P
  <2> HIDE DEF P
  <2> QED
    BY <1>1, <1>2, Induction
<1> QED
  BY <1>3

LEMMA SumReached ==
  ASSUME NEW s \in Seq(Int)
  PROVE  \E f \in [0 .. Len(s) -> Int] : Sums(f, s) /\ SumOf(s) = f[Len(s)]
<1>1. Len(s) \in Nat /\ \A i \in 1 .. Len(s) : s[i] \in Int
  BY LenProperties
<1> DEFINE adding == [x \in (1 .. Len(s)) \X Int |-> x[2] + s[x[1]]]
<1>2. adding \in [(1 .. Len(s)) \X Int -> Int]
  BY <1>1
<1>3. PICK f \in [0 .. Len(s) -> Int] : Recurs(f, Len(s), 0, adding)
  <2>1. 0 \in Int
    OBVIOUS
  <2> HIDE DEF adding
  <2> QED
    BY <1>1, <1>2, <2>1, RecursionExists
<1>4. Sums(f, s)
  <2>1. f = [i \in 0 .. Len(s) |-> f[i]]
    OBVIOUS
  <2>2. ASSUME NEW i \in 0 .. Len(s) PROVE f[i] = IF i = 0 THEN 0 ELSE f[i - 1] + s[i]
    <3>1. f[i] = IF i = 0 THEN 0 ELSE adding[<<i, f[i - 1]>>]
      BY <1>3 DEF Recurs
    <3>2. i # 0 => f[i - 1] \in Int /\ i \in 1 .. Len(s)
      BY <1>1
    <3>3. i # 0 => adding[<<i, f[i - 1]>>] = f[i - 1] + s[i]
      BY <3>2
    <3> HIDE DEF adding
    <3> QED
      BY <3>1, <3>3
  <2> QED
    BY <2>1, <2>2 DEF Sums
<1> DEFINE g == CHOOSE g : Sums(g, s)
<1>5. Sums(g, s)
  BY <1>4
<1>6. SumOf(s) = g[Len(s)]
  BY DEF SumOf, Sums
<1> HIDE DEF g
<1>7. g[Len(s)] = f[Len(s)]
  BY <1>1, <1>4, <1>5, SumUnique
<1> QED
  BY <1>4, <1>6, <1>7

LEMMA SumOfEmpty == SumOf(<<>>) = 0
<1>1. <<>> \in Seq(Int) /\ Len(<<>>) = 0
  OBVIOUS
<1>2. PICK f \in [0 .. 0 -> Int] : Sums(f, <<>>) /\ SumOf(<<>>) = f[0]
  BY <1>1, SumReached
<1> QED
  BY <1>1, <1>2 DEF Sums

LEMMA SumOfAppend ==
  ASSUME NEW s \in Seq(Int), NEW x \in Int
  PROVE  SumOf(s) \in Int /\ SumOf(Append(s, x)) = SumOf(s) + x
<1> DEFINE t == Append(s, x)
<1>1. /\ t \in Seq(Int) /\ Len(s) \in Nat /\ Len(t) = Len(s) + 1
      /\ \A i \in 1 .. Len(s) : t[i] = s[i]
      /\ t[Len(s) + 1] = x
  BY LenProperties, AppendProperties
<1> HIDE DEF t
<1>2. PICK f \in [0 .. Len(s) -> Int] : Sums(f, s) /\ SumOf(s) = f[Len(s)]
  BY SumReached
<1>3. PICK g \in [0 .. Len(t) -> Int] : Sums(g, t) /\ SumOf(t) = g[Len(t)]
  BY <1>1, SumReached
<1>4. f[Len(s)] = g[Len(s)]
  <2>1. \A i \in 0 .. Len(s) : f[i] = g[i]
    BY <1>1, <1>2, <1>3, SumUnique
  <2> QED
    BY <1>1, <2>1
<1>5. g[Len(t)] = g[Len(s)] + x
  BY <1>1, <1>3 DEF Sums
<1> QED
  BY <1>1, <1>2, <1>3, <1>4, <1>5 DEF t

-----------------------------------------------------------------------------
(* What a run measures.                                                    *)

Truths == [time : Nat, bodies : Nat, counted : BOOLEAN, stale : BOOLEAN]

\* The time and the counters that belong to what happened in a run.
Belongs(one, true) ==
  /\ one.time = true.time
  /\ ~true.stale => one.papiCounters = IF ~Asking THEN NoCounters
                                       ELSE IF true.counted THEN true.bodies ELSE 0

Times(r) == [i \in 1 .. Len(r.singleRuns) |-> r.singleRuns[i].time]

\* Total, minimum and maximum of the runs so far; before the first, the limits of int64_t.
SummarizedBy(r, times) ==
  /\ r.timeTotal = SumOf(times)
  /\ \A i \in 1 .. Len(times) : r.timeRunMin =< times[i] /\ times[i] =< r.timeRunMax
  /\ times = <<>> => r.timeRunMin = INT64_MAX /\ r.timeRunMax = -INT64_MAX - 1
  /\ times # <<>> => \E i, j \in 1 .. Len(times) : r.timeRunMin = times[i] /\ r.timeRunMax = times[j]

\* The runs a benchmark has had.
ResultInv ==
  InLoop =>
    /\ truth \in Seq(Truths)
    /\ phase = "warmup" => truth = <<>> /\ result.singleRuns = <<>>
    /\ phase = "measure" => /\ Len(truth) = IF pc = "run" THEN k + 1 ELSE k
                            /\ Len(result.singleRuns) = k
    /\ \A i \in 1 .. Len(result.singleRuns) :
         Belongs(result.singleRuns[i], truth[i]) /\ truth[i].bodies = Macro[cursor].iterations
    /\ SummarizedBy(result, Times(result))

\* How far the run function is, the same with and without a fixture: papi_start is 1,
\* papi_reset 2, start 3, body 4, end 5, papi_stop 6; tear_down and duration come after.
Position == IF WithFixture(cursor) THEN step - 1 ELSE step

Longest == CHOOSE t \in Ticks : /\ \A u \in Ticks : u =< t
                                /\ \A d \in Benchmarks : Macro[d].iterations * t =< INT64_MAX

\* The measured run at hand.
OneRunInv ==
  (pc = "run" /\ phase = "measure") =>
    LET true == truth[k + 1] IN
      /\ iterations + true.bodies = Macro[cursor].iterations
      /\ true.time =< true.bodies * Longest
      /\ Position < 4 => true.time = 0 /\ true.bodies = 0
      /\ Position > 4 => iterations = 0
      /\ Position \in 4 .. 5 => now = Nanoseconds(startTime) + true.time
      /\ Position > 5 => Nanoseconds(endTime) - Nanoseconds(startTime) = true.time
      /\ Position > 1 /\ true.counted => Asking
      /\ Position \in 2 .. 6 => papi.counting = true.counted
      /\ Position = 2 /\ papi.counting /\ ~papi.stuck => papi.count = 0
      /\ Position \in 3 .. 6 /\ papi.counting /\ ~true.stale => papi.count = true.bodies
      /\ Position < 7 => papiCounters = IF Asking THEN 0 ELSE NoCounters
      /\ Position > 6 /\ ~true.stale => papiCounters = IF ~Asking THEN NoCounters
                                        ELSE IF true.counted THEN true.bodies ELSE 0

LEMMA LongestTypes ==
  /\ Longest \in Nat /\ \A t \in Ticks : t \in Nat /\ t =< Longest
  /\ \A d \in Benchmarks : Macro[d].iterations * Longest =< INT64_MAX
<1>1. /\ Longest \in Ticks /\ \A t \in Ticks : t =< Longest
      /\ \A d \in Benchmarks : Macro[d].iterations * Longest =< INT64_MAX
  BY TicksAssumption DEF Longest
<1> QED
  BY <1>1, TicksAssumption

LEMMA DescriptorIterations ==
  ASSUME NEW d \in Benchmarks
  PROVE  descriptor(d).iterations = Macro[d].iterations /\ Macro[d].iterations \in Nat
<1>1. Macro[d].kind \in Kinds /\ Macro[d].iterations \in Nat
  BY MacroAssumption
<1>2. descriptor(d) \in {Descriptor(d, FALSE), Descriptor(d, Macro[d].quotes)}
  BY <1>1 DEF descriptor, Kinds, BENCHMARK_descriptor, BENCHMARK_P_descriptor,
             BENCHMARK_F_descriptor, BENCHMARK_P_F_descriptor
<1> QED
  BY <1>1, <1>2 DEF Descriptor

\* Where the steps of the run function are.
LEMMA Where ==
  ASSUME CoreInv, FixtureInv
  PROVE  /\ pc = "run" => Position \in Nat
         /\ At("set_up") => Position = 0
         /\ At("papi_start") => Position = 1
         /\ At("papi_reset") => Position = 2
         /\ At("start") => Position = 3
         /\ At("body") => Position = 4
         /\ At("end") => Position = 5
         /\ At("papi_stop") => Position = 6
         /\ At("tear_down") => Position = 7
         /\ At("duration") => Position > 6
<1> SUFFICES ASSUME pc = "run"
             PROVE  /\ Position \in Nat
                    /\ At("set_up") => Position = 0
                    /\ At("papi_start") => Position = 1
                    /\ At("papi_reset") => Position = 2
                    /\ At("start") => Position = 3
                    /\ At("body") => Position = 4
                    /\ At("end") => Position = 5
                    /\ At("papi_stop") => Position = 6
                    /\ At("tear_down") => Position = 7
                    /\ At("duration") => Position > 6
  BY DEF At
<1>1. CASE WithFixture(cursor)
  <2>1. step \in 1 .. 9 /\ RunFunction(cursor)[step] = BENCHMARK_F_run[step]
    BY <1>1, AtPosition
  <2> QED
    BY <1>1, <2>1 DEF At, Position, BENCHMARK_F_run
<1>2. CASE ~WithFixture(cursor)
  <2>1. step \in 1 .. 7 /\ RunFunction(cursor)[step] = BENCHMARK_run[step]
    BY <1>2, AtPosition
  <2> QED
    BY <1>2, <2>1 DEF At, Position, BENCHMARK_run
<1> QED
  BY <1>1, <1>2

LEMMA StuckAsks == FixtureInv /\ papi.counting => Asking
BY DEF FixtureInv, CountingInv

\* The fixture and PAPI, by position.
LEMMA CountingPositions ==
  ASSUME CoreInv, FixtureInv, pc = "run", papi.counting, ~papi.stuck
  PROVE  Position \in 2 .. 6
BY AtPosition DEF FixtureInv, MayCount, Position

LEMMA LastTruth ==
  ASSUME NEW s \in Seq(Truths), NEW n \in Nat, Len(s) = n + 1, NEW x \in Truths
  PROVE  /\ [s EXCEPT ![Len(s)] = x] \in Seq(Truths)
         /\ Len([s EXCEPT ![Len(s)] = x]) = n + 1
         /\ [s EXCEPT ![Len(s)] = x][n + 1] = x
         /\ \A i \in 1 .. n : [s EXCEPT ![Len(s)] = x][i] = s[i]
<1>1. n + 1 \in 1 .. Len(s) /\ DOMAIN s = 1 .. Len(s)
  BY LenProperties
<1> QED
  BY <1>1, ExceptSeq

\* What a run adds to the totals.
LEMMA TotalsSummarize ==
  ASSUME NEW r \in Results, NEW times \in Seq(Int), SummarizedBy(r, times),
         NEW t \in Nat, t =< INT64_MAX
  PROVE  SummarizedBy(Totals(r, t), Append(times, t))
<1> DEFINE new == Append(times, t)
           q == Totals(r, t)
<1>1. /\ new \in Seq(Int) /\ Len(times) \in Nat /\ Len(new) = Len(times) + 1
      /\ \A i \in 1 .. Len(times) : new[i] = times[i]
      /\ new[Len(times) + 1] = t
  BY LenProperties, AppendProperties
<1>2. \A i \in 1 .. Len(times) : times[i] \in Int
  BY LenProperties
<1>3. /\ r.timeTotal \in Int /\ r.timeRunMin \in Int /\ r.timeRunMax \in Int /\ INT64_MAX \in Nat
  BY TicksAssumption DEF Results
<1>4. /\ q.timeTotal = r.timeTotal + t
      /\ q.timeRunMin = IF r.timeRunMin > t THEN t ELSE r.timeRunMin
      /\ q.timeRunMax = IF r.timeRunMax < t THEN t ELSE r.timeRunMax
  BY DEF Totals, Results
<1>5. q.timeTotal = SumOf(new)
  BY <1>4, SumOfAppend DEF SummarizedBy
<1> HIDE DEF new, q
<1>6. times = <<>> => Len(times) = 0
  OBVIOUS
<1>7. \A i \in 1 .. Len(new) : i \in 1 .. Len(times) \/ i = Len(times) + 1
  BY <1>1
<1>8. \A i \in 1 .. Len(times) : r.timeRunMin =< times[i] /\ times[i] =< r.timeRunMax
  BY DEF SummarizedBy
<1>9. q.timeRunMin =< t /\ t =< q.timeRunMax /\ q.timeRunMin =< r.timeRunMin /\ r.timeRunMax =< q.timeRunMax
      /\ q.timeRunMin \in Int /\ q.timeRunMax \in Int
  BY <1>3, <1>4
<1>10. ASSUME NEW i \in 1 .. Len(new) PROVE q.timeRunMin =< new[i] /\ new[i] =< q.timeRunMax
  <2>1. CASE i = Len(times) + 1
    BY <1>1, <1>9, <2>1
  <2>2. CASE i \in 1 .. Len(times)
    <3>1. new[i] = times[i] /\ times[i] \in Int
          /\ r.timeRunMin =< times[i] /\ times[i] =< r.timeRunMax
      BY <1>1, <1>2, <1>8, <2>2
    <3> QED
      BY <1>3, <1>9, <3>1
  <2> QED
    BY <1>7, <2>1, <2>2
<1>11. \E i, j \in 1 .. Len(new) : q.timeRunMin = new[i] /\ q.timeRunMax = new[j]
  <2>1. Len(new) \in 1 .. Len(new) /\ new[Len(new)] = t
    BY <1>1
  <2>2. CASE times = <<>>
    <3>1. q.timeRunMin = t /\ q.timeRunMax = t
      BY <1>3, <1>4, <2>2 DEF SummarizedBy
    <3> QED
      BY <2>1, <3>1
  <2>3. CASE times # <<>>
    <3>1. PICK i \in 1 .. Len(times), j \in 1 .. Len(times) :
            r.timeRunMin = times[i] /\ r.timeRunMax = times[j]
      BY <2>3 DEF SummarizedBy
    <3>2. i \in 1 .. Len(new) /\ j \in 1 .. Len(new) /\ new[i] = times[i] /\ new[j] = times[j]
      BY <1>1
    <3>3. q.timeRunMin \in {t, new[i]} /\ q.timeRunMax \in {t, new[j]}
      BY <1>4, <3>1, <3>2
    <3> QED
      BY <2>1, <3>2, <3>3
  <2> QED
    BY <2>2, <2>3
<1>12. new # <<>>
  BY <1>1
<1> QED
  BY <1>5, <1>10, <1>11, <1>12 DEF SummarizedBy, new, q

LEMMA InitResultInv == Init => ResultInv /\ OneRunInv
BY DEF Init, ResultInv, OneRunInv, InLoop

\* What ResultInv is about.
measured == <<pc, phase, k, arguments, cursor, result, truth>>

\* A step that may change the last entry of truth, or append one, for the run at hand.
LEMMA EarlierRuns ==
  ASSUME HeapInv, ResultInv, InLoop,
         truth' \in Seq(Truths), UNCHANGED <<arguments, cursor, result, phase>>,
         phase' = "warmup" => truth' = <<>>,
         phase' = "measure" => Len(truth') = IF pc' = "run" THEN k' + 1 ELSE k',
         k' = k,
         \A i \in 1 .. k : phase = "measure" => truth'[i] = truth[i]
  PROVE  ResultInv'
<1>1. /\ phase = "warmup" => result.singleRuns = <<>>
      /\ phase = "measure" => Len(result.singleRuns) = k
      /\ \A i \in 1 .. Len(result.singleRuns) :
           Belongs(result.singleRuns[i], truth[i]) /\ truth[i].bodies = Macro[cursor].iterations
      /\ SummarizedBy(result, Times(result))
  BY DEF ResultInv
<1>2. SummarizedBy(result, Times(result))'
  <2>1. result' = result
    OBVIOUS
  <2> QED
    BY <1>1, <2>1
<1>3. ASSUME NEW i \in 1 .. Len(result.singleRuns) PROVE truth'[i] = truth[i]
  <2>1. phase = "measure"
    BY <1>1 DEF HeapInv
  <2> QED
    BY <1>1, <2>1
<1>4. ASSUME NEW i \in 1 .. Len(result'.singleRuns)
      PROVE  Belongs(result.singleRuns[i], truth[i])' /\ truth'[i].bodies = Macro[cursor'].iterations
  BY <1>1, <1>3 DEF Belongs, Asking
<1> QED
  BY <1>1, <1>2, <1>4 DEF ResultInv

\* A run that is over, with its time and its counters.
LEMMA RunIsRecorded ==
  ASSUME CoreInv, RunTypes, FixtureInv, ResultInv, OneRunInv, phase = "measure", pc = "run",
         Position > 6
  PROVE  /\ Belongs(singleRun, truth[k + 1]) /\ truth[k + 1].bodies = Macro[cursor].iterations
         /\ singleRun.time \in Nat /\ singleRun.time =< INT64_MAX
<1> DEFINE true == truth[k + 1]
<1>0. cursor \in Benchmarks /\ k \in Nat /\ k + 1 \in 1 .. Len(truth) /\ truth \in Seq(Truths)
  BY DEF CoreInv, InLoop, ResultInv
<1>1. true \in Truths /\ Macro[cursor].iterations \in Nat
  BY <1>0, DescriptorIterations
<1>2. true.time \in Nat /\ true.bodies \in Nat
  BY <1>1 DEF Truths
<1>3. /\ iterations + true.bodies = Macro[cursor].iterations
      /\ true.time =< true.bodies * Longest
      /\ Position > 4 => iterations = 0
      /\ Position > 5 => Nanoseconds(endTime) - Nanoseconds(startTime) = true.time
      /\ Position > 6 /\ ~true.stale => papiCounters = IF ~Asking THEN NoCounters
                                        ELSE IF true.counted THEN true.bodies ELSE 0
  BY DEF OneRunInv
<1>4. iterations = 0 /\ Nanoseconds(endTime) - Nanoseconds(startTime) = true.time
  BY <1>3, Where
<1>5. true.bodies = Macro[cursor].iterations
  BY <1>1, <1>2, <1>3, <1>4
<1>6. singleRun.time = true.time
  <2>1. \A s, e \in TimeSpec : duration_clock_gettime(s, e) = Nanoseconds(e) - Nanoseconds(s)
    BY DurationIsExact
  <2>2. singleRun.time = Nanoseconds(endTime) - Nanoseconds(startTime)
    BY <2>1 DEF singleRun, chayai_clock_duration, RunTypes
  <2> QED
    BY <1>4, <2>2
<1>7. singleRun.papiCounters = papiCounters
  BY DEF singleRun
<1>8. true.time =< INT64_MAX
  <2>1. true.bodies * Longest =< INT64_MAX
    BY <1>0, <1>5, LongestTypes
  <2>2. true.bodies * Longest \in Int /\ INT64_MAX \in Int
    BY <1>2, LongestTypes, TicksAssumption
  <2> QED
    BY <1>2, <1>3, <2>1, <2>2
<1> QED
  BY <1>2, <1>3, <1>5, <1>6, <1>7, <1>8 DEF Belongs

\* What the steps of the run function do with the history of the run at hand.
LEMMA TruthInRun ==
  ASSUME CoreInv, RunTypes, FixtureInv, HeapInv, ResultInv, Run, pc = "run", pc' = "run",
         phase = "measure"
  PROVE  /\ truth' \in Seq(Truths) /\ Len(truth') = k + 1
         /\ \A i \in 1 .. k : truth'[i] = truth[i]
         /\ UNCHANGED <<arguments, cursor, result, phase, k>>
<1>1. truth \in Seq(Truths) /\ k \in Nat /\ Len(truth) = k + 1 /\ papi \in EventSets
  BY DEF ResultInv, InLoop, CoreInv, RunTypes
<1>2. truth[k + 1] \in Truths
  <2>1. k + 1 \in 1 .. Len(truth)
    BY <1>1
  <2> QED
    BY <1>1, <2>1
<1>3. CASE chayai_papi_start
  <2> DEFINE x == [truth[k + 1] EXCEPT !.counted = papi'.counting]
  <2>1. papi'.counting \in BOOLEAN
    <3>1. papi' \in EventSets
      BY <1>1, <1>3, EventSetTypes DEF chayai_papi_start
    <3> QED
      BY <3>1 DEF EventSets
  <2>2. x \in Truths
    BY <1>2, <2>1 DEF Truths
  <2>3. truth' = [truth EXCEPT ![Len(truth)] = x]
    BY <1>1, <1>3 DEF chayai_papi_start
  <2> HIDE DEF x
  <2> QED
    BY <1>1, <1>3, <2>2, <2>3, LastTruth DEF chayai_papi_start, Proceed
<1>4. CASE Body
  <2>1. PICK t \in Ticks :
          truth' = [truth EXCEPT ![Len(truth)].time = @ + t, ![Len(truth)].bodies = @ + 1]
    BY <1>4 DEF Body
  <2> DEFINE y == [truth[k + 1] EXCEPT !.time = @ + t]
             x == [y EXCEPT !.bodies = @ + 1]
             s == [truth EXCEPT ![Len(truth)] = y]
  <2>2. y \in Truths
    BY <1>2, TicksAssumption DEF Truths
  <2>3. x \in Truths
    <3> HIDE DEF y
    <3> QED
      BY <2>2 DEF Truths
  <2> HIDE DEF x, y
  <2>4. s \in Seq(Truths) /\ Len(s) = k + 1 /\ s[k + 1] = y /\ \A i \in 1 .. k : s[i] = truth[i]
    BY <1>1, <2>2, LastTruth
  <2>5. truth' = [s EXCEPT ![Len(s)] = x]
    BY <1>1, <2>1, <2>4 DEF x, y
  <2> HIDE DEF s
  <2> QED
    BY <1>1, <1>4, <2>3, <2>4, <2>5, LastTruth DEF Body
<1>5. CASE SetUp \/ StartTime \/ BodiesDone \/ EndTime \/ TearDown
  BY <1>1, <1>5 DEF SetUp, StartTime, BodiesDone, EndTime, TearDown, Proceed
<1>6. CASE chayai_papi_read_counters
  <2> DEFINE b == (papi.stuck /\ papi'.count # 0)
             x == [truth[k + 1] EXCEPT !.stale = b]
  <2>1. b \in BOOLEAN
    BY <1>1 DEF EventSets
  <2> HIDE DEF b
  <2>2. x \in Truths
    BY <1>2, <2>1 DEF Truths
  <2>3. truth' = [truth EXCEPT ![Len(truth)] = x]
    BY <1>1, <1>6 DEF chayai_papi_read_counters, b
  <2> HIDE DEF x
  <2> QED
    BY <1>1, <1>6, <2>2, <2>3, LastTruth DEF chayai_papi_read_counters, Proceed
<1>7. CASE chayai_papi_stop_counters
  <2> DEFINE x == [truth[k + 1] EXCEPT !.counted = FALSE]
  <2>1. x \in Truths
    BY <1>2 DEF Truths
  <2>2. truth' = truth \/ truth' = [truth EXCEPT ![Len(truth)] = x]
    BY <1>1, <1>7 DEF chayai_papi_stop_counters
  <2>3. UNCHANGED <<arguments, cursor, result, phase, k>>
    BY <1>7 DEF chayai_papi_stop_counters, Proceed
  <2> HIDE DEF x
  <2>4. CASE truth' = truth
    BY <1>1, <2>3, <2>4
  <2>5. CASE truth' = [truth EXCEPT ![Len(truth)] = x]
    BY <1>1, <2>1, <2>3, <2>5, LastTruth
  <2> QED
    BY <2>2, <2>4, <2>5
<1>8. ~BodyFails /\ ~WarmupReturns /\ ~MeasuredReturns
  BY DEF BodyFails, WarmupReturns, MeasuredReturns, Goto, Crash, Exit
<1> QED
  BY <1>3, <1>4, <1>5, <1>8, <1>6, <1>7 DEF Run

\* A warmup run leaves no trace.
LEMMA WarmupInRun ==
  ASSUME Run, pc = "run", pc' = "run", phase = "warmup"
  PROVE  UNCHANGED <<arguments, cursor, result, phase, k, truth>>
BY DEF Run, SetUp, chayai_papi_start, chayai_papi_read_counters, StartTime, Body, BodiesDone, EndTime,
   chayai_papi_stop_counters, TearDown, BodyFails, WarmupReturns, MeasuredReturns, Proceed, Goto,
   Crash, Exit

LEMMA NewTruth ==
  ASSUME NEW s \in Seq(Truths)
  PROVE  LET t == Append(s, [time |-> 0, bodies |-> 0, counted |-> FALSE, stale |-> FALSE]) IN
           /\ t \in Seq(Truths) /\ Len(t) = Len(s) + 1 /\ Len(s) \in Nat
           /\ t[Len(s) + 1] = [time |-> 0, bodies |-> 0, counted |-> FALSE, stale |-> FALSE]
           /\ \A i \in 1 .. Len(s) : t[i] = s[i]
<1>1. [time |-> 0, bodies |-> 0, counted |-> FALSE, stale |-> FALSE] \in Truths
  BY DEF Truths
<1> QED
  BY <1>1, LenProperties, AppendProperties

LEMMA NextResultInv ==
  /\ CoreInv /\ RunTypes /\ FixtureInv /\ HeapInv /\ ResultInv /\ OneRunInv
  /\ [Next]_vars
  => ResultInv'
<1> SUFFICES ASSUME CoreInv, RunTypes, FixtureInv, HeapInv, ResultInv, OneRunInv, [Next]_vars,
                    InLoop'
             PROVE  ResultInv'
  BY DEF ResultInv
<1>1. CASE UNCHANGED measured
  <2>1. InLoop /\ Times(result)' = Times(result) /\ result' = result /\ truth' = truth
        /\ UNCHANGED <<pc, phase, k, arguments, cursor>>
    BY <1>1 DEF measured, InLoop, Times
  <2>2. SummarizedBy(result, Times(result))'
    BY <2>1 DEF ResultInv
  <2>3. \A i \in 1 .. Len(result.singleRuns) : Belongs(result.singleRuns[i], truth[i])'
                                                 <=> Belongs(result.singleRuns[i], truth[i])
    BY <2>1 DEF Belongs, Asking
  <2> QED
    BY <2>1, <2>2, <2>3 DEF ResultInv
<1>2. CASE Main \/ Setup
  BY <1>2 DEF Main, Setup, Register, AllRegistered, GetTmpDir, AtExitCleanup, ParseWord, ParsingEnds,
              SetOutputter, SetWarmup, Begin, Goto, Crash, Exit, InLoop
<1>3. CASE NextBenchmark
  <2>1. truth' = <<>> /\ result'.singleRuns = <<>> /\ phase' = "warmup" /\ pc' = "loop"
    BY <1>3 DEF NextBenchmark, NoResult, Goto
  <2>2. result'.timeTotal = 0 /\ result'.timeRunMin = INT64_MAX /\ result'.timeRunMax = -INT64_MAX - 1
    BY <1>3 DEF NextBenchmark, NoResult
  <2>3. Times(result') = <<>> /\ Len(<<>>) = 0
    BY <2>1 DEF Times
  <2>4. SummarizedBy(result', <<>>)
    BY <2>2, <2>3, SumOfEmpty DEF SummarizedBy
  <2>5. <<>> \in Seq(Truths)
    OBVIOUS
  <2> QED
    BY <2>1, <2>3, <2>4, <2>5 DEF ResultInv
<1>4. CASE WarmupRun
  <2>1. /\ InLoop /\ UNCHANGED <<truth, arguments, cursor, result, phase, k>> /\ phase = "warmup"
    BY <1>4 DEF WarmupRun, Enter, InLoop
  <2> QED
    BY <2>1, EarlierRuns DEF ResultInv, CoreInv
<1>5. CASE WarmupDone
  <2>1. /\ InLoop /\ UNCHANGED <<pc, truth, arguments, cursor, result>> /\ pc = "loop"
        /\ phase = "warmup" /\ phase' = "measure" /\ k' = 0
    BY <1>5 DEF WarmupDone, InLoop
  <2>2. truth = <<>> /\ result.singleRuns = <<>> /\ Len(<<>>) = 0
    BY <2>1 DEF ResultInv
  <2>3. SummarizedBy(result, Times(result))'
    <3>1. result' = result
      BY <2>1
    <3> QED
      BY <2>1, <3>1 DEF ResultInv
  <2> QED
    BY <2>1, <2>2, <2>3 DEF ResultInv
<1>6. CASE MeasuredRun
  <2>1. /\ InLoop /\ UNCHANGED <<arguments, cursor, result, phase, k>> /\ pc = "loop" /\ pc' = "run"
        /\ phase = "measure"
        /\ truth' = Append(truth, [time |-> 0, bodies |-> 0, counted |-> FALSE, stale |-> FALSE])
    BY <1>6 DEF MeasuredRun, Enter, InLoop, Goto, Crash, loops
  <2>2. truth \in Seq(Truths) /\ Len(truth) = k
    BY <2>1 DEF ResultInv
  <2>3. /\ truth' \in Seq(Truths) /\ Len(truth') = k + 1
        /\ \A i \in 1 .. k : truth'[i] = truth[i]
    BY <2>1, <2>2, NewTruth
  <2> QED
    BY <2>1, <2>3, EarlierRuns
<1>7. CASE Run /\ pc' = "run"
  <2>1. pc = "run"
    BY <1>7 DEF Run, SetUp, chayai_papi_start, chayai_papi_read_counters, StartTime, Body, BodiesDone,
       EndTime, chayai_papi_stop_counters, TearDown, BodyFails, WarmupReturns, MeasuredReturns, At
  <2>2. InLoop /\ phase \in {"warmup", "measure"}
    BY <2>1 DEF HeapInv, InLoop
  <2>3. CASE phase = "measure"
    <3>1. /\ truth' \in Seq(Truths) /\ Len(truth') = k + 1
          /\ \A i \in 1 .. k : truth'[i] = truth[i]
          /\ UNCHANGED <<arguments, cursor, result, phase, k>>
      BY <1>7, <2>1, <2>3, TruthInRun
    <3> QED
      BY <1>7, <2>2, <2>3, <3>1, EarlierRuns
  <2>4. CASE phase = "warmup"
    <3>1. UNCHANGED <<arguments, cursor, result, phase, k, truth>>
      BY <1>7, <2>1, <2>4, WarmupInRun
    <3> QED
      BY <2>2, <2>4, <3>1, EarlierRuns DEF ResultInv
  <2> QED
    BY <2>2, <2>3, <2>4
<1>8. CASE Run /\ pc' # "run"
  <2>1. (WarmupReturns \/ MeasuredReturns) /\ pc' = "loop"
    BY <1>8 DEF Run, SetUp, chayai_papi_start, chayai_papi_read_counters, StartTime, Body, BodiesDone,
       EndTime, chayai_papi_stop_counters, TearDown, BodyFails, WarmupReturns, MeasuredReturns, At,
       Proceed, InLoop, Goto, Crash, Exit
  <2>2. CASE WarmupReturns
    <3>1. /\ pc = "run" /\ pc' = "loop" /\ phase = "warmup"
          /\ UNCHANGED <<arguments, cursor, result, phase, truth>>
      BY <2>2 DEF WarmupReturns, At, Leave, Goto
    <3>2. SummarizedBy(result, Times(result))'
      <4>1. result' = result
        BY <3>1
      <4> QED
        BY <3>1, <4>1 DEF ResultInv, InLoop
    <3>3. truth = <<>> /\ result.singleRuns = <<>> /\ Len(<<>>) = 0
      BY <3>1 DEF ResultInv, InLoop
    <3> QED
      BY <3>1, <3>2, <3>3 DEF ResultInv
  <2>3. CASE MeasuredReturns
    <3> DEFINE r == Totals(result, singleRun.time)
               n == Len(result.singleRuns)
    <3>1. /\ pc = "run" /\ phase = "measure" /\ At("duration")
          /\ UNCHANGED <<arguments, cursor, phase, truth>> /\ k' = k + 1
          /\ result' = [r EXCEPT !.singleRuns = Append(@, singleRun)]
      BY <2>1, <2>3 DEF MeasuredReturns, At, Leave, Goto, Crash
    <3>2. /\ truth \in Seq(Truths) /\ Len(truth) = k + 1 /\ n = k /\ k \in Nat
          /\ \A i \in 1 .. k : Belongs(result.singleRuns[i], truth[i])
                               /\ truth[i].bodies = Macro[cursor].iterations
          /\ SummarizedBy(result, Times(result))
      BY <3>1 DEF ResultInv, InLoop, CoreInv
    <3>3. /\ Belongs(singleRun, truth[k + 1]) /\ truth[k + 1].bodies = Macro[cursor].iterations
          /\ singleRun.time \in Nat /\ singleRun.time =< INT64_MAX
      BY <3>1, Where, RunIsRecorded
    <3>4. /\ result \in Results /\ r \in Results /\ singleRun \in SingleRuns
          /\ r.singleRuns = result.singleRuns
      <4>1. papiCounters \in Int
        BY DEF RunTypes
      <4>2. singleRun \in SingleRuns
        BY <3>3, <4>1 DEF singleRun, SingleRuns
      <4>3. result \in Results /\ singleRun.time \in Int
        BY <3>3 DEF CoreInv
      <4>4. r \in Results
        BY <4>3, ResultTypes
      <4>5. r.singleRuns = result.singleRuns
        BY <4>3 DEF Totals, Results
      <4> QED
        BY <4>2, <4>3, <4>4, <4>5
    <3>5. result.singleRuns \in Seq(SingleRuns)
      BY <3>4 DEF Results
    <3>6. /\ result'.singleRuns = Append(result.singleRuns, singleRun)
          /\ result'.timeTotal = r.timeTotal
          /\ result'.timeRunMin = r.timeRunMin /\ result'.timeRunMax = r.timeRunMax
      BY <3>1, <3>4 DEF Results
    <3> HIDE DEF r
    <3>7. /\ Len(result'.singleRuns) = k + 1
          /\ \A i \in 1 .. k : result'.singleRuns[i] = result.singleRuns[i]
          /\ result'.singleRuns[k + 1] = singleRun
      BY <3>2, <3>4, <3>5, <3>6, AppendProperties
    <3>8. Times(result) \in Seq(Int) /\ Len(Times(result)) = k
      <4>1. \A i \in 1 .. n : result.singleRuns[i] \in SingleRuns
        BY <3>5, LenProperties
      <4>2. \A i \in 1 .. n : result.singleRuns[i].time \in Int
        BY <4>1 DEF SingleRuns
      <4> QED
        BY <3>2, <4>2 DEF Times
    <3>9. Times(result') = Append(Times(result), singleRun.time)
      <4> DEFINE a == Append(Times(result), singleRun.time)
      <4>1. /\ a \in Seq(Int) /\ Len(a) = k + 1 /\ a[k + 1] = singleRun.time
            /\ \A i \in 1 .. k : a[i] = Times(result)[i]
        BY <3>3, <3>8, AppendProperties
      <4>2. \A i \in 1 .. k : Times(result)[i] = result.singleRuns[i].time
        BY <3>2 DEF Times
      <4>3. ASSUME NEW i \in 1 .. (k + 1) PROVE a[i] = result'.singleRuns[i].time
        <5>1. i \in 1 .. k \/ i = k + 1
          BY <3>2
        <5>2. i \in 1 .. k => a[i] = result'.singleRuns[i].time
          BY <3>7, <4>1, <4>2
        <5>3. i = k + 1 => a[i] = result'.singleRuns[i].time
          BY <3>7, <4>1
        <5> QED
          BY <5>1, <5>2, <5>3
      <4>4. a = [i \in 1 .. (k + 1) |-> a[i]]
        BY <4>1, LenProperties
      <4> HIDE DEF a
      <4>5. a = Times(result')
        BY <3>7, <4>3, <4>4 DEF Times
      <4> QED
        BY <4>5 DEF a
    <3>10. SummarizedBy(r, Append(Times(result), singleRun.time))
      BY <3>2, <3>3, <3>4, <3>8, TotalsSummarize DEF r
    <3>11. SummarizedBy(result', Times(result'))
      BY <3>6, <3>9, <3>10 DEF SummarizedBy
    <3>12. ASSUME NEW i \in 1 .. (k + 1)
           PROVE  Belongs(result.singleRuns[i], truth[i])' /\ truth'[i].bodies = Macro[cursor'].iterations
      <4>1. CASE i = k + 1
        BY <3>1, <3>3, <3>7, <4>1 DEF Belongs, Asking
      <4>2. CASE i \in 1 .. k
        BY <3>1, <3>2, <3>7, <4>2 DEF Belongs, Asking
      <4> QED
        BY <3>2, <4>1, <4>2
    <3> QED
      BY <2>1, <3>1, <3>2, <3>7, <3>11, <3>12 DEF ResultInv
  <2> QED
    BY <2>1, <2>2, <2>3
<1>9. CASE MeasureDone
  <2>1. /\ InLoop /\ pc = "loop" /\ pc' = "report"
        /\ UNCHANGED <<phase, k, arguments, cursor, result, truth>>
    BY <1>9 DEF MeasureDone, InLoop, Goto, loops
  <2> QED
    BY <2>1, EarlierRuns DEF ResultInv
<1>10. CASE EndBenchmark \/ End
  BY <1>10 DEF EndBenchmark, End, Goto, InLoop
<1>11. CASE Shutdown \/ Done \/ UNCHANGED vars
  <2>1. UNCHANGED measured \/ pc' \notin {"loop", "run", "report"}
    BY <1>11 DEF Shutdown, CleanupArguments, benchmark_cleanup, chayai_remove_tmp_dir, FlushStdout,
       Terminate, Done, vars, measured, loops, Goto, Exit
  <2> QED
    BY <1>1, <2>1 DEF InLoop
<1> QED
  BY <1>2, <1>3, <1>4, <1>5, <1>6, <1>7, <1>8, <1>9, <1>10, <1>11 DEF Next, Loop

\* Every step of the run function but the call of a body goes on to the next.
LEMMA NextPosition ==
  ASSUME CoreInv, FixtureInv, pc = "run", Proceed
  PROVE  Position' = Position + 1 /\ Position \in Nat
BY Where, AtPosition DEF Proceed, Position, WithFixture

LEMMA NextOneRunInv ==
  /\ CoreInv /\ RunTypes /\ FixtureInv /\ HeapInv /\ ResultInv /\ OneRunInv
  /\ [Next]_vars
  => OneRunInv'
<1> SUFFICES ASSUME CoreInv, RunTypes, FixtureInv, HeapInv, ResultInv, OneRunInv, [Next]_vars,
                    pc' = "run", phase' = "measure"
             PROVE  OneRunInv'
  BY DEF OneRunInv
<1> DEFINE true == truth[k + 1]
<1>1. CASE UNCHANGED <<pc, measured, step, running_>>
  BY <1>1 DEF measured, running_, OneRunInv, Position, WithFixture, Asking
<1>2. CASE Main \/ Setup \/ NextBenchmark \/ WarmupRun \/ WarmupDone \/ MeasureDone \/ EndBenchmark \/ End
  BY <1>2 DEF Main, Setup, Register, AllRegistered, GetTmpDir, AtExitCleanup, ParseWord, ParsingEnds,
              SetOutputter, SetWarmup, Begin, NextBenchmark, WarmupRun, WarmupDone, MeasureDone,
              EndBenchmark, End, Enter, Goto, Crash, Exit
<1>3. CASE MeasuredRun
  <2>1. /\ InLoop /\ UNCHANGED <<arguments, cursor, result, phase, k>> /\ pc = "loop"
        /\ phase = "measure" /\ cursor \in Benchmarks
        /\ truth' = Append(truth, [time |-> 0, bodies |-> 0, counted |-> FALSE, stale |-> FALSE])
        /\ step' = 1 /\ iterations' = descriptor(cursor).iterations
        /\ papiCounters' = IF Asking THEN 0 ELSE NoCounters
    <3>1. arguments.papiEvents \in Int
      BY DEF CoreInv, Arguments, PapiNull
    <3> QED
      BY <1>3, <3>1 DEF MeasuredRun, Enter, InLoop, Goto, Crash, loops, CoreInv, Asking
  <2>2. truth \in Seq(Truths) /\ Len(truth) = k /\ k \in Nat
    BY <2>1 DEF ResultInv, CoreInv
  <2>3. truth'[k + 1] = [time |-> 0, bodies |-> 0, counted |-> FALSE, stale |-> FALSE]
    BY <2>1, <2>2, NewTruth
  <2>4. iterations' = Macro[cursor].iterations /\ Macro[cursor].iterations \in Nat
    BY <2>1, DescriptorIterations
  <2>5. Position' \in {0, 1} /\ Longest \in Nat
    BY <2>1, LongestTypes DEF Position, WithFixture
  <2>6. 0 =< 0 * Longest
    BY <2>5
  <2>7. /\ iterations' + truth'[k + 1].bodies = Macro[cursor].iterations
        /\ truth'[k + 1].time = 0 /\ truth'[k + 1].bodies = 0 /\ ~truth'[k + 1].counted
    BY <2>3, <2>4
  <2>8. /\ ~(Position' > 1) /\ ~(Position' > 4) /\ ~(Position' > 5) /\ ~(Position' > 6)
        /\ Position' \notin 2 .. 6 /\ Position' \notin 3 .. 6 /\ Position' \notin 4 .. 5
        /\ Position' # 2
    BY <2>5
  <2>9. truth'[k + 1].time =< truth'[k + 1].bodies * Longest
    BY <2>6, <2>7
  <2>10. k' = k /\ cursor' = cursor /\ Asking' = Asking
    BY <2>1 DEF Asking
  <2> QED
    BY <2>1, <2>7, <2>8, <2>9, <2>10 DEF OneRunInv
<1>4. CASE Run
  <2>1. pc = "run"
    BY <1>4 DEF Run, SetUp, chayai_papi_start, chayai_papi_read_counters, StartTime, Body, BodiesDone,
       EndTime, chayai_papi_stop_counters, TearDown, BodyFails, WarmupReturns, MeasuredReturns, At
  <2>2. ~BodyFails /\ ~WarmupReturns /\ ~MeasuredReturns
    BY DEF BodyFails, WarmupReturns, MeasuredReturns, Goto, Crash, Exit
  <2>3. phase = "measure"
    <3>1. CASE phase = "warmup"
      BY <1>4, <2>1, <3>1, WarmupInRun
    <3> QED
      BY <2>1, <3>1 DEF HeapInv
  <2>4. /\ truth' \in Seq(Truths) /\ Len(truth') = k + 1
        /\ UNCHANGED <<arguments, cursor, result, phase, k>>
    BY <1>4, <2>1, <2>3, TruthInRun
  <2>5. /\ truth \in Seq(Truths) /\ k \in Nat /\ Len(truth) = k + 1 /\ papi \in EventSets
        /\ cursor \in Benchmarks
    BY <2>1, <2>3 DEF ResultInv, InLoop, CoreInv, RunTypes
  <2>6. true \in Truths
    <3>1. k + 1 \in 1 .. Len(truth)
      BY <2>5
    <3> QED
      BY <2>5, <3>1
  <2>7. true.time \in Nat /\ true.bodies \in Nat /\ true.counted \in BOOLEAN /\ true.stale \in BOOLEAN
    BY <2>6 DEF Truths
  <2>8. papi.counting \in BOOLEAN /\ papi.stuck \in BOOLEAN /\ papi.count \in Nat
    BY <2>5 DEF EventSets
  <2>9. /\ iterations + true.bodies = Macro[cursor].iterations
        /\ true.time =< true.bodies * Longest
        /\ Position < 4 => true.time = 0 /\ true.bodies = 0
        /\ Position > 4 => iterations = 0
        /\ Position \in 4 .. 5 => now = Nanoseconds(startTime) + true.time
        /\ Position > 5 => Nanoseconds(endTime) - Nanoseconds(startTime) = true.time
        /\ Position > 1 /\ true.counted => Asking
        /\ Position \in 2 .. 6 => papi.counting = true.counted
        /\ Position = 2 /\ papi.counting /\ ~papi.stuck => papi.count = 0
        /\ Position \in 3 .. 6 /\ papi.counting /\ ~true.stale => papi.count = true.bodies
        /\ Position < 7 => papiCounters = IF Asking THEN 0 ELSE NoCounters
        /\ Position > 6 /\ ~true.stale => papiCounters = IF ~Asking THEN NoCounters
                                          ELSE IF true.counted THEN true.bodies ELSE 0
    BY <2>1, <2>3 DEF OneRunInv
  <2>10. Proceed => Position' = Position + 1
    BY <2>1, NextPosition
  <2>11. Asking' = Asking /\ Position \in Nat
    BY <2>1, <2>4, Where DEF Asking
  <2> HIDE DEF true
  <2>12. SUFFICES ASSUME NEW new, new = truth'[k + 1]
                  PROVE  /\ iterations' + new.bodies = Macro[cursor].iterations
                         /\ new.time =< new.bodies * Longest
                         /\ Position' < 4 => new.time = 0 /\ new.bodies = 0
                         /\ Position' > 4 => iterations' = 0
                         /\ Position' \in 4 .. 5 => now' = Nanoseconds(startTime') + new.time
                         /\ Position' > 5 => Nanoseconds(endTime') - Nanoseconds(startTime') = new.time
                         /\ Position' > 1 /\ new.counted => Asking
                         /\ Position' \in 2 .. 6 => papi'.counting = new.counted
                         /\ Position' = 2 /\ papi'.counting /\ ~papi'.stuck => papi'.count = 0
                         /\ Position' \in 3 .. 6 /\ papi'.counting /\ ~new.stale => papi'.count = new.bodies
                         /\ Position' < 7 => papiCounters' = IF Asking THEN 0 ELSE NoCounters
                         /\ Position' > 6 /\ ~new.stale => papiCounters' = IF ~Asking THEN NoCounters
                                               ELSE IF new.counted THEN new.bodies ELSE 0
    BY <2>4, <2>11 DEF OneRunInv
  <2>13. CASE SetUp
    <3>1. At("set_up") /\ Proceed
      BY <2>13 DEF SetUp
    <3>2. Position = 0 /\ Position' = 1
      <4>1. Position = 0
        BY <2>1, <3>1, Where
      <4>2. Position' = Position + 1
        BY <2>10, <3>1
      <4> QED
        BY <4>1, <4>2
    <3>4. UNCHANGED <<truth, iterations, papiCounters, startTime, endTime>>
      BY <2>13 DEF SetUp
    <3>5. new = true
      BY <2>12, <3>4 DEF true
    <3> QED
      BY <2>7, <2>9, <2>11, <3>2, <3>4, <3>5
  <2>14. CASE chayai_papi_start
    <3>1. /\ Position = 1 /\ Position' = 2
          /\ papi.counting => papi.stuck
          /\ UNCHANGED <<iterations, papiCounters, startTime, endTime>>
          /\ truth' = [truth EXCEPT ![Len(truth)].counted = papi'.counting]
          /\ \/ arguments.papiEvents > 0 /\ papi' = [papi EXCEPT !.counting = TRUE, !.count = 0]
             \/ UNCHANGED papi
      BY <2>1, <2>3, <2>10, <2>14, Where, CountingPositions DEF chayai_papi_start
    <3>2. new = [true EXCEPT !.counted = papi'.counting]
      BY <2>5, <2>12, <3>1 DEF true
    <3>3. new.time = true.time /\ new.bodies = true.bodies /\ new.counted = papi'.counting
      BY <2>6, <3>2 DEF Truths
    <3>4. /\ papi'.counting => Asking
          /\ papi'.counting /\ ~papi'.stuck => papi'.count = 0
      BY <2>5, <2>8, <3>1, StuckAsks DEF EventSets, Asking
    <3> QED
      BY <2>7, <2>8, <2>9, <2>11, <3>1, <3>3, <3>4
  <2>15. CASE chayai_papi_read_counters
    <3>1. At("papi_reset") /\ Proceed
      BY <2>15 DEF chayai_papi_read_counters
    <3>2. Position = 2 /\ Position' = 3
      <4>1. Position = 2
        BY <2>1, <3>1, Where
      <4>2. Position' = Position + 1
        BY <2>10, <3>1
      <4> QED
        BY <4>1, <4>2
    <3> DEFINE b == (papi.stuck /\ papi'.count # 0)
    <3>3. /\ UNCHANGED <<iterations, papiCounters, startTime, endTime>>
          /\ papi' \in {papi, [papi EXCEPT !.count = 0]}
          /\ truth' = [truth EXCEPT ![Len(truth)].stale = b]
      BY <2>3, <2>15 DEF chayai_papi_read_counters
    <3>4. papi'.counting = papi.counting /\ papi'.count \in {0, papi.count} /\ papi'.count \in Nat
      BY <2>5, <3>3 DEF EventSets
    <3>5. new = [true EXCEPT !.stale = b]
      BY <2>5, <2>12, <3>3 DEF true
    <3>6. /\ new.time = true.time /\ new.bodies = true.bodies /\ new.counted = true.counted
          /\ new.stale = b
      BY <2>6, <3>5 DEF Truths
    <3>7. papi'.counting /\ ~new.stale => papi'.count = 0
      BY <2>8, <2>9, <3>2, <3>4, <3>6
    <3> HIDE DEF b
    <3> QED
      BY <2>7, <2>8, <2>9, <2>11, <3>2, <3>3, <3>4, <3>6, <3>7
  <2>16. CASE StartTime
    <3>1. /\ Position = 3 /\ Position' = 4 /\ now' \in Nat
          /\ UNCHANGED <<truth, iterations, papiCounters, papi, endTime>>
          /\ startTime' = now_clock_gettime(now')
      BY <2>1, <2>10, <2>16, Where, UnitsAssumption DEF StartTime, chayai_clock_now
    <3>2. Nanoseconds(startTime') = now' /\ new = true
      BY <2>12, <3>1, TimeSpecReadBack DEF true
    <3> QED
      BY <2>7, <2>8, <2>9, <2>11, <3>1, <3>2
  <2>17. CASE Body
    <3>1. PICK t \in Ticks :
            /\ now' = now + t
            /\ truth' = [truth EXCEPT ![Len(truth)].time = @ + t, ![Len(truth)].bodies = @ + 1]
      BY <2>3, <2>17 DEF Body
    <3>2. /\ Position = 4 /\ Position' = 4 /\ iterations > 0 /\ iterations' = iterations - 1
          /\ papi' = Count(papi)
          /\ UNCHANGED <<papiCounters, startTime, endTime>>
      BY <2>1, <2>17, Where DEF Body, Position, WithFixture
    <3> DEFINE y == [true EXCEPT !.time = @ + t]
               s == [truth EXCEPT ![Len(truth)] = y]
    <3>3. y \in Truths /\ y.time = true.time + t /\ y.bodies = true.bodies /\ y.counted = true.counted
          /\ y.stale = true.stale
      BY <2>6, TicksAssumption DEF Truths
    <3>4. new.time = true.time + t /\ new.bodies = true.bodies + 1 /\ new.counted = true.counted
          /\ new.stale = true.stale
      <4>1. s \in Seq(Truths) /\ Len(s) = k + 1 /\ s[k + 1] = y
        <5> HIDE DEF y
        <5>1. y \in Truths
          BY <3>3
        <5>2. truth \in Seq(Truths) /\ k \in Nat /\ Len(truth) = k + 1
          BY <2>5
        <5> QED
          BY <5>1, <5>2, LastTruth
      <4>2. truth' = [s EXCEPT ![Len(s)] = [y EXCEPT !.bodies = @ + 1]]
        BY <2>5, <3>1, <4>1 DEF true
      <4> HIDE DEF y, s
      <4>3. [y EXCEPT !.bodies = @ + 1] \in Truths
        BY <3>3 DEF Truths
      <4>4. new = [y EXCEPT !.bodies = @ + 1]
        BY <2>5, <2>12, <4>1, <4>2, <4>3, LastTruth
      <4> QED
        BY <3>3, <4>4 DEF Truths
    <3>5. papi'.counting = papi.counting /\ (papi.counting => papi'.count = papi.count + 1)
      BY <2>5, <3>2 DEF Count, EventSets
    <3>6. new.time =< new.bodies * Longest
      <4>1. Longest \in Nat /\ t \in Nat /\ t =< Longest
        BY LongestTypes
      <4>2. (true.bodies + 1) * Longest = true.bodies * Longest + Longest /\ true.bodies * Longest \in Int
        BY <2>7, <4>1
      <4> QED
        BY <2>7, <2>9, <3>4, <4>1, <4>2
    <3>7. t \in Nat /\ now \in Nat /\ iterations \in Nat /\ Nanoseconds(startTime) \in Int
      <4>1. t \in Nat /\ now \in Nat /\ iterations \in Nat /\ startTime \in TimeSpec
        BY LongestTypes DEF RunTypes
      <4>2. Nanoseconds(startTime) \in Int
        BY <4>1, UnitsTypes DEF TimeSpec, Nanoseconds
      <4> QED
        BY <4>1, <4>2
    <3>8. now' = Nanoseconds(startTime') + new.time
      BY <2>7, <2>9, <3>1, <3>2, <3>4, <3>7
    <3>9. iterations' + new.bodies = Macro[cursor].iterations
      BY <2>7, <2>9, <3>2, <3>4, <3>7
    <3> QED
      BY <2>7, <2>8, <2>9, <2>11, <3>2, <3>4, <3>5, <3>6, <3>8, <3>9
  <2>18. CASE BodiesDone
    <3>1. At("body") /\ Proceed
      BY <2>18 DEF BodiesDone
    <3>2. Position = 4 /\ Position' = 5
      <4>1. Position = 4
        BY <2>1, <3>1, Where
      <4>2. Position' = Position + 1
        BY <2>10, <3>1
      <4> QED
        BY <4>1, <4>2
    <3>3. /\ iterations = 0
          /\ UNCHANGED <<truth, iterations, papiCounters, papi, now, startTime, endTime>>
      BY <2>18 DEF BodiesDone
    <3>4. new = true
      BY <2>12, <3>3 DEF true
    <3> QED
      BY <2>7, <2>8, <2>9, <2>11, <3>2, <3>3, <3>4
  <2>19. CASE EndTime
    <3>1. At("end") /\ Proceed
      BY <2>19 DEF EndTime
    <3>2. Position = 5 /\ Position' = 6
      <4>1. Position = 5
        BY <2>1, <3>1, Where
      <4>2. Position' = Position + 1
        BY <2>10, <3>1
      <4> QED
        BY <4>1, <4>2
    <3>3. /\ UNCHANGED <<truth, iterations, papiCounters, papi, now, startTime>>
          /\ endTime' = now_clock_gettime(now)
      BY <2>19 DEF EndTime, chayai_clock_now
    <3>4. now \in Nat /\ startTime \in TimeSpec
      BY DEF RunTypes
    <3>5. Nanoseconds(endTime') = now /\ new = true
      BY <2>12, <3>3, <3>4, TimeSpecReadBack DEF true
    <3>6. Nanoseconds(startTime) \in Int
      BY <3>4, UnitsTypes DEF TimeSpec, Nanoseconds
    <3> QED
      BY <2>7, <2>8, <2>9, <2>11, <3>2, <3>3, <3>4, <3>5, <3>6
  <2>20. CASE chayai_papi_stop_counters
    <3>1. At("papi_stop") /\ Proceed
      BY <2>20 DEF chayai_papi_stop_counters
    <3>2. Position = 6 /\ Position' = 7
      <4>1. Position = 6
        BY <2>1, <3>1, Where
      <4>2. Position' = Position + 1
        BY <2>10, <3>1
      <4> QED
        BY <4>1, <4>2
    <3>3. UNCHANGED <<iterations, startTime, endTime>>
      BY <2>20 DEF chayai_papi_stop_counters
    <3>4. CASE truth' = truth /\ papiCounters' = IF papi.counting THEN papi.count ELSE papiCounters
      <4>1. new = true
        BY <2>12, <3>4 DEF true
      <4> QED
        BY <2>7, <2>8, <2>9, <2>11, <3>2, <3>3, <3>4, <4>1
    <3>5. CASE truth' = [truth EXCEPT ![Len(truth)].counted = FALSE] /\ papiCounters' = papiCounters
      <4> DEFINE x == [true EXCEPT !.counted = FALSE]
      <4>1. x \in Truths /\ truth' = [truth EXCEPT ![Len(truth)] = x]
        BY <2>5, <2>6, <3>5 DEF true, Truths
      <4> HIDE DEF x
      <4>2. new = x
        BY <2>5, <2>12, <4>1, LastTruth
      <4>3. /\ new.time = true.time /\ new.bodies = true.bodies /\ ~new.counted
        BY <2>6, <4>2 DEF Truths, x
      <4> QED
        BY <2>7, <2>9, <2>11, <3>2, <3>3, <3>5, <4>3
    <3> QED
      BY <2>3, <2>20, <3>4, <3>5 DEF chayai_papi_stop_counters
  <2>21. CASE TearDown
    <3>1. At("tear_down") /\ Proceed
      BY <2>21 DEF TearDown
    <3>2. Position = 7 /\ Position' = 8
      <4>1. Position = 7
        BY <2>1, <3>1, Where
      <4>2. Position' = Position + 1
        BY <2>10, <3>1
      <4> QED
        BY <4>1, <4>2
    <3>3. UNCHANGED <<truth, iterations, papiCounters, startTime, endTime>>
      BY <2>21 DEF TearDown
    <3>4. new = true
      BY <2>12, <3>3 DEF true
    <3> QED
      BY <2>7, <2>8, <2>9, <2>11, <3>2, <3>3, <3>4
  <2> QED
    BY <1>4, <2>2, <2>13, <2>14, <2>15, <2>16, <2>17, <2>18, <2>19, <2>20, <2>21 DEF Run
<1>5. CASE Shutdown \/ Done \/ UNCHANGED vars
  <2>1. UNCHANGED <<pc, measured, step, running_>> \/ pc' # "run"
    BY <1>5 DEF Shutdown, CleanupArguments, benchmark_cleanup, chayai_remove_tmp_dir, FlushStdout,
       Terminate, Done, vars, measured, loops, running, running_, Goto, Exit
  <2> QED
    BY <1>1, <2>1
<1> QED
  BY <1>2, <1>3, <1>4, <1>5 DEF Next, Loop

MeasureInv == RunInv /\ ResultInv /\ OneRunInv

LEMMA MeasureInvHolds == Spec => []MeasureInv
<1>1. Init => MeasureInv
  BY InitCoreInv, InitFixtureInv, InitHeapInv, InitFilesInv, InitResultInv DEF RunInv, MeasureInv
<1>2. MeasureInv /\ [Next]_vars => MeasureInv'
  BY NextCoreInv, NextRunTypes, NextFixtureInv, NextHeapInv, NextFilesInv, NextResultInv,
     NextOneRunInv DEF RunInv, MeasureInv
<1> QED
  BY <1>1, <1>2, PTL DEF Spec

LEMMA MeasuresFromInv == MeasureInv => MeasuresBodies
<1> SUFFICES ASSUME MeasureInv, pc = "report" PROVE MeasuresBodies
  BY DEF MeasuresBodies
<1> DEFINE runs == result.singleRuns
           times == [i \in DOMAIN runs |-> runs[i].time]
<1>1. /\ result \in Results /\ k = result.runs /\ k \in Nat /\ Len(runs) = k /\ Len(truth) = k
      /\ truth \in Seq(Truths) /\ runs \in Seq(SingleRuns)
      /\ \A i \in 1 .. k : Belongs(runs[i], truth[i]) /\ truth[i].bodies = Macro[cursor].iterations
      /\ SummarizedBy(result, Times(result))
  BY DEF MeasureInv, RunInv, CoreInv, HeapInv, ResultInv, InLoop, Results
<1>2. DOMAIN runs = 1 .. k /\ DOMAIN truth = 1 .. k
  BY <1>1, LenProperties
<1>3. times = Times(result)
  BY <1>1, <1>2 DEF Times
<1>4. /\ times = [i \in 1 .. result.runs |-> truth[i].time]
      /\ \A i \in 1 .. k : runs[i].time = truth[i].time
  BY <1>1, <1>2 DEF Belongs
<1>5. Len(times) = k /\ DOMAIN times = 1 .. k
  BY <1>1, <1>4
<1>6. /\ result.timeRunMin \in Int /\ result.timeRunMax \in Int
      /\ \A i \in 1 .. k : runs[i].time \in Int
  <2>1. \A i \in 1 .. k : runs[i] \in SingleRuns
    BY <1>1, LenProperties
  <2> QED
    BY <1>1, <2>1 DEF Results, SingleRuns
<1>7. \A i \in DOMAIN times : times[i] \in result.timeRunMin .. result.timeRunMax
  BY <1>1, <1>2, <1>3, <1>5, <1>6 DEF SummarizedBy
<1>8. times # <<>> => {result.timeRunMin, result.timeRunMax} \subseteq ToSet(times)
  BY <1>1, <1>3, <1>5 DEF SummarizedBy, ToSet
<1>9. result.timeTotal = SumOf(times)
  BY <1>1, <1>3 DEF SummarizedBy
<1>10. \A i \in DOMAIN runs : ~truth[i].stale =>
         runs[i].papiCounters = IF arguments.papiEvents =< 0 THEN NoCounters
                                ELSE IF truth[i].counted THEN truth[i].bodies ELSE 0
  <2>1. arguments.papiEvents \in Int
    BY DEF MeasureInv, RunInv, CoreInv, Arguments, PapiNull
  <2> QED
    BY <1>1, <1>2, <2>1 DEF Belongs, Asking
<1>11. \A i \in DOMAIN truth : truth[i].bodies = Macro[cursor].iterations
  BY <1>1, <1>2
<1> HIDE DEF runs
<1> QED
  BY <1>4, <1>7, <1>8, <1>9, <1>10, <1>11 DEF MeasuresBodies, runs

\* Whatever the macros, the clock, the ticks of the bodies and the failures of PAPI, the numbers
\* that a benchmark reports are those of its bodies (chayai_benchmarker.c:73-136,
\* chayai_benchmark_pp.h:219-228, chayai_papi.c:8-24); its counters too, except in a run
\* whose PAPI_reset fails on counters that a failed PAPI_stop left running.
THEOREM BodiesAreMeasured == Spec => []MeasuresBodies
BY MeasureInvHolds, MeasuresFromInv, PTL

-----------------------------------------------------------------------------
(* What has been written, and what of it has arrived.                      *)

TokenKinds == {"begin", "run", "run comma", "broken name", "name", "nan", "statistics", "close",
               "comma", "end", "colour", "text"}
Lines == {"", "CLOCK SOURCE", "[bar]", "Running", "Ran", "[ RUN      ]", "(runs)", "[     DONE ]",
          "[   RUNS   ]", "[ITERATIONS]", "Average time", "Average performance"}
Measures == {"Fastest", "Slowest", "Best performance", "Worst performance"}
Names == Lines \cup Measures \cup Colours \cup Benchmarks
Tokens == [kind : TokenKinds, of : Names, n : Int]
Arrived == SubSeq(out, 1, flushed)
First(n) == SubSeq(Plan, 1, n)
Silent == {"register", "directory", "arguments", "outputter", "set_warmup"}

\* How many benchmarks are reported when the loop is at cursor.
ReportedUpTo(d) == \E i \in 1 .. Len(Plan) : Plan[i] = d /\ Reported(out) = First(i - 1)

\* Nothing is written before the loop, and each benchmark that the JSON text reports has
\* arrived.
TextInv ==
  /\ out \in Seq(Tokens) /\ flushed \in 0 .. Len(out)
  /\ pc \in Silent => out = <<>>
  /\ IsJson => Reported(Arrived) = Reported(out)

\* Without a second registration, the benchmarks before cursor are reported, in order.
OrderInv ==
  Distinct =>
    /\ \E n \in 0 .. Len(Plan) : Reported(out) = First(n)
    /\ InLoop => ReportedUpTo(cursor)
    /\ pc = "next" => IF cursor = NULL THEN Reported(out) = Plan ELSE ReportedUpTo(cursor)
    /\ pc = "cleanup" \/ status = "return" => Reported(out) = Plan

\* f[i] are the closing tokens among the first i.
Closes(f, s) ==
  f = [i \in 0 .. Len(s) |->
         IF i = 0 THEN <<>>
         ELSE IF s[i].kind = "close" THEN Append(f[i - 1], s[i]) ELSE f[i - 1]]

LEMMA ClosesNext ==
  ASSUME NEW s, Len(s) \in Nat, NEW f, Closes(f, s), NEW i \in Nat, i + 1 \in 0 .. Len(s)
  PROVE  f[i + 1] = IF s[i + 1].kind = "close" THEN Append(f[i], s[i + 1]) ELSE f[i]
<1> DEFINE j == i + 1
<1>1. f[j] = IF j = 0 THEN <<>>
             ELSE IF s[j].kind = "close" THEN Append(f[j - 1], s[j]) ELSE f[j - 1]
  <2> HIDE DEF j
  <2> QED
    BY Zenon DEF Closes, j
<1>2. j # 0 /\ j - 1 = i
  OBVIOUS
<1>3. f[j] = IF s[j].kind = "close" THEN Append(f[j - 1], s[j]) ELSE f[j - 1]
  <2> HIDE DEF j
  <2> QED
    BY <1>1, <1>2
<1> QED
  BY <1>2, <1>3

LEMMA ClosedUnique ==
  ASSUME NEW s, NEW t, Len(s) \in Nat, Len(t) \in Nat, Len(s) =< Len(t),
         \A i \in 1 .. Len(s) : s[i] = t[i],
         NEW f, NEW g, Closes(f, s), Closes(g, t)
  PROVE  \A i \in 0 .. Len(s) : f[i] = g[i]
<1> DEFINE P == {i \in Nat : i \in 0 .. Len(s) => f[i] = g[i]}
<1>1. 0 \in P
  BY DEF Closes
<1>2. ASSUME NEW i \in Nat, i \in P PROVE i + 1 \in P
  <2> SUFFICES ASSUME i + 1 \in 0 .. Len(s) PROVE f[i + 1] = g[i + 1]
    OBVIOUS
  <2>1. f[i] = g[i] /\ s[i + 1] = t[i + 1]
    BY <1>2
  <2>2. /\ f[i + 1] = IF s[i + 1].kind = "close" THEN Append(f[i], s[i + 1]) ELSE f[i]
        /\ g[i + 1] = IF t[i + 1].kind = "close" THEN Append(g[i], t[i + 1]) ELSE g[i]
    BY ClosesNext
  <2> QED
    BY <2>1, <2>2
<1>3. Nat \subseteq P
  <2> HIDE DEF P
  <2> QED
    BY <1>1, <1>2, Induction
<1> QED
  BY <1>3

LEMMA ClosedReached ==
  ASSUME NEW s \in Seq(Tokens)
  PROVE  \E f \in [0 .. Len(s) -> Seq(Tokens)] : Closes(f, s) /\ Closed(s) = f[Len(s)]
<1>1. Len(s) \in Nat /\ \A i \in 1 .. Len(s) : s[i] \in Tokens
  BY LenProperties
<1> DEFINE closing == [x \in (1 .. Len(s)) \X Seq(Tokens) |->
                       IF s[x[1]].kind = "close" THEN Append(x[2], s[x[1]]) ELSE x[2]]
<1>2. closing \in [(1 .. Len(s)) \X Seq(Tokens) -> Seq(Tokens)]
  <2>1. ASSUME NEW i \in 1 .. Len(s), NEW v \in Seq(Tokens) PROVE Append(v, s[i]) \in Seq(Tokens)
    BY <1>1, AppendProperties
  <2> QED
    BY <2>1
<1>3. PICK f \in [0 .. Len(s) -> Seq(Tokens)] : Recurs(f, Len(s), <<>>, closing)
  <2>1. <<>> \in Seq(Tokens)
    OBVIOUS
  <2> HIDE DEF closing
  <2> QED
    BY <1>1, <1>2, <2>1, RecursionExists
<1>4. Closes(f, s)
  <2>1. f = [i \in 0 .. Len(s) |-> f[i]]
    OBVIOUS
  <2>2. ASSUME NEW i \in 0 .. Len(s)
        PROVE  f[i] = IF i = 0 THEN <<>>
                      ELSE IF s[i].kind = "close" THEN Append(f[i - 1], s[i]) ELSE f[i - 1]
    <3>1. f[i] = IF i = 0 THEN <<>> ELSE closing[<<i, f[i - 1]>>]
      BY <1>3 DEF Recurs
    <3>2. i # 0 => f[i - 1] \in Seq(Tokens) /\ i \in 1 .. Len(s)
      BY <1>1
    <3>3. i # 0 => closing[<<i, f[i - 1]>>] = IF s[i].kind = "close" THEN Append(f[i - 1], s[i]) ELSE f[i - 1]
      BY <3>2
    <3> HIDE DEF closing
    <3> QED
      BY <3>1, <3>3
  <2> QED
    BY <2>1, <2>2 DEF Closes
<1> DEFINE g == CHOOSE g : Closes(g, s)
<1>5. Closes(g, s)
  BY <1>4
<1>6. Closed(s) = g[Len(s)]
  BY DEF Closed, Closes
<1> HIDE DEF g
<1>7. g[Len(s)] = f[Len(s)]
  BY <1>1, <1>4, <1>5, ClosedUnique
<1> QED
  BY <1>4, <1>6, <1>7

LEMMA ClosedOfEmpty == Closed(<<>>) = <<>>
<1>1. <<>> \in Seq(Tokens) /\ Len(<<>>) = 0
  OBVIOUS
<1>2. PICK f \in [0 .. 0 -> Seq(Tokens)] : Closes(f, <<>>) /\ Closed(<<>>) = f[0]
  BY <1>1, ClosedReached
<1> QED
  BY <1>1, <1>2 DEF Closes

LEMMA ClosedOfAppend ==
  ASSUME NEW s \in Seq(Tokens), NEW x \in Tokens
  PROVE  /\ Closed(s) \in Seq(Tokens)
         /\ Closed(Append(s, x)) = IF x.kind = "close" THEN Append(Closed(s), x) ELSE Closed(s)
<1> DEFINE t == Append(s, x)
<1>1. /\ t \in Seq(Tokens) /\ Len(s) \in Nat /\ Len(t) = Len(s) + 1
      /\ \A i \in 1 .. Len(s) : t[i] = s[i]
      /\ t[Len(s) + 1] = x
  BY LenProperties, AppendProperties
<1> HIDE DEF t
<1>2. PICK f \in [0 .. Len(s) -> Seq(Tokens)] : Closes(f, s) /\ Closed(s) = f[Len(s)]
  BY ClosedReached
<1>3. PICK g \in [0 .. Len(t) -> Seq(Tokens)] : Closes(g, t) /\ Closed(t) = g[Len(t)]
  BY <1>1, ClosedReached
<1>4. f[Len(s)] = g[Len(s)]
  <2>1. \A i \in 0 .. Len(s) : f[i] = g[i]
    BY <1>1, <1>2, <1>3, ClosedUnique
  <2> QED
    BY <1>1, <2>1
<1>5. g[Len(s) + 1] = IF t[Len(s) + 1].kind = "close" THEN Append(g[Len(s)], t[Len(s) + 1]) ELSE g[Len(s)]
  BY <1>1, <1>3, ClosesNext
<1>6. f[Len(s)] \in Seq(Tokens)
  BY <1>1
<1> QED
  BY <1>1, <1>2, <1>3, <1>4, <1>5, <1>6 DEF t

LEMMA AppendToConcat ==
  \A s, t \in Seq(Tokens), x \in Tokens : Append(s \o t, x) = s \o Append(t, x)
OBVIOUS

LEMMA ClosedOfConcat ==
  ASSUME NEW s \in Seq(Tokens), NEW t \in Seq(Tokens)
  PROVE  s \o t \in Seq(Tokens) /\ Closed(s \o t) = Closed(s) \o Closed(t)
<1> DEFINE P == {n \in Nat : \A u \in Seq(Tokens) : Len(u) = n => Closed(s \o u) = Closed(s) \o Closed(u)}
<1>1. 0 \in P
  <2> SUFFICES ASSUME NEW u \in Seq(Tokens), Len(u) = 0 PROVE Closed(s \o u) = Closed(s) \o Closed(u)
    OBVIOUS
  <2>1. u = <<>> /\ Closed(s) \in Seq(Tokens)
    BY ClosedReached, EmptySeq, LenProperties
  <2> QED
    BY <2>1, ClosedOfEmpty, ConcatEmptySeq
<1>2. ASSUME NEW n \in Nat, n \in P PROVE n + 1 \in P
  <2> SUFFICES ASSUME NEW u \in Seq(Tokens), Len(u) = n + 1
               PROVE  Closed(s \o u) = Closed(s) \o Closed(u)
    OBVIOUS
  <2>1. PICK v \in Seq(Tokens), x \in Tokens : u = Append(v, x)
    <3>1. u # <<>>
      OBVIOUS
    <3> QED
      BY <3>1, SequenceEmptyOrAppend
  <2>2. Len(v) = n
    BY <2>1, AppendProperties, LenProperties
  <2>3. s \o v \in Seq(Tokens) /\ Closed(s \o v) = Closed(s) \o Closed(v)
    BY <1>2, <2>2, ConcatProperties
  <2>4. s \o u = Append(s \o v, x)
    BY <2>1, AppendToConcat
  <2>5. Closed(s) \in Seq(Tokens) /\ Closed(v) \in Seq(Tokens)
    BY ClosedOfAppend
  <2>6. Append(Closed(s) \o Closed(v), x) = Closed(s) \o Append(Closed(v), x)
    BY <2>5, AppendToConcat, Zenon
  <2>7. Closed(s \o u) = IF x.kind = "close" THEN Append(Closed(s \o v), x) ELSE Closed(s \o v)
    BY <2>3, <2>4, ClosedOfAppend
  <2>8. Closed(u) = IF x.kind = "close" THEN Append(Closed(v), x) ELSE Closed(v)
    BY <2>1, ClosedOfAppend
  <2> QED
    BY <2>3, <2>6, <2>7, <2>8
<1>3. Nat \subseteq P
  <2> HIDE DEF P
  <2> QED
    BY <1>1, <1>2, Induction
<1> QED
  BY <1>3, LenProperties, ConcatProperties

LEMMA ReportedType ==
  ASSUME NEW s \in Seq(Tokens)
  PROVE  Closed(s) \in Seq(Tokens) /\ Reported(s) \in Seq(Names)
<1>1. PICK f \in [0 .. Len(s) -> Seq(Tokens)] : Closed(s) = f[Len(s)]
  BY ClosedReached
<1>2. Closed(s) \in Seq(Tokens)
  <2>1. Len(s) \in 0 .. Len(s)
    OBVIOUS
  <2> QED
    BY <1>1, <2>1
<1>3. Len(Closed(s)) \in Nat /\ \A i \in 1 .. Len(Closed(s)) : Closed(s)[i] \in Tokens
  BY <1>2
<1>4. \A i \in 1 .. Len(Closed(s)) : Closed(s)[i].of \in Names
  BY <1>3 DEF Tokens
<1> QED
  BY <1>2, <1>3, <1>4 DEF Reported

LEMMA ReportedOfConcat ==
  ASSUME NEW s \in Seq(Tokens), NEW t \in Seq(Tokens)
  PROVE  Reported(s \o t) = Reported(s) \o Reported(t)
<1> DEFINE Of(u) == [i \in 1 .. Len(u) |-> u[i].of]
<1>1. ASSUME NEW u \in Seq(Tokens), NEW v \in Seq(Tokens)
      PROVE  Of(u \o v) = Of(u) \o Of(v)
  <2>1. /\ Len(u) \in Nat /\ Len(v) \in Nat /\ Len(u \o v) = Len(u) + Len(v)
        /\ \A i \in 1 .. (Len(u) + Len(v)) :
             (u \o v)[i] = IF i =< Len(u) THEN u[i] ELSE v[i - Len(u)]
    BY ConcatProperties
  <2> QED
    BY <2>1
<1>2. Closed(s) \in Seq(Tokens) /\ Closed(t) \in Seq(Tokens)
  BY ReportedType
<1>3. /\ Reported(s) = Of(Closed(s)) /\ Reported(t) = Of(Closed(t))
      /\ Reported(s \o t) = Of(Closed(s) \o Closed(t))
  BY ClosedOfConcat DEF Reported
<1> HIDE DEF Of
<1> QED
  BY <1>1, <1>2, <1>3

\* Texts that report nothing.
QuietTexts == {s \in Seq(Tokens) : Closed(s) = <<>>}

LEMMA QuietConcat == \A s, t \in QuietTexts : s \o t \in QuietTexts
<1> SUFFICES ASSUME NEW s \in QuietTexts, NEW t \in QuietTexts PROVE s \o t \in QuietTexts
  OBVIOUS
<1>1. s \in Seq(Tokens) /\ t \in Seq(Tokens) /\ Closed(s) = <<>> /\ Closed(t) = <<>>
  BY DEF QuietTexts
<1>2. s \o t \in Seq(Tokens) /\ Closed(s \o t) = <<>> \o <<>>
  BY <1>1, ClosedOfConcat
<1> QED
  BY <1>2 DEF QuietTexts

LEMMA QuietIsSilent ==
  ASSUME NEW s \in Seq(Tokens), NEW q \in QuietTexts
  PROVE  s \o q \in Seq(Tokens) /\ Reported(s \o q) = Reported(s)
<1>1. q \in Seq(Tokens) /\ Closed(q) = <<>>
  BY DEF QuietTexts
<1>2. Closed(s) \in Seq(Tokens)
  BY ReportedType
<1>3. s \o q \in Seq(Tokens) /\ Closed(s \o q) = Closed(s) \o <<>>
  BY <1>1, ClosedOfConcat
<1>4. Closed(s) \o <<>> = Closed(s)
  BY <1>2, ConcatEmptySeq
<1> QED
  BY <1>3, <1>4 DEF Reported

\* A text without a closing token reports nothing.
LEMMA QuietText ==
  ASSUME NEW s \in Seq(Tokens), \A i \in 1 .. Len(s) : s[i].kind # "close"
  PROVE  s \in QuietTexts
<1>1. PICK f \in [0 .. Len(s) -> Seq(Tokens)] : Closes(f, s) /\ Closed(s) = f[Len(s)]
  BY ClosedReached
<1> DEFINE P == {i \in Nat : i \in 0 .. Len(s) => f[i] = <<>>}
<1>2. 0 \in P
  BY <1>1 DEF Closes
<1>3. ASSUME NEW i \in Nat, i \in P PROVE i + 1 \in P
  <2> SUFFICES ASSUME i + 1 \in 0 .. Len(s) PROVE f[i + 1] = <<>>
    OBVIOUS
  <2>1. f[i] = <<>> /\ s[i + 1].kind # "close" /\ Len(s) \in Nat
    BY <1>3
  <2>2. f[i + 1] = IF s[i + 1].kind = "close" THEN Append(f[i], s[i + 1]) ELSE f[i]
    BY <1>1, <2>1, ClosesNext
  <2> QED
    BY <2>1, <2>2
<1>4. Nat \subseteq P
  <2> HIDE DEF P
  <2> QED
    BY <1>2, <1>3, Induction
<1>5. Closed(s) = <<>>
  <2>1. Len(s) \in Nat /\ Len(s) \in 0 .. Len(s)
    OBVIOUS
  <2> QED
    BY <1>1, <1>4, <2>1
<1> QED
  BY <1>5 DEF QuietTexts

LEMMA QuietToken ==
  ASSUME NEW x \in Tokens, x.kind # "close"
  PROVE  <<x>> \in QuietTexts
<1> DEFINE s == <<x>>
<1>1. s \in Seq(Tokens) /\ \A i \in 1 .. Len(s) : s[i].kind # "close"
  OBVIOUS
<1> HIDE DEF s
<1>2. s \in QuietTexts
  BY <1>1, QuietText
<1> QED
  BY <1>2 DEF s

LEMMA ClosingToken ==
  ASSUME NEW x \in Tokens, x.kind = "close"
  PROVE  <<x>> \in Seq(Tokens) /\ Closed(<<x>>) = <<x>> /\ Reported(<<x>>) = <<x.of>>
<1>1. <<>> \in Seq(Tokens) /\ Append(<<>>, x) = <<x>> /\ <<x>> \in Seq(Tokens)
  OBVIOUS
<1>2. Closed(<<x>>) = <<x>>
  BY <1>1, ClosedOfAppend, ClosedOfEmpty
<1>3. Len(<<x>>) = 1 /\ <<x>>[1] = x
  OBVIOUS
<1>4. [i \in 1 .. 1 |-> <<x>>[i].of] = <<x.of>>
  BY <1>3
<1> QED
  BY <1>1, <1>2, <1>3, <1>4 DEF Reported

\* A text that reports d, and one more quiet part on either side of the closing token.
LEMMA ReportsOne ==
  ASSUME NEW s \in Seq(Tokens), NEW q \in QuietTexts, NEW x \in Tokens, x.kind = "close",
         NEW r \in QuietTexts
  PROVE  /\ q \o <<x>> \o r \in Seq(Tokens)
         /\ s \o (q \o <<x>> \o r) \in Seq(Tokens)
         /\ Reported(s \o (q \o <<x>> \o r)) = Append(Reported(s), x.of)
<1>1. q \in Seq(Tokens) /\ r \in Seq(Tokens) /\ <<x>> \in Seq(Tokens)
  BY ClosingToken DEF QuietTexts
<1>2. Reported(q) = <<>> /\ Reported(r) = <<>>
  BY DEF QuietTexts, Reported
<1>3. q \o <<x>> \in Seq(Tokens) /\ Reported(q \o <<x>>) = <<>> \o <<x.of>>
  BY <1>1, <1>2, ClosingToken, ReportedOfConcat, ConcatProperties
<1>4. <<>> \o <<x.of>> = <<x.of>>
  OBVIOUS
<1> DEFINE text == q \o <<x>> \o r
<1>5. text \in Seq(Tokens) /\ Reported(text) = <<x.of>> \o <<>>
  BY <1>1, <1>2, <1>3, <1>4, ReportedOfConcat, ConcatProperties
<1>6. <<x.of>> \o <<>> = <<x.of>>
  OBVIOUS
<1>7. Reported(s) \in Seq(Names)
  BY ReportedType
<1>8. Append(Reported(s), x.of) = Reported(s) \o <<x.of>>
  BY <1>7
<1> HIDE DEF text
<1>9. s \o text \in Seq(Tokens) /\ Reported(s \o text) = Reported(s) \o Reported(text)
  BY <1>5, ReportedOfConcat, ConcatProperties
<1> QED
  BY <1>5, <1>6, <1>8, <1>9 DEF text

-----------------------------------------------------------------------------
(* What the two outputters print.                                          *)

LEMMA TokenTypes ==
  \A kind \in TokenKinds, of \in Names, n \in Int :
    /\ Token(kind, of, n) \in Tokens /\ Token(kind, of, n).kind = kind
    /\ kind # "close" => <<Token(kind, of, n)>> \in QuietTexts
<1> SUFFICES ASSUME NEW kind \in TokenKinds, NEW of \in Names, NEW n \in Int
             PROVE  /\ Token(kind, of, n) \in Tokens /\ Token(kind, of, n).kind = kind
                    /\ kind # "close" => <<Token(kind, of, n)>> \in QuietTexts
  OBVIOUS
<1>1. Token(kind, of, n) \in Tokens /\ Token(kind, of, n).kind = kind
  BY DEF Token, Tokens
<1> QED
  BY <1>1, QuietToken

\* A piece of the JSON text without a name in it.
LEMMA QuietPieces ==
  \A kind \in TokenKinds \ {"close"} : <<Token(kind, "", 0)>> \in QuietTexts
<1>1. "" \in Names /\ 0 \in Int
  BY DEF Names, Lines
<1> QED
  BY <1>1, TokenTypes

LEMMA QuietLines ==
  /\ \A line \in Names : Text(line) \in QuietTexts
  /\ \A c \in Colours : change_color(c) \in QuietTexts
  /\ \A c \in Colours, line \in Names : Coloured(c, line) \in QuietTexts
<1>1. ASSUME NEW line \in Names PROVE Text(line) \in QuietTexts
  <2>1. "text" \in TokenKinds /\ "text" # "close"
    BY DEF TokenKinds
  <2> QED
    BY <2>1, TokenTypes DEF Text
<1>2. ASSUME NEW c \in Colours PROVE change_color(c) \in QuietTexts
  <2>1. "colour" \in TokenKinds /\ "colour" # "close" /\ c \in Names
    BY DEF TokenKinds, Names
  <2> QED
    BY <2>1, TokenTypes DEF change_color
<1>3. ASSUME NEW c \in Colours, NEW line \in Names PROVE Coloured(c, line) \in QuietTexts
  <2>1. change_color(c) \in QuietTexts /\ Text(line) \in QuietTexts
        /\ change_color("DEFAULT") \in QuietTexts
    BY <1>1, <1>2 DEF Colours
  <2> QED
    BY <2>1, QuietConcat DEF Coloured
<1> QED
  BY <1>1, <1>2, <1>3

LEMMA QuietBegin ==
  /\ json_begin \in QuietTexts /\ json_end \in QuietTexts
  /\ \A n : console_begin(n) \in QuietTexts /\ console_end(n) \in QuietTexts
  /\ \A d \in Benchmarks : console_begin_benchmark(d) \in QuietTexts
<1>1. json_begin \in QuietTexts /\ json_end \in QuietTexts
  BY QuietPieces DEF json_begin, json_end, TokenKinds
<1>2. /\ {"CLOCK SOURCE", "[bar]", "Running", "Ran", "[ RUN      ]", "(runs)"} \subseteq Names
      /\ Benchmarks \subseteq Names
      /\ {"GREEN", "PURPLE", "YELLOW"} \subseteq Colours
  BY DEF Names, Lines, Colours
<1>3. \A n : console_begin(n) \in QuietTexts /\ console_end(n) \in QuietTexts
  <2>1. /\ Coloured("PURPLE", "CLOCK SOURCE") \in QuietTexts
        /\ Coloured("GREEN", "[bar]") \in QuietTexts
        /\ Text("Running") \in QuietTexts /\ Text("Ran") \in QuietTexts
    BY <1>2, QuietLines
  <2> QED
    BY <2>1, QuietConcat DEF console_begin, console_end
<1>4. ASSUME NEW d \in Benchmarks PROVE console_begin_benchmark(d) \in QuietTexts
  <2>1. /\ change_color("GREEN") \in QuietTexts /\ Text("[ RUN      ]") \in QuietTexts
        /\ Coloured("YELLOW", d) \in QuietTexts /\ Text("(runs)") \in QuietTexts
    BY <1>2, QuietLines
  <2> QED
    BY <2>1, QuietConcat DEF console_begin_benchmark
<1> QED
  BY <1>1, <1>3, <1>4

LEMMA QuietRuns ==
  ASSUME NEW r \in Results, Len(r.singleRuns) = r.runs
  PROVE  json_runs(r) \in QuietTexts
<1>1. /\ r.runs \in Nat /\ r.singleRuns \in Seq(SingleRuns)
      /\ \A i \in 1 .. r.runs : r.singleRuns[i].papiCounters \in Int
  <2>1. r.runs \in Nat /\ r.singleRuns \in Seq(SingleRuns)
    BY DEF Results
  <2>2. \A i \in 1 .. r.runs : r.singleRuns[i] \in SingleRuns
    BY <2>1, ElementOfSeq
  <2> QED
    BY <2>1, <2>2 DEF SingleRuns
<1> DEFINE size == 2 * r.runs - 1
           x(i) == IF i % 2 = 1 THEN Token("run", "", r.singleRuns[(i + 1) \div 2].papiCounters)
                                ELSE Token("run comma", "", 0)
<1>0. {"run", "run comma"} \subseteq TokenKinds \ {"close"} /\ "" \in Names /\ 0 \in Int
  BY DEF TokenKinds, Names, Lines
<1>2. ASSUME NEW i \in 1 .. size PROVE x(i) \in Tokens /\ x(i).kind # "close"
  <2>1. CASE i % 2 = 1
    <3>1. (i + 1) \div 2 \in 1 .. r.runs
      <4>1. i \in Int /\ r.runs \in Int /\ 1 =< i /\ i + 1 =< 2 * r.runs
        BY <1>1
      <4>2. \A a, b \in Int : 1 =< a /\ a + 1 =< 2 * b => (a + 1) \div 2 >= 1 /\ (a + 1) \div 2 =< b
        OBVIOUS
      <4>3. (i + 1) \div 2 \in Int
        BY <4>1
      <4> QED
        BY <4>1, <4>2, <4>3
    <3>2. r.singleRuns[(i + 1) \div 2].papiCounters \in Int
      BY <1>1, <3>1
    <3>3. x(i) = Token("run", "", r.singleRuns[(i + 1) \div 2].papiCounters)
      BY <2>1
    <3> HIDE DEF x
    <3> QED
      BY <1>0, <3>2, <3>3, TokenTypes
  <2>2. CASE i % 2 # 1
    <3>1. x(i) = Token("run comma", "", 0)
      BY <2>2
    <3> HIDE DEF x
    <3> QED
      BY <1>0, <3>1, TokenTypes
  <2> QED
    BY <2>1, <2>2
<1> DEFINE s == [i \in 1 .. size |-> x(i)]
<1>3. json_runs(r) = s
  BY Zenon DEF json_runs
<1>4. size \in Int
  BY <1>1
<1> HIDE DEF x, size
<1>5. s \in Seq(Tokens) /\ \A i \in 1 .. Len(s) : s[i].kind # "close"
  <2> DEFINE m == IF size < 0 THEN 0 ELSE size
  <2>1. m \in Nat /\ 1 .. m = 1 .. size
    BY <1>4
  <2> HIDE DEF m
  <2>2. s = [i \in 1 .. m |-> x(i)]
    BY <2>1
  <2>3. \A i \in 1 .. m : x(i) \in Tokens /\ x(i).kind # "close"
    BY <1>2, <2>1
  <2>4. s \in [1 .. m -> Tokens]
    BY <2>2, <2>3
  <2>5. s \in Seq(Tokens) /\ Len(s) = m
    <3> HIDE DEF s
    <3> QED
      BY <2>1, <2>4
  <2>6. \A i \in 1 .. m : s[i] = x(i)
    BY <2>2
  <2> HIDE DEF s
  <2> QED
    BY <2>3, <2>5, <2>6
<1>6. s \in QuietTexts
  <2> HIDE DEF s
  <2> QED
    BY <1>5, QuietText
<1> QED
  BY <1>3, <1>6

LEMMA QuietDeviations ==
  \A line \in Measures : \A n :
    deviation(line, n) \in QuietTexts /\ deviation_inverse(line, n) \in QuietTexts
<1> SUFFICES ASSUME NEW line \in Measures
             PROVE  \A n : deviation(line, n) \in QuietTexts /\ deviation_inverse(line, n) \in QuietTexts
  OBVIOUS
<1>1. line \in Names /\ "RED" \in Colours /\ "GREEN" \in Colours
  BY DEF Names, Colours
<1>2. /\ Text(line) \in QuietTexts
      /\ Coloured("RED", line) \in QuietTexts /\ Coloured("GREEN", line) \in QuietTexts
  BY <1>1, QuietLines
<1> QED
  BY <1>2, QuietConcat DEF deviation, deviation_inverse

\* One benchmark is reported by each of the outputters.
LEMMA JsonReportsOne ==
  ASSUME NEW s \in Seq(Tokens), NEW d \in Benchmarks, NEW quotes, NEW cur, NEW num,
         NEW r \in Results, Len(r.singleRuns) = r.runs
  PROVE  LET text == json_end_benchmark(d, quotes, r, cur, num)
         IN s \o text \in Seq(Tokens) /\ Reported(s \o text) = Append(Reported(s), d)
<1> DEFINE name == json_name(d, quotes)
           runs == json_runs(r)
           statistics == json_statistics(r)
           x == Token("close", d, r.runs)
           comma == json_comma(cur, num)
<1>1. name \in QuietTexts /\ statistics \in QuietTexts /\ comma \in QuietTexts
  <2>1. name \in QuietTexts
    <3>1. {"name", "broken name"} \subseteq TokenKinds \ {"close"} /\ d \in Names /\ 0 \in Int
      BY DEF TokenKinds, Names
    <3>2. <<Token("name", d, 0)>> \in QuietTexts /\ <<Token("broken name", d, 0)>> \in QuietTexts
      BY <3>1, TokenTypes
    <3> QED
      BY <3>2 DEF json_name
  <2>2. statistics \in QuietTexts
    BY QuietPieces DEF json_statistics, TokenKinds
  <2>3. comma \in QuietTexts
    <3>1. <<>> \in QuietTexts
      BY ClosedOfEmpty DEF QuietTexts
    <3> QED
      BY <3>1, QuietPieces DEF json_comma, TokenKinds
  <2> QED
    BY <2>1, <2>2, <2>3
<1>2. runs \in QuietTexts
  BY QuietRuns
<1>3. x \in Tokens /\ x.kind = "close" /\ x.of = d
  <2>1. r.runs \in Int /\ "close" \in TokenKinds /\ d \in Names
    BY DEF Results, TokenKinds, Names
  <2>2. x.of = d
    BY DEF Token
  <2> QED
    BY <2>1, <2>2, TokenTypes
<1>4. json_end_benchmark(d, quotes, r, cur, num) = name \o runs \o statistics \o <<x>> \o comma
  BY DEF json_end_benchmark
<1> HIDE DEF name, runs, statistics, x, comma
<1>5. name \o runs \o statistics \in QuietTexts
  BY <1>1, <1>2, QuietConcat
<1>6. LET q == name \o runs \o statistics
      IN s \o (q \o <<x>> \o comma) \in Seq(Tokens)
         /\ Reported(s \o (q \o <<x>> \o comma)) = Append(Reported(s), x.of)
  BY <1>1, <1>3, <1>5, ReportsOne
<1> QED
  BY <1>3, <1>4, <1>6

LEMMA ConsoleReportsOne ==
  ASSUME NEW s \in Seq(Tokens), NEW d \in Benchmarks, NEW r \in Results
  PROVE  LET text == console_end_benchmark(d, r)
         IN s \o text \in Seq(Tokens) /\ Reported(s \o text) = Append(Reported(s), d)
<1> DEFINE x == Token("close", d, r.runs)
<1>1. x \in Tokens /\ x.kind = "close" /\ x.of = d
  <2>1. r.runs \in Int /\ "close" \in TokenKinds /\ d \in Names
    BY DEF Results, TokenKinds, Names
  <2>2. x.of = d
    BY DEF Token
  <2> QED
    BY <2>1, <2>2, TokenTypes
<1>2. /\ Lines \subseteq Names /\ d \in Names /\ {"GREEN", "YELLOW", "BLUE"} \subseteq Colours
      /\ {"[     DONE ]", "[   RUNS   ]", "[ITERATIONS]", "Average time", "Average performance"}
           \subseteq Lines
      /\ {"Fastest", "Slowest", "Best performance", "Worst performance"} \subseteq Measures
  BY DEF Names, Lines, Colours, Measures
<1>3. /\ change_color("GREEN") \in QuietTexts /\ Text("[     DONE ]") \in QuietTexts
      /\ Coloured("YELLOW", d) \in QuietTexts /\ Coloured("BLUE", "[   RUNS   ]") \in QuietTexts
      /\ Coloured("BLUE", "[ITERATIONS]") \in QuietTexts
      /\ Text("Average time") \in QuietTexts /\ Text("Average performance") \in QuietTexts
      /\ \A n : /\ deviation_inverse("Fastest", n) \in QuietTexts
               /\ deviation_inverse("Slowest", n) \in QuietTexts
               /\ deviation("Best performance", n) \in QuietTexts
               /\ deviation("Worst performance", n) \in QuietTexts
  BY <1>2, QuietLines, QuietDeviations
<1>4. \E q \in QuietTexts : console_end_benchmark(d, r) = q \o <<x>>
  <2> HIDE DEF x
  <2> QED
    BY <1>3, QuietConcat DEF console_end_benchmark, x
<1>5. PICK q \in QuietTexts : console_end_benchmark(d, r) = q \o <<x>>
  BY <1>4
<1> HIDE DEF x
<1>6. <<>> \in QuietTexts
  BY ClosedOfEmpty DEF QuietTexts
<1>7. q \o <<x>> \o <<>> = q \o <<x>>
  <2>1. q \o <<x>> \in Seq(Tokens)
    BY <1>1 DEF QuietTexts
  <2> QED
    BY <2>1, ConcatEmptySeq
<1>8. /\ s \o (q \o <<x>> \o <<>>) \in Seq(Tokens)
      /\ Reported(s \o (q \o <<x>> \o <<>>)) = Append(Reported(s), x.of)
  BY <1>1, <1>6, ReportsOne
<1> QED
  BY <1>1, <1>5, <1>7, <1>8

-----------------------------------------------------------------------------
(* The order of the benchmarks in the output.                              *)

LEMMA Firsts ==
  ASSUME program \in Programs
  PROVE  /\ First(0) = <<>> /\ First(Len(Plan)) = Plan
         /\ \A i \in 1 .. Len(Plan) : Append(First(i - 1), Plan[i]) = First(i)
         /\ \A n \in 0 .. Len(Plan) : First(n) \in Seq(Benchmarks) /\ Len(First(n)) = n
<1>1. Plan \in Seq(Benchmarks) /\ Len(Plan) \in Nat
  BY PlanTypes
<1>2. \A n \in 0 .. Len(Plan) : First(n) = [j \in 1 .. n |-> Plan[j]]
  BY <1>1 DEF First
<1>3. \A n \in 0 .. Len(Plan) : First(n) \in Seq(Benchmarks) /\ Len(First(n)) = n
  BY <1>1, <1>2
<1>4. First(0) = <<>>
  <2>1. 0 \in 0 .. Len(Plan)
    BY <1>1
  <2> QED
    BY <1>3, <2>1, EmptySeq
<1>5. First(Len(Plan)) = Plan
  <2>1. Len(Plan) \in 0 .. Len(Plan)
    BY <1>1
  <2>2. First(Len(Plan)) = [j \in 1 .. Len(Plan) |-> Plan[j]]
    BY <1>2, <2>1
  <2> QED
    BY <1>1, <2>2
<1>6. ASSUME NEW i \in 1 .. Len(Plan) PROVE Append(First(i - 1), Plan[i]) = First(i)
  <2>1. i \in 0 .. Len(Plan) /\ i - 1 \in 0 .. Len(Plan)
    BY <1>1
  <2>2. First(i) = [j \in 1 .. i |-> Plan[j]] /\ First(i - 1) = [j \in 1 .. (i - 1) |-> Plan[j]]
    BY <1>2, <2>1
  <2>3. Append(First(i - 1), Plan[i]) = [j \in 1 .. i |-> IF j = i THEN Plan[i] ELSE Plan[j]]
    BY <1>1, <2>1, <2>2
  <2> QED
    BY <2>2, <2>3
<1> QED
  BY <1>3, <1>4, <1>5, <1>6

\* The list without repetitions, once all is registered.
LEMMA ListWithoutRepeats ==
  ASSUME ListInv, Distinct, registered = Len(Plan)
  PROVE  /\ first = IF Len(Plan) = 0 THEN NULL ELSE Plan[1]
         /\ \A i \in 1 .. Len(Plan) : next[Plan[i]] = IF i = Len(Plan) THEN NULL ELSE Plan[i + 1]
<1>1. /\ Len(Plan) \in Nat /\ DOMAIN Plan = 1 .. Len(Plan)
      /\ \A i \in 1 .. Len(Plan) : Plan[i] \in Benchmarks
  BY PlanTypes DEF ListInv
<1>2. first = IF Len(Plan) = 0 THEN NULL ELSE Plan[1]
  BY DEF ListInv, ListIsPlan
<1>3. ASSUME NEW i \in 1 .. Len(Plan)
      PROVE  next[Plan[i]] = IF i = Len(Plan) THEN NULL ELSE Plan[i + 1]
  <2>1. \A j \in 1 .. Len(Plan) : j # i => Plan[j] # Plan[i]
    BY <1>1 DEF Distinct
  <2>2. CASE i = Len(Plan)
    <3>1. \A j \in 1 .. (registered - 1) : Plan[j] # Plan[i]
      BY <1>1, <2>1, <2>2
    <3> QED
      BY <1>1, <2>2, <3>1 DEF ListInv, ListIsPlan
  <2>3. CASE i # Len(Plan)
    <3>1. /\ i \in 1 .. (registered - 1)
          /\ \A j \in (i + 1) .. (registered - 1) : Plan[j] # Plan[i]
      BY <1>1, <2>1, <2>3
    <3> QED
      BY <2>3, <3>1 DEF ListInv, ListIsPlan
  <2> QED
    BY <2>2, <2>3
<1> QED
  BY <1>2, <1>3

\* Nothing is printed but by the outputters, and nothing leaves the process otherwise.
LEMMA OutputSteps ==
  [Next]_vars => \/ Begin /\ pc' = "next"
                 \/ NextBenchmark \/ EndBenchmark \/ End \/ FlushStdout
                 \/ UNCHANGED <<out, flushed>>
<1> SUFFICES ASSUME [Next]_vars,
                    ~(Begin /\ pc' = "next"), ~NextBenchmark, ~EndBenchmark, ~End, ~FlushStdout
             PROVE  UNCHANGED <<out, flushed>>
  OBVIOUS
<1> USE DEF output
<1>1. CASE Main
  BY <1>1 DEF Main, Register, AllRegistered, GetTmpDir, AtExitCleanup
<1>2. CASE Setup
  BY <1>2 DEF Setup, ParseWord, ParsingEnds, SetOutputter, SetWarmup, Begin, Goto
<1>3. CASE Loop
  BY <1>3 DEF Loop, WarmupRun, WarmupDone, MeasuredRun, MeasureDone, Enter
<1>4. CASE Run
  BY <1>4 DEF Run, SetUp, chayai_papi_start, chayai_papi_read_counters, StartTime, Body,
              BodiesDone, BodyFails, EndTime, chayai_papi_stop_counters, TearDown, WarmupReturns,
              MeasuredReturns, Proceed, Leave
<1>5. CASE Shutdown
  BY <1>5 DEF Shutdown, CleanupArguments, benchmark_cleanup, chayai_remove_tmp_dir, Terminate
<1>6. CASE Done \/ UNCHANGED vars
  BY <1>6 DEF Done, vars
<1> QED
  BY <1>1, <1>2, <1>3, <1>4, <1>5, <1>6 DEF Next

\* Where control goes, and how the process ends.
StatusInv ==
  /\ pc \notin {"exit", "ended"} => status = "alive"
  /\ pc = "exit" => status # "alive"
  /\ pc = "ended" /\ status = "return" => flushed = Len(out)

LEMMA NextStatusInv == StatusInv /\ arguments \in Arguments /\ [Next]_vars => StatusInv'
<1> SUFFICES ASSUME StatusInv, arguments \in Arguments, [Next]_vars PROVE StatusInv'
  OBVIOUS
<1> USE DEF StatusInv, Goto, Exit, Crash, output
<1>1. CASE Main
  BY <1>1 DEF Main, Register, AllRegistered, GetTmpDir, AtExitCleanup
<1>2. CASE Setup
  BY <1>2 DEF Setup, ParseWord, ParsingEnds, SetOutputter, SetWarmup, Begin, Arguments
<1>3. CASE Loop
  BY <1>3 DEF Loop, NextBenchmark, WarmupRun, WarmupDone, MeasuredRun, MeasureDone, EndBenchmark,
              End
<1>4. CASE Run
  BY <1>4 DEF Run, SetUp, chayai_papi_start, chayai_papi_read_counters, StartTime, Body,
              BodiesDone, BodyFails, EndTime, chayai_papi_stop_counters, TearDown, WarmupReturns,
              MeasuredReturns, Proceed, At
<1>5. CASE Shutdown
  BY <1>5 DEF Shutdown, CleanupArguments, benchmark_cleanup, chayai_remove_tmp_dir, FlushStdout,
              Terminate
<1>6. CASE Done \/ UNCHANGED vars
  BY <1>6 DEF Done, vars
<1> QED
  BY <1>1, <1>2, <1>3, <1>4, <1>5, <1>6 DEF Next

LEMMA WritingSteps ==
  ASSUME CoreInv, HeapInv, ResultInv, TextInv
  PROVE  /\ Begin /\ pc' = "next" =>
              /\ out = <<>> /\ out' \in QuietTexts /\ UNCHANGED flushed
              /\ cursor' = first /\ pc = "set_warmup"
         /\ NextBenchmark =>
              /\ \E q \in QuietTexts : out' = out \o q
              /\ IsJson => out' = out
              /\ UNCHANGED flushed
         /\ EndBenchmark =>
              /\ \E x \in Seq(Tokens) : out' = out \o x
              /\ Reported(out') = Append(Reported(out), cursor)
              /\ IF IsJson THEN flushed' = Len(out') ELSE UNCHANGED flushed
         /\ End =>
              /\ \E q \in QuietTexts : out' = out \o q
              /\ IF IsJson THEN flushed' = Len(out') ELSE UNCHANGED flushed
<1>0. out \in Seq(Tokens) /\ <<>> \in QuietTexts /\ out \o <<>> = out
  <2>1. out \in Seq(Tokens)
    BY DEF TextInv
  <2> QED
    BY <2>1, ClosedOfEmpty, ConcatEmptySeq DEF QuietTexts
<1>1. ASSUME Begin, pc' = "next"
      PROVE  /\ out = <<>> /\ out' \in QuietTexts /\ UNCHANGED flushed
             /\ cursor' = first /\ pc = "set_warmup"
  <2>1. pc = "set_warmup" /\ cursor' = first /\ UNCHANGED flushed
        /\ (out' = json_begin \/ out' = console_begin(nbBenchmarksRegistered))
    BY <1>1 DEF Begin, Exit, Goto
  <2>2. out = <<>>
    BY <2>1 DEF TextInv, Silent
  <2> QED
    BY <2>1, <2>2, QuietBegin
<1>2. ASSUME NextBenchmark
      PROVE  /\ \E q \in QuietTexts : out' = out \o q
             /\ IsJson => out' = out
             /\ UNCHANGED flushed
  <2>1. /\ cursor \in Benchmarks /\ UNCHANGED flushed
        /\ IF IsJson THEN out' = out ELSE out' = out \o console_begin_benchmark(cursor)
    BY <1>2 DEF NextBenchmark, CoreInv, Write
  <2> QED
    BY <1>0, <2>1, QuietBegin
<1>3. ASSUME EndBenchmark
      PROVE  /\ \E x \in Seq(Tokens) : out' = out \o x
             /\ Reported(out') = Append(Reported(out), cursor)
             /\ IF IsJson THEN flushed' = Len(out') ELSE UNCHANGED flushed
  <2>1. pc = "report" /\ cursor \in Benchmarks /\ result \in Results
    BY <1>3 DEF EndBenchmark, CoreInv, InLoop
  <2>2. Len(result.singleRuns) = result.runs
    BY <2>1 DEF HeapInv, ResultInv, InLoop
  <2>3. CASE IsJson
    <3> DEFINE x == json_end_benchmark(cursor, descriptor(cursor).quotes, result, curBenchmarkNum',
                                       numOfBenchmarks)
    <3>1. out' = out \o x /\ flushed' = Len(out')
      BY <1>3, <2>3 DEF EndBenchmark, Write, json_flushed
    <3>2. x \in Seq(Tokens) /\ Reported(out \o x) = Append(Reported(out), cursor)
      BY <1>0, <2>1, <2>2, JsonReportsOne
    <3> HIDE DEF x
    <3> QED
      BY <2>3, <3>1, <3>2
  <2>4. CASE ~IsJson
    <3> DEFINE x == console_end_benchmark(cursor, result)
    <3>1. out' = out \o x /\ UNCHANGED flushed
      BY <1>3, <2>4 DEF EndBenchmark, Write
    <3>2. x \in Seq(Tokens) /\ Reported(out \o x) = Append(Reported(out), cursor)
      BY <1>0, <2>1, ConsoleReportsOne
    <3> HIDE DEF x
    <3> QED
      BY <2>4, <3>1, <3>2
  <2> QED
    BY <2>3, <2>4
<1>4. ASSUME End
      PROVE  /\ \E q \in QuietTexts : out' = out \o q
             /\ IF IsJson THEN flushed' = Len(out') ELSE UNCHANGED flushed
  <2>1. IF IsJson THEN out' = out \o json_end /\ flushed' = Len(out')
        ELSE out' = out \o console_end(nbBenchmarksRegistered) /\ UNCHANGED flushed
    BY <1>4 DEF End, Write
  <2> QED
    BY <2>1, QuietBegin
<1> QED
  BY <1>1, <1>2, <1>3, <1>4

\* The output only grows, and so does what of it has left the process.
LEMMA OutputGrows ==
  ASSUME CoreInv, HeapInv, ResultInv, TextInv, [Next]_vars
  PROVE  /\ out' \in Seq(Tokens) /\ \E x \in Seq(Tokens) : out' = out \o x
         /\ flushed' \in flushed .. Len(out')
         /\ Reported(out') = IF EndBenchmark THEN Append(Reported(out), cursor) ELSE Reported(out)
         /\ IsJson => \/ flushed' = Len(out') \/ UNCHANGED <<out, flushed>>
                      \/ Begin /\ pc' = "next"
<1>1. out \in Seq(Tokens) /\ Len(out) \in Nat /\ flushed \in 0 .. Len(out)
  BY DEF TextInv
<1>2. ASSUME NEW x \in Seq(Tokens), out' = out \o x,
             flushed' \in {flushed, Len(out')}
      PROVE  out' \in Seq(Tokens) /\ flushed' \in flushed .. Len(out')
  <2>1. out \o x \in Seq(Tokens) /\ Len(x) \in Nat /\ Len(out \o x) = Len(out) + Len(x)
    BY <1>1
  <2> QED
    BY <1>1, <1>2, <2>1
<1>3. CASE EndBenchmark
  <2>1. PICK x \in Seq(Tokens) : out' = out \o x
    BY <1>3, WritingSteps
  <2> QED
    BY <1>2, <1>3, <2>1, WritingSteps
<1>4. ASSUME ~EndBenchmark, NEW q \in QuietTexts, out' = out \o q, flushed' \in {flushed, Len(out')}
      PROVE  /\ out' \in Seq(Tokens) /\ \E x \in Seq(Tokens) : out' = out \o x
             /\ flushed' \in flushed .. Len(out')
             /\ Reported(out') = Reported(out)
  <2>1. q \in Seq(Tokens)
    BY DEF QuietTexts
  <2>2. Reported(out') = Reported(out)
    BY <1>1, <1>4, QuietIsSilent
  <2> QED
    BY <1>2, <1>4, <2>1, <2>2
<1>5. CASE ~EndBenchmark /\ Begin /\ pc' = "next"
  <2>1. out = <<>> /\ out' \in QuietTexts /\ UNCHANGED flushed
    BY <1>5, WritingSteps
  <2>2. out' = out \o out'
    <3>1. out' \in Seq(Tokens)
      BY <2>1 DEF QuietTexts
    <3> QED
      BY <2>1, <3>1, ConcatEmptySeq
  <2> QED
    BY <1>4, <1>5, <2>1, <2>2
<1>6. CASE ~EndBenchmark /\ NextBenchmark
  <2>1. PICK q \in QuietTexts : out' = out \o q
    BY <1>6, WritingSteps
  <2> QED
    BY <1>4, <1>6, <2>1, WritingSteps
<1>7. CASE ~EndBenchmark /\ End
  <2>1. PICK q \in QuietTexts : out' = out \o q
    BY <1>7, WritingSteps
  <2> QED
    BY <1>4, <1>7, <2>1, WritingSteps
<1>8. ASSUME ~EndBenchmark, out' = out, flushed' \in {flushed, Len(out)}
      PROVE  /\ out' \in Seq(Tokens) /\ \E x \in Seq(Tokens) : out' = out \o x
             /\ flushed' \in flushed .. Len(out')
             /\ Reported(out') = Reported(out)
  <2>1. <<>> \in QuietTexts /\ out' = out \o <<>>
    BY <1>1, <1>8, ClosedOfEmpty, ConcatEmptySeq DEF QuietTexts
  <2> QED
    BY <1>4, <1>8, <2>1
<1>9. CASE ~EndBenchmark /\ (FlushStdout \/ UNCHANGED <<out, flushed>>)
  <2>1. out' = out /\ (flushed' = Len(out') \/ UNCHANGED <<out, flushed>>)
    BY <1>9 DEF FlushStdout
  <2> QED
    BY <1>8, <1>9, <2>1
<1> QED
  BY <1>3, <1>5, <1>6, <1>7, <1>9, OutputSteps

\* Before the outputter begins nothing is printed; the arguments are read before that.
LEMMA EarlySteps ==
  ASSUME [Next]_vars
  PROVE  /\ pc' \in Silent => pc \in Silent
         /\ arguments' = arguments \/ (pc = "arguments" /\ pc' = "arguments")
         /\ ~(pc' \in Silent /\ (NextBenchmark \/ EndBenchmark \/ End))
<1> USE DEF Goto, Exit, Crash, Silent
<1>1. CASE Main
  BY <1>1 DEF Main, Register, AllRegistered, GetTmpDir, AtExitCleanup, NextBenchmark, EndBenchmark, End
<1>2. CASE Setup
  BY <1>2 DEF Setup, ParseWord, ParsingEnds, SetOutputter, SetWarmup, Begin, NextBenchmark,
              EndBenchmark, End
<1>3. CASE Loop
  BY <1>3 DEF Loop, NextBenchmark, WarmupRun, WarmupDone, MeasuredRun, MeasureDone, EndBenchmark,
              End, Enter
<1>4. CASE Run
  BY <1>4 DEF Run, SetUp, chayai_papi_start, chayai_papi_read_counters, StartTime, Body,
              BodiesDone, BodyFails, EndTime, chayai_papi_stop_counters, TearDown, WarmupReturns,
              MeasuredReturns, Proceed, At, Leave, NextBenchmark, EndBenchmark, End
<1>5. CASE Shutdown
  BY <1>5 DEF Shutdown, CleanupArguments, benchmark_cleanup, chayai_remove_tmp_dir, FlushStdout,
              Terminate, NextBenchmark, EndBenchmark, End
<1>6. CASE Done \/ UNCHANGED vars
  BY <1>6 DEF Done, vars, NextBenchmark, EndBenchmark, End
<1> QED
  BY <1>1, <1>2, <1>3, <1>4, <1>5, <1>6 DEF Next

LEMMA NextTextInv == CoreInv /\ HeapInv /\ ResultInv /\ TextInv /\ [Next]_vars => TextInv'
<1> SUFFICES ASSUME CoreInv, HeapInv, ResultInv, TextInv, [Next]_vars PROVE TextInv'
  OBVIOUS
<1>1. out \in Seq(Tokens) /\ flushed \in 0 .. Len(out) /\ Len(out) \in Nat
  BY DEF TextInv
<1>2. out' \in Seq(Tokens) /\ flushed' \in flushed .. Len(out') /\ Len(out') \in Nat
  BY OutputGrows
<1>3. flushed' \in 0 .. Len(out')
  BY <1>1, <1>2
<1>4. pc' \in Silent => out' = <<>>
  <2> SUFFICES ASSUME pc' \in Silent PROVE out' = <<>>
    OBVIOUS
  <2>1. pc \in Silent /\ pc' # "next" /\ ~(NextBenchmark \/ EndBenchmark \/ End)
    BY EarlySteps DEF Silent
  <2>2. out = <<>>
    BY <2>1 DEF TextInv
  <2> QED
    BY <2>1, <2>2, OutputSteps DEF FlushStdout
<1>5. IsJson' => Reported(Arrived') = Reported(out')
  <2> SUFFICES ASSUME IsJson' PROVE Reported(Arrived') = Reported(out')
    OBVIOUS
  <2>1. CASE out' = <<>>
    <3>1. Arrived' = <<>>
      BY <1>3, <2>1 DEF Arrived
    <3> QED
      BY <2>1, <3>1
  <2>2. CASE flushed' = Len(out')
    <3>1. Arrived' = out'
      BY <1>2, <2>2 DEF Arrived
    <3> QED
      BY <3>1
  <2>3. CASE Begin /\ pc' = "next"
    <3>1. out = <<>> /\ out' \in QuietTexts /\ flushed' = flushed
      BY <2>3, WritingSteps
    <3>2. flushed' = 0 /\ Arrived' = <<>>
      BY <1>1, <1>2, <3>1 DEF Arrived
    <3>3. Closed(out') = <<>> /\ Closed(<<>>) = <<>>
      BY <3>1, ClosedOfEmpty DEF QuietTexts
    <3> QED
      BY <3>2, <3>3 DEF Reported
  <2>4. CASE UNCHANGED <<out, flushed>> /\ out' # <<>>
    <3>1. IsJson
      BY <1>4, <2>4, EarlySteps DEF IsJson, Silent
    <3> QED
      BY <2>4, <3>1 DEF TextInv, Arrived
  <2>5. IsJson \/ out' = <<>>
    BY <1>4, EarlySteps DEF IsJson, Silent
  <2> QED
    BY <2>1, <2>2, <2>3, <2>4, <2>5, OutputGrows
<1> QED
  BY <1>2, <1>3, <1>4, <1>5 DEF TextInv

\* Where the loop over the list can go from, and how.
LEMMA LoopSteps ==
  ASSUME [Next]_vars, StatusInv, arguments \in Arguments
  PROVE  /\ pc' \in {"loop", "run", "report"} =>
              cursor' = cursor /\ (InLoop \/ (pc = "next" /\ cursor # NULL))
         /\ pc' = "next" => \/ Begin \/ EndBenchmark
                            \/ (pc = "next" /\ cursor' = cursor)
         /\ pc' = "cleanup" => pc = "cleanup" \/ End
         /\ status' = "return" => pc = "cleanup" \/ status = "return"
<1> USE DEF Goto, Exit, Crash, StatusInv, output, InLoop, loops
<1>1. CASE Main
  BY <1>1 DEF Main, Register, AllRegistered, GetTmpDir, AtExitCleanup
<1>2. CASE Setup
  <2>1. Begin => pc' \in {"next", "exit"} /\ status' # "return"
    BY DEF Begin
  <2>2. CASE Begin
    BY <2>1, <2>2
  <2>3. CASE Setup /\ ~Begin
    BY <2>3 DEF Setup, ParseWord, ParsingEnds, SetOutputter, SetWarmup, Arguments
  <2> QED
    BY <1>2, <2>2, <2>3
<1>3. CASE Loop
  <2>1. EndBenchmark => pc' = "next" /\ pc = "report" /\ status' = status
    BY DEF EndBenchmark
  <2>2. End => pc' = "cleanup" /\ pc = "next" /\ status' = status
    BY DEF End
  <2>3. NextBenchmark => /\ pc = "next" /\ cursor # NULL /\ cursor' = cursor
                         /\ pc' = "loop" /\ status' = status
    BY DEF NextBenchmark
  <2>4. WarmupRun \/ WarmupDone \/ MeasuredRun \/ MeasureDone =>
          /\ pc = "loop" /\ cursor' = cursor /\ pc' \in {"loop", "run", "report", "ended"}
          /\ status' \in {status, "crash"}
    BY DEF WarmupRun, WarmupDone, MeasuredRun, MeasureDone, Enter
  <2> QED
    BY <1>3, <2>1, <2>2, <2>3, <2>4 DEF Loop
<1>4. CASE Run
  <2>1. /\ pc = "run" /\ cursor' = cursor /\ pc' \in {"run", "loop", "exit", "ended"}
        /\ status' \in {status, "crash", "exit"}
    BY <1>4 DEF Run, SetUp, chayai_papi_start, chayai_papi_read_counters, StartTime, Body,
                BodiesDone, BodyFails, EndTime, chayai_papi_stop_counters, TearDown,
                WarmupReturns, MeasuredReturns, Proceed, At, Leave
  <2> QED
    BY <2>1
<1>5. CASE Shutdown
  BY <1>5 DEF Shutdown, CleanupArguments, benchmark_cleanup, chayai_remove_tmp_dir, FlushStdout,
              Terminate
<1>6. CASE Done \/ UNCHANGED vars
  BY <1>6 DEF Done, vars
<1> QED
  BY <1>1, <1>2, <1>3, <1>4, <1>5, <1>6 DEF Next

LEMMA NextOrderInv ==
  CoreInv /\ HeapInv /\ ResultInv /\ Linked /\ StatusInv /\ TextInv /\ OrderInv /\ [Next]_vars
    => OrderInv'
<1> SUFFICES ASSUME CoreInv, HeapInv, ResultInv, Linked, StatusInv, TextInv, OrderInv, [Next]_vars,
                    Distinct'
             PROVE  /\ \E n \in 0 .. Len(Plan') : Reported(out') = First(n)'
                    /\ InLoop' => ReportedUpTo(cursor)'
                    /\ pc' = "next" => IF cursor' = NULL THEN Reported(out') = Plan'
                                       ELSE ReportedUpTo(cursor)'
                    /\ pc' = "cleanup" \/ status' = "return" => Reported(out') = Plan'
  BY DEF OrderInv
<1>1. /\ program' = program /\ Plan' = Plan /\ Distinct
      /\ \A n : First(n)' = First(n)
  <2>1. program' = program
    <3>1. CASE Next
      BY <3>1, OthersKeepRegistry DEF Register, registry
    <3> QED
      BY <3>1 DEF vars
  <2> QED
    BY <2>1 DEF Plan, Distinct, First
<1>2. /\ \E n \in 0 .. Len(Plan) : Reported(out) = First(n)
      /\ InLoop => ReportedUpTo(cursor)
      /\ pc = "next" => IF cursor = NULL THEN Reported(out) = Plan ELSE ReportedUpTo(cursor)
      /\ pc = "cleanup" \/ status = "return" => Reported(out) = Plan
  BY <1>1 DEF OrderInv
<1>3. /\ Plan \in Seq(Benchmarks) /\ Len(Plan) \in Nat
      /\ \A i \in 1 .. Len(Plan) : Plan[i] \in Benchmarks /\ Plan[i] # NULL
      /\ First(0) = <<>> /\ First(Len(Plan)) = Plan
      /\ \A i \in 1 .. Len(Plan) : Append(First(i - 1), Plan[i]) = First(i)
  BY PlanTypes, Firsts DEF CoreInv, ListInv
<1>4. pc # "register" =>
        /\ first = IF Len(Plan) = 0 THEN NULL ELSE Plan[1]
        /\ \A i \in 1 .. Len(Plan) : next[Plan[i]] = IF i = Len(Plan) THEN NULL ELSE Plan[i + 1]
  BY <1>1, ListWithoutRepeats DEF CoreInv, Linked
<1>5. CASE EndBenchmark
  <2>1. pc = "report" /\ pc' = "next" /\ cursor' = next[cursor] /\ status' = "alive"
    BY <1>5 DEF EndBenchmark, Goto, StatusInv
  <2>2. PICK i \in 1 .. Len(Plan) : Plan[i] = cursor /\ Reported(out) = First(i - 1)
    BY <1>2, <2>1 DEF InLoop, ReportedUpTo
  <2>3. Reported(out') = First(i)
    BY <1>3, <1>5, <2>2, OutputGrows
  <2>4. cursor' = IF i = Len(Plan) THEN NULL ELSE Plan[i + 1]
    BY <1>4, <2>1, <2>2
  <2>5. i \in 0 .. Len(Plan)
    BY <1>3
  <2>6. IF cursor' = NULL THEN Reported(out') = Plan ELSE ReportedUpTo(cursor)'
    <3>1. CASE i = Len(Plan)
      BY <1>3, <2>3, <2>4, <3>1
    <3>2. CASE i # Len(Plan)
      <4>1. /\ i + 1 \in 1 .. Len(Plan) /\ (i + 1) - 1 = i
            /\ cursor' = Plan[i + 1] /\ cursor' # NULL
        BY <1>3, <2>4, <3>2
      <4>2. Plan'[i + 1] = cursor' /\ Reported(out') = First((i + 1) - 1)'
        BY <1>1, <2>3, <4>1
      <4> QED
        BY <1>1, <4>1, <4>2 DEF ReportedUpTo
    <3> QED
      BY <3>1, <3>2
  <2> QED
    BY <1>1, <2>1, <2>3, <2>5, <2>6 DEF InLoop
<1>6. CASE ~EndBenchmark
  <2>1. Reported(out') = Reported(out)
    BY <1>6, OutputGrows
  <2>2. \A d : ReportedUpTo(d)' = ReportedUpTo(d)
    BY <1>1, <2>1 DEF ReportedUpTo
  <2>3. InLoop' => ReportedUpTo(cursor')
    <3> SUFFICES ASSUME InLoop' PROVE ReportedUpTo(cursor')
      OBVIOUS
    <3>1. cursor' = cursor /\ (InLoop \/ (pc = "next" /\ cursor # NULL))
      BY LoopSteps DEF InLoop, CoreInv
    <3> QED
      BY <1>2, <3>1
  <2>4. pc' = "next" => IF cursor' = NULL THEN Reported(out') = Plan ELSE ReportedUpTo(cursor')
    <3> SUFFICES ASSUME pc' = "next"
                 PROVE  IF cursor' = NULL THEN Reported(out') = Plan ELSE ReportedUpTo(cursor')
      OBVIOUS
    <3>1. CASE pc = "next" /\ cursor' = cursor
      BY <1>2, <2>1, <3>1
    <3>2. CASE Begin
      <4>1. out = <<>> /\ cursor' = first /\ pc = "set_warmup"
        BY <3>2, WritingSteps
      <4>2. Reported(out) = <<>>
        BY <4>1, ClosedOfEmpty DEF Reported
      <4>3. CASE Len(Plan) = 0
        BY <1>3, <1>4, <2>1, <4>1, <4>2, <4>3
      <4>4. CASE Len(Plan) # 0
        <5>1. 1 \in 1 .. Len(Plan) /\ 1 - 1 = 0 /\ cursor' = Plan[1] /\ cursor' # NULL
          BY <1>3, <1>4, <4>1, <4>4
        <5>2. Reported(out) = First(1 - 1)
          BY <1>3, <4>2
        <5> QED
          BY <5>1, <5>2 DEF ReportedUpTo
      <4> QED
        BY <4>3, <4>4
    <3> QED
      BY <1>6, <3>1, <3>2, LoopSteps DEF CoreInv
  <2>5. pc' = "cleanup" \/ status' = "return" => Reported(out) = Plan
    <3>1. CASE End
      BY <1>2, <3>1 DEF End
    <3> QED
      BY <1>2, <3>1, LoopSteps DEF CoreInv
  <2> QED
    BY <1>1, <1>2, <2>1, <2>2, <2>3, <2>4, <2>5
<1> QED
  BY <1>5, <1>6

\* The output lists the plan as far as the loop has come, and what left the process is
\* all of it (JSON) or a beginning of it.
OutputInv == Linked /\ StatusInv /\ TextInv /\ OrderInv

LEMMA OutputInvHolds == Spec => [](MeasureInv /\ OutputInv)
<1>1. Init => OutputInv
  <2> SUFFICES ASSUME Init PROVE OutputInv
    OBVIOUS
  <2>1. /\ pc = "register" /\ status = "alive" /\ out = <<>> /\ flushed = 0 /\ program \in Programs
    BY DEF Init
  <2>2. Linked /\ StatusInv
    BY <2>1, InitRepeats DEF StatusInv
  <2>3. Arrived = <<>> /\ Reported(<<>>) = <<>>
    BY <2>1, ClosedOfEmpty DEF Arrived, Reported
  <2>4. out \in Seq(Tokens) /\ flushed \in 0 .. Len(out)
    BY <2>1
  <2>5. TextInv
    BY <2>1, <2>3, <2>4 DEF TextInv
  <2>6. First(0) = <<>> /\ Len(Plan) \in Nat
    BY <2>1, Firsts, PlanTypes
  <2>7. OrderInv
    BY <2>1, <2>3, <2>6 DEF OrderInv, InLoop
  <2> QED
    BY <2>2, <2>5, <2>7 DEF OutputInv
<1>2. MeasureInv /\ OutputInv /\ [Next]_vars => OutputInv'
  <2> SUFFICES ASSUME MeasureInv, OutputInv, [Next]_vars PROVE OutputInv'
    OBVIOUS
  <2>1. CoreInv /\ ListInv /\ HeapInv /\ ResultInv /\ arguments \in Arguments
    BY DEF MeasureInv, RunInv, CoreInv
  <2>2. Linked /\ StatusInv /\ TextInv /\ OrderInv
    BY DEF OutputInv
  <2> QED
    BY <2>1, <2>2, NextLinked, NextStatusInv, NextTextInv, NextOrderInv DEF OutputInv
<1> QED
  BY <1>1, <1>2, MeasureInvHolds, PTL DEF Spec

\* A benchmark that is over has left the process (fflush, chayai_json_outputter.c:143), for every
\* plan that registers nothing twice: whatever happens later does not take it away.
THEOREM FinishedBenchmarksAreOut == Spec => []FinishedIsOut
<1>1. MeasureInv /\ OutputInv => FinishedIsOut
  <2> SUFFICES ASSUME MeasureInv, OutputInv, IsJson, Distinct
               PROVE  LET there == Reported(SubSeq(out, 1, flushed)) IN
                        /\ pc \in {"loop", "run", "report"} =>
                             \E i \in DOMAIN Plan : Plan[i] = cursor /\ there = SubSeq(Plan, 1, i - 1)
                        /\ pc \in {"cleanup", "exit"} /\ status \in {"alive", "return"} => there = Plan
    BY DEF FinishedIsOut
  <2>1. Reported(SubSeq(out, 1, flushed)) = Reported(out)
    BY DEF OutputInv, TextInv, Arrived
  <2>2. DOMAIN Plan = 1 .. Len(Plan)
    BY PlanTypes DEF MeasureInv, RunInv, CoreInv, ListInv
  <2>3. pc \in {"loop", "run", "report"} =>
          \E i \in DOMAIN Plan : Plan[i] = cursor /\ Reported(out) = SubSeq(Plan, 1, i - 1)
    BY <2>2 DEF OutputInv, OrderInv, InLoop, ReportedUpTo, First
  <2>4. pc \in {"cleanup", "exit"} /\ status \in {"alive", "return"} => Reported(out) = Plan
    BY DEF OutputInv, OrderInv, StatusInv
  <2> QED
    BY <2>1, <2>3, <2>4
<1> QED
  BY <1>1, OutputInvHolds, PTL

-----------------------------------------------------------------------------
(* What a reader of the output is promised.                                *)

\* What has arrived is a beginning of the output, and stays one.
LEMMA Arrivals ==
  ASSUME NEW s \in Seq(Tokens), NEW n \in 0 .. Len(s), NEW x \in Seq(Tokens),
         NEW m \in n .. Len(s \o x)
  PROVE  /\ SubSeq(s, 1, n) \in Seq(Tokens)
         /\ \E y \in Seq(Tokens) : SubSeq(s \o x, 1, m) = SubSeq(s, 1, n) \o y
<1> DEFINE t == s \o x
<1>1. /\ Len(s) \in Nat /\ t \in Seq(Tokens) /\ Len(t) \in Nat /\ Len(s) =< Len(t)
      /\ \A i \in 1 .. Len(s) : t[i] = s[i]
  <2>1. Len(s) \in Nat /\ Len(x) \in Nat /\ t \in Seq(Tokens) /\ Len(t) = Len(s) + Len(x)
    OBVIOUS
  <2> QED
    BY <2>1, ConcatProperties
<1> HIDE DEF t
<1>2. n \in Nat /\ m \in Nat /\ n =< m /\ m =< Len(t) /\ n =< Len(s)
  BY <1>1 DEF t
<1>3. /\ SubSeq(s, 1, n) = [i \in 1 .. n |-> s[i]] /\ SubSeq(s, 1, n) \in Seq(Tokens)
      /\ SubSeq(t, 1, m) = [i \in 1 .. m |-> t[i]] /\ SubSeq(t, 1, m) \in Seq(Tokens)
      /\ Len(SubSeq(s, 1, n)) = n /\ Len(SubSeq(t, 1, m)) = m
  BY <1>1, <1>2
<1> DEFINE y == [i \in 1 .. (m - n) |-> t[n + i]]
<1>4. y \in Seq(Tokens) /\ Len(y) = m - n
  <2>1. m - n \in Nat /\ \A i \in 1 .. (m - n) : n + i \in 1 .. Len(t)
    BY <1>1, <1>2
  <2>2. \A i \in 1 .. (m - n) : t[n + i] \in Tokens
    BY <1>1, <2>1
  <2> QED
    BY <2>1, <2>2
<1>5. SubSeq(t, 1, m) = SubSeq(s, 1, n) \o y
  <2> DEFINE u == SubSeq(s, 1, n) \o y
  <2>1. u \in Seq(Tokens) /\ Len(u) = m
    BY <1>2, <1>3, <1>4
  <2>2. ASSUME NEW i \in 1 .. m PROVE u[i] = t[i]
    <3>1. CASE i =< n
      BY <1>1, <1>2, <1>3, <1>4, <3>1
    <3>2. CASE ~(i =< n)
      <4>1. i - n \in 1 .. (m - n) /\ n + (i - n) = i
        BY <1>2, <3>2
      <4>2. u[i] = y[i - n]
        <5> HIDE DEF y
        <5> QED
          BY <1>2, <1>3, <1>4, <3>2, ConcatProperties
      <4>3. y[i - n] = t[n + (i - n)]
        BY <4>1
      <4> QED
        BY <4>1, <4>2, <4>3
    <3> QED
      BY <3>1, <3>2
  <2> HIDE DEF u
  <2>3. SubSeq(t, 1, m) = u
    BY <1>2, <1>3, <2>1, <2>2
  <2> QED
    BY <2>3 DEF u
<1> QED
  BY <1>3, <1>4, <1>5 DEF t

\* Of what is reported, what has arrived are the first benchmarks.
LEMMA ReportedBegins ==
  ASSUME NEW s \in Seq(Tokens), NEW n \in 0 .. Len(s), program \in Programs,
         NEW j \in 0 .. Len(Plan), Reported(s) = First(j)
  PROVE  \E l \in 0 .. Len(Plan) : Reported(SubSeq(s, 1, n)) = First(l)
<1>1. /\ Len(s) \in Nat /\ <<>> \in Seq(Tokens) /\ s \o <<>> = s
      /\ n \in 0 .. Len(s) /\ SubSeq(s, 1, Len(s)) = s
      /\ Len(s) \in n .. Len(s \o <<>>)
  BY ConcatEmptySeq
<1>2. /\ SubSeq(s, 1, n) \in Seq(Tokens)
      /\ \E y \in Seq(Tokens) : SubSeq(s \o <<>>, 1, Len(s)) = SubSeq(s, 1, n) \o y
  BY <1>1, Arrivals
<1>3. PICK y \in Seq(Tokens) : s = SubSeq(s, 1, n) \o y
  BY <1>1, <1>2
<1> DEFINE a == Reported(SubSeq(s, 1, n))
           b == Reported(y)
<1>4. First(j) = a \o b /\ a \in Seq(Names) /\ b \in Seq(Names)
  <2>1. Reported(s) = a \o b
    BY <1>2, <1>3, ReportedOfConcat
  <2> QED
    BY <1>2, <2>1, ReportedType
<1> HIDE DEF a, b
<1>5. /\ Plan \in Seq(Benchmarks) /\ Len(Plan) \in Nat
      /\ First(j) \in Seq(Benchmarks) /\ Len(First(j)) = j
  BY PlanTypes, Firsts
<1>6. /\ Len(a) \in Nat /\ Len(b) \in Nat /\ Len(a) + Len(b) = j
      /\ \A i \in 1 .. Len(a) : a[i] = First(j)[i]
  <2>1. Len(a) \in Nat /\ Len(b) \in Nat /\ Len(a \o b) = Len(a) + Len(b)
        /\ \A i \in 1 .. Len(a) : (a \o b)[i] = a[i]
    BY <1>4
  <2> QED
    BY <1>4, <1>5, <2>1
<1>7. Len(a) \in 0 .. Len(Plan) /\ \A i \in 1 .. Len(a) : First(j)[i] = Plan[i]
  <2>1. First(j) = [i \in 1 .. j |-> Plan[i]]
    BY <1>5 DEF First
  <2> QED
    BY <1>5, <1>6, <2>1
<1>8. a = First(Len(a))
  <2>1. First(Len(a)) = [i \in 1 .. Len(a) |-> Plan[i]]
    BY <1>5, <1>7 DEF First
  <2> QED
    BY <1>4, <1>6, <1>7, <2>1
<1> QED
  BY <1>7, <1>8 DEF a

LEMMA EndingSteps ==
  ASSUME [Next]_vars
  PROVE  /\ pc = "ended" => UNCHANGED <<pc, status, out, flushed>>
         /\ pc' = "ended" => UNCHANGED <<out, flushed>>
<1>1. pc = "ended" => UNCHANGED vars
  BY DEF Next, Main, Setup, Loop, Run, Shutdown, Done, vars, Register, AllRegistered,
         GetTmpDir, AtExitCleanup, ParseWord, ParsingEnds, SetOutputter, SetWarmup, Begin,
         NextBenchmark, WarmupRun, WarmupDone, MeasuredRun, MeasureDone, EndBenchmark, End, At,
         SetUp, chayai_papi_start, chayai_papi_read_counters, StartTime, Body, BodiesDone,
         BodyFails, EndTime, chayai_papi_stop_counters, TearDown, WarmupReturns, MeasuredReturns,
         CleanupArguments, benchmark_cleanup, chayai_remove_tmp_dir, FlushStdout, Terminate
<1>2. pc' = "ended" => ~(NextBenchmark \/ EndBenchmark \/ End)
  BY DEF NextBenchmark, EndBenchmark, End, Goto
<1>3. FlushStdout => pc' # "ended"
  BY DEF FlushStdout
<1>4. pc' = "ended" => UNCHANGED <<out, flushed>>
  BY <1>2, <1>3, OutputSteps
<1> QED
  BY <1>1, <1>4 DEF vars, output

LEMMA StepsImplementReport ==
  MeasureInv /\ OutputInv /\ OutputInv' /\ [Next]_vars => [Report!Next]_(Report!vars)
<1> SUFFICES ASSUME MeasureInv, OutputInv, OutputInv', [Next]_vars
             PROVE  [Report!Next]_(Report!vars)
  OBVIOUS
<1> DEFINE reported == Reported(SubSeq(out, 1, flushed))
           state == IF pc # "ended" THEN "running"
                    ELSE IF status = "return" THEN "complete" ELSE "failed"
<1>1. program \in Programs /\ program' = program /\ Plan' = Plan
  <2>1. program \in Programs
    BY DEF MeasureInv, RunInv, CoreInv, ListInv
  <2>2. CASE Next
    BY <2>1, <2>2, OthersKeepRegistry DEF Register, registry, Plan
  <2>3. CASE UNCHANGED vars
    BY <2>1, <2>3 DEF vars, Plan
  <2> QED
    BY <2>2, <2>3
<1>2. CASE ~Distinct
  BY <1>1, <1>2 DEF Report!Next, Report!OutsideThePromise, Report!Distinct, Distinct
<1>3. CASE Distinct /\ pc = "ended"
  <2>1. UNCHANGED <<pc, status, out, flushed>>
    BY <1>3, EndingSteps
  <2> QED
    BY <1>1, <2>1 DEF Report!vars
<1>4. CASE Distinct /\ pc # "ended" /\ pc' = "ended"
  <2>1. UNCHANGED <<out, flushed>> /\ reported' = reported
    BY <1>4, EndingSteps
  <2>2. state = "running" /\ state' = IF status' = "return" THEN "complete" ELSE "failed"
    BY <1>4
  <2>3. CASE status' = "return"
    <3>1. flushed' = Len(out') /\ Reported(out') = Plan' /\ out' \in Seq(Tokens)
      BY <1>1, <1>4, <2>3 DEF OutputInv, StatusInv, OrderInv, Distinct, TextInv
    <3>2. SubSeq(out', 1, flushed') = out'
      BY <3>1
    <3>3. reported = Plan
      BY <1>1, <2>1, <3>1, <3>2
    <3> QED
      BY <1>1, <1>4, <2>1, <2>2, <2>3, <3>3 DEF Report!Next, Report!Complete, Report!Distinct, Distinct
  <2>4. CASE status' # "return"
    BY <1>1, <2>1, <2>2, <2>4 DEF Report!Next, Report!Fail
  <2> QED
    BY <2>3, <2>4
<1>5. CASE Distinct /\ pc # "ended" /\ pc' # "ended"
  <2>1. state = "running" /\ state' = "running"
    BY <1>5
  <2>2. /\ out \in Seq(Tokens) /\ flushed \in 0 .. Len(out)
        /\ out' \in Seq(Tokens) /\ flushed' \in 0 .. Len(out')
    BY DEF OutputInv, TextInv
  <2>3. PICK y \in Seq(Tokens) : SubSeq(out', 1, flushed') = SubSeq(out, 1, flushed) \o y
    <3>1. PICK x \in Seq(Tokens) : out' = out \o x
      BY OutputGrows DEF MeasureInv, RunInv, OutputInv
    <3>2. flushed' \in flushed .. Len(out \o x)
      BY <3>1, OutputGrows DEF MeasureInv, RunInv, OutputInv
    <3> QED
      BY <2>2, <3>1, <3>2, Arrivals
  <2>4. /\ SubSeq(out, 1, flushed) \in Seq(Tokens)
        /\ reported' = reported \o Reported(y)
        /\ reported \in Seq(Names) /\ Reported(y) \in Seq(Names)
    <3>1. SubSeq(out, 1, flushed) \in Seq(Tokens)
      BY <2>2
    <3> QED
      BY <2>3, <3>1, ReportedOfConcat, ReportedType
  <2>5. PICK n \in 0 .. Len(Plan) : reported' = First(n)
    <3>1. PICK j \in 0 .. Len(Plan) : Reported(out') = First(j)
      BY <1>1, <1>5 DEF OutputInv, OrderInv, Distinct, First
    <3> QED
      BY <1>1, <2>2, <3>1, ReportedBegins
  <2> HIDE DEF reported, state
  <2>6. Len(reported) \in Nat /\ Len(Plan) \in Nat /\ Len(First(n)) = n
    BY <1>1, <2>4, PlanTypes, Firsts
  <2>7. CASE Reported(y) = <<>>
    <3>1. reported' = reported
      BY <2>4, <2>7, ConcatEmptySeq
    <3> QED
      BY <1>1, <2>1, <3>1 DEF Report!vars, reported, state
  <2>8. CASE Reported(y) # <<>>
    <3>1. n \in (Len(reported) + 1) .. Len(Plan)
      <4>1. Len(Reported(y)) \in Nat \ {0} /\ Len(reported') = Len(reported) + Len(Reported(y))
        BY <2>4, <2>8, EmptySeq
      <4> QED
        BY <2>5, <2>6, <4>1
    <3>2. reported' = SubSeq(Plan, 1, n)
      BY <2>5 DEF First
    <3> QED
      BY <1>1, <1>5, <2>1, <3>1, <3>2 DEF Report!Next, Report!Report, Report!Distinct, Distinct,
         reported, state
  <2> QED
    BY <2>7, <2>8
<1> QED
  BY <1>2, <1>3, <1>4, <1>5

\* For every plan, command line and failure, what has left the process are the first benchmarks
\* of the plan, none is taken back, and main returns only with all of them out
\* (chayai_benchmarker.c:62-144): a run of a harness is a behaviour of BenchmarkReport.
THEOREM ReportIsImplemented == Spec => ImplementsReport
<1>1. Init => Report!Init
  <2> SUFFICES ASSUME Init PROVE Report!Init
    OBVIOUS
  <2>1. /\ Plan \in {p.plan : p \in Programs} /\ pc # "ended" /\ out = <<>> /\ flushed = 0
    BY DEF Init, Plan
  <2>2. SubSeq(out, 1, flushed) = <<>>
    BY <2>1
  <2>3. Reported(<<>>) = <<>>
    BY ClosedOfEmpty DEF Reported
  <2> QED
    BY <2>1, <2>2, <2>3 DEF Report!Init
<1> QED
  BY <1>1, StepsImplementReport, OutputInvHolds, PTL DEF Spec, ImplementsReport, Report!Spec

-----------------------------------------------------------------------------
(* Types.                                                                  *)

\* What the other invariants leave open of the types.
PlaceInv ==
  /\ pc \in {"register", "directory", "arguments", "outputter", "set_warmup", "next", "loop", "run",
             "report", "cleanup", "exit", "ended"}
  /\ nbBenchmarksRegistered = registered
  /\ step \in 1 .. 9 /\ fixtures \in Nat
  /\ dir \in {"none", "made", "left", "removed"} /\ file \in BOOLEAN
  /\ status \in {"alive", "return", "crash", "exit", "help", "usage", "exit2"}

LEMMA NextPlaceInv ==
  CoreInv /\ (CoreInv /\ FixtureInv)' /\ PlaceInv /\ [Next]_vars => PlaceInv'
<1> SUFFICES ASSUME CoreInv, (CoreInv /\ FixtureInv)', PlaceInv, [Next]_vars PROVE PlaceInv'
  OBVIOUS
<1>0. pc' = "run" => step' \in 1 .. 9 /\ fixtures' \in Nat
  <2> SUFFICES ASSUME pc' = "run" PROVE step' \in 1 .. 9 /\ fixtures' \in Nat
    OBVIOUS
  <2>1. /\ step' \in 1 .. (IF WithFixture(cursor)' THEN 9 ELSE 7)
        /\ fixtures' = Held(cursor', step')
    BY DEF FixtureInv
  <2>2. step' \in 1 .. 9
    BY <2>1
  <2>3. fixtures' \in Nat
    BY <2>1 DEF Held
  <2> QED
    BY <2>2, <2>3
<1>1. /\ pc' \in {"register", "directory", "arguments", "outputter", "set_warmup", "next", "loop",
                  "run", "report", "cleanup", "exit", "ended"}
      /\ status' \in {"alive", "return", "crash", "exit", "help", "usage", "exit2"}
      /\ dir' \in {"none", "made", "left", "removed"} /\ file' \in BOOLEAN
  <2> USE DEF Goto, Exit, Crash, PlaceInv, files, loops, running
  <2>1. CASE Main
    BY <2>1 DEF Main, Register, AllRegistered, GetTmpDir, AtExitCleanup
  <2>2. CASE Setup
    BY <2>2 DEF Setup, ParseWord, ParsingEnds, SetOutputter, SetWarmup, Begin, CoreInv, Arguments
  <2>3. CASE Loop
    BY <2>3 DEF Loop, NextBenchmark, WarmupRun, WarmupDone, MeasuredRun, MeasureDone, EndBenchmark,
                End, Enter
  <2>4. CASE Run
    BY <2>4 DEF Run, SetUp, chayai_papi_start, chayai_papi_read_counters, StartTime, Body,
                BodiesDone, BodyFails, EndTime, chayai_papi_stop_counters, TearDown,
                WarmupReturns, MeasuredReturns, Proceed, At, Leave
  <2>5. CASE Shutdown
    BY <2>5 DEF Shutdown, CleanupArguments, benchmark_cleanup, chayai_remove_tmp_dir, FlushStdout,
                Terminate
  <2>6. CASE Done \/ UNCHANGED vars
    BY <2>6 DEF Done, vars
  <2> QED
    BY <2>1, <2>2, <2>3, <2>4, <2>5, <2>6 DEF Next
<1>2. nbBenchmarksRegistered' = registered'
  <2> USE DEF PlaceInv, list
  <2>1. CASE Main
    BY <2>1 DEF Main, Register, chayai_register_benchmark, AllRegistered, GetTmpDir, AtExitCleanup
  <2>2. CASE Setup
    BY <2>2 DEF Setup, ParseWord, ParsingEnds, SetOutputter, SetWarmup, Begin
  <2>3. CASE Loop
    BY <2>3 DEF Loop, NextBenchmark, WarmupRun, WarmupDone, MeasuredRun, MeasureDone, EndBenchmark,
                End, Enter
  <2>4. CASE Run
    BY <2>4 DEF Run, SetUp, chayai_papi_start, chayai_papi_read_counters, StartTime, Body,
                BodiesDone, BodyFails, EndTime, chayai_papi_stop_counters, TearDown,
                WarmupReturns, MeasuredReturns, Proceed, Leave
  <2>5. CASE Shutdown
    BY <2>5 DEF Shutdown, CleanupArguments, benchmark_cleanup, chayai_remove_tmp_dir, FlushStdout,
                Terminate
  <2>6. CASE Done \/ UNCHANGED vars
    BY <2>6 DEF Done, vars
  <2> QED
    BY <2>1, <2>2, <2>3, <2>4, <2>5, <2>6 DEF Next
<1>3. step' \in 1 .. 9 /\ fixtures' \in Nat
  <2> USE DEF PlaceInv, loops, running
  <2>1. CASE Main
    BY <2>1 DEF Main, Register, AllRegistered, GetTmpDir, AtExitCleanup
  <2>2. CASE Setup
    BY <2>2 DEF Setup, ParseWord, ParsingEnds, SetOutputter, SetWarmup, Begin
  <2>3. CASE Loop
    BY <2>3 DEF Loop, NextBenchmark, WarmupRun, WarmupDone, MeasuredRun, MeasureDone, EndBenchmark,
                End, Enter
  <2>4. CASE Run
    <3>1. pc' = "run" \/ (step' \in {step, 1} /\ fixtures' = fixtures)
      BY <2>4 DEF Run, SetUp, chayai_papi_start, chayai_papi_read_counters, StartTime, Body,
                  BodiesDone, BodyFails, EndTime, chayai_papi_stop_counters, TearDown,
                  WarmupReturns, MeasuredReturns, Proceed, At, Leave, Goto, Exit, Crash
    <3> QED
      BY <1>0, <3>1
  <2>5. CASE Shutdown
    BY <2>5 DEF Shutdown, CleanupArguments, benchmark_cleanup, chayai_remove_tmp_dir, FlushStdout,
                Terminate
  <2>6. CASE Done \/ UNCHANGED vars
    BY <2>6 DEF Done, vars
  <2> QED
    BY <2>1, <2>2, <2>3, <2>4, <2>5, <2>6 DEF Next
<1> QED
  BY <1>1, <1>2, <1>3 DEF PlaceInv

LEMMA LastType ==
  ASSUME ListInv
  PROVE  last \in Benchmarks \cup {NULL}
<1>1. CASE registered = 0
  BY <1>1 DEF ListInv, ListIsPlan
<1>2. CASE registered # 0
  <2>1. registered \in 1 .. Len(Plan) /\ last = Plan[registered]
    BY <1>2, PlanTypes DEF ListInv, ListIsPlan
  <2> QED
    BY <2>1, PlanTypes DEF ListInv
<1> QED
  BY <1>1, <1>2

\* Every variable has its type, whatever the plan, the command line and the macros, and
\* whatever fails; the numbers of the command line stay unsigned (chayai_main.c:26-51).
THEOREM TypeCorrect == Spec => []TypeOK
<1>1. Init => PlaceInv
  <2> SUFFICES ASSUME Init PROVE PlaceInv
    OBVIOUS
  <2>1. /\ pc = "register" /\ nbBenchmarksRegistered = registered /\ step = 1 /\ fixtures = 0
        /\ dir = "none" /\ file = FALSE /\ status = "alive"
    BY DEF Init
  <2>2. file \in BOOLEAN
    BY <2>1, Zenon
  <2>3. step \in 1 .. 9 /\ fixtures \in Nat
    BY <2>1
  <2> QED
    BY <2>1, <2>2, <2>3, Zenon DEF PlaceInv
<1>2. MeasureInv /\ MeasureInv' /\ PlaceInv /\ [Next]_vars => PlaceInv'
  BY NextPlaceInv DEF MeasureInv, RunInv
<1>3. MeasureInv /\ OutputInv /\ PlaceInv => TypeOK
  <2> SUFFICES ASSUME MeasureInv, OutputInv, PlaceInv PROVE TypeOK
    OBVIOUS
  <2>1. CoreInv /\ ListInv /\ RunTypes /\ HeapInv /\ TextInv
    BY DEF MeasureInv, RunInv, CoreInv, OutputInv
  <2>2. {first, last, cursor} \subseteq Benchmarks \cup {NULL}
    BY <2>1, FirstType, LastType DEF CoreInv
  <2> QED
    BY <2>1, <2>2 DEF TypeOK, CoreInv, ListInv, RunTypes, EventSets, HeapInv, TextInv, PlaceInv
<1> QED
  BY <1>1, <1>2, <1>3, MeasureInvHolds, OutputInvHolds, PTL DEF Spec

-----------------------------------------------------------------------------
(* The number of runs that was asked for.                                  *)

\* What the last -i among the first n words asks for, and 0 without one.
Given(n) == {i \in 1 .. n : program.words[i].key = "i"}
NumberGiven(n) == IF Given(n) = {} THEN 0 ELSE program.words[Max(Given(n))].value

ParsedInv ==
  /\ AskedFits /\ arguments.outcome = "ok" => arguments.benchmarkIterations = NumberGiven(parsed)
  /\ pc \notin {"register", "directory", "arguments", "exit", "ended"} \/ status = "return" =>
       arguments.outcome = "ok" /\ parsed = Len(program.words)
  /\ InLoop => result.runs = RunsOf(cursor)

LEMMA LastGiven ==
  ASSUME NEW n \in Nat
  PROVE  NumberGiven(n + 1) = IF program.words[n + 1].key = "i" THEN program.words[n + 1].value
                              ELSE NumberGiven(n)
<1>1. CASE program.words[n + 1].key = "i"
  <2>1. n + 1 \in Given(n + 1) /\ \A i \in Given(n + 1) : i \in Nat /\ n + 1 >= i
    BY <1>1 DEF Given
  <2>2. Max(Given(n + 1)) = n + 1
    BY <2>1 DEF Max
  <2> QED
    BY <1>1, <2>1, <2>2 DEF NumberGiven
<1>2. CASE program.words[n + 1].key # "i"
  <2>1. Given(n + 1) = Given(n)
    BY <1>2 DEF Given
  <2> QED
    BY <1>2, <2>1 DEF NumberGiven
<1> QED
  BY <1>1, <1>2

LEMMA NoneGiven == NumberGiven(0) = 0
BY DEF NumberGiven, Given

\* A number that fits is read as it stands.
LEMMA FittingNumber ==
  ASSUME NEW w \in Words, w.value \in 0 .. (UINT - 1), read_unsigned_int_arg(w) # <<>>
  PROVE  read_unsigned_int_arg(w)[1] = w.value
<1>1. w.value \in Nat /\ UINT \in Nat /\ LONG \in Nat /\ w.value < UINT /\ UINT =< LONG
  BY WidthAssumption
<1>2. strtol(w.value) = w.value
  BY <1>1 DEF strtol
<1>3. w.value % UINT = w.value
  BY <1>1
<1> QED
  BY <1>2, <1>3 DEF read_unsigned_int_arg

LEMMA WordSetsRuns ==
  ASSUME NEW a \in Arguments, NEW w \in Words, a.outcome = "ok", chayai_parse_opt(a, w).outcome = "ok",
         w.key = "i" => w.value \in 0 .. (UINT - 1)
  PROVE  chayai_parse_opt(a, w).benchmarkIterations
           = IF w.key = "i" THEN w.value ELSE a.benchmarkIterations
<1> DEFINE n == read_unsigned_int_arg(w)
<1>1. \A how \in {"usage", "help", "exit2", "crash"} : Ends(a, how).outcome = how
  BY DEF Ends, Arguments
<1>2. CASE w.key = "i"
  <2>1. chayai_parse_opt(a, w) = ReadInto(a, "benchmarkIterations", w)
    BY <1>2 DEF chayai_parse_opt
  <2>2. n # <<>>
    BY <1>1, <2>1 DEF ReadInto
  <2>3. chayai_parse_opt(a, w) = [a EXCEPT !["benchmarkIterations"] = n[1]]
    BY <2>1, <2>2 DEF ReadInto
  <2>4. n[1] = w.value
    BY <1>2, <2>2, FittingNumber
  <2> QED
    BY <1>2, <2>3, <2>4 DEF Arguments
<1>3. CASE w.key = "w"
  <2>1. chayai_parse_opt(a, w) = ReadInto(a, "warmupIterations", w)
    BY <1>3 DEF chayai_parse_opt
  <2>2. n # <<>>
    BY <1>1, <2>1 DEF ReadInto
  <2>3. chayai_parse_opt(a, w) = [a EXCEPT !["warmupIterations"] = n[1]]
    BY <2>1, <2>2 DEF ReadInto
  <2> QED
    BY <1>3, <2>3 DEF Arguments
<1>4. CASE w.key = "o"
  BY <1>1, <1>4 DEF chayai_parse_opt, parse_output, Arguments
<1>5. CASE w.key = "p"
  <2>1. chayai_parse_opt(a, w) = parse_papi(a, w)
    BY <1>5 DEF chayai_parse_opt
  <2>2. parse_papi(a, w).benchmarkIterations = a.benchmarkIterations
    BY DEF parse_papi, Ends, Arguments
  <2> QED
    BY <1>5, <2>1, <2>2
<1>6. CASE w.key \notin {"i", "w", "o", "p"}
  BY <1>1, <1>6 DEF chayai_parse_opt
<1> QED
  BY <1>2, <1>3, <1>4, <1>5, <1>6

\* The number of runs is decided when a benchmark begins.
LEMMA RunsStay ==
  ASSUME CoreInv, [Next]_vars, InLoop'
  PROVE  \/ NextBenchmark
         \/ InLoop /\ cursor' = cursor /\ result'.runs = result.runs /\ arguments' = arguments
<1> USE DEF Goto, Exit, Crash, InLoop, loops
<1>1. CASE Main
  BY <1>1 DEF Main, Register, AllRegistered, GetTmpDir, AtExitCleanup
<1>2. CASE Setup
  BY <1>2 DEF Setup, ParseWord, ParsingEnds, SetOutputter, SetWarmup, Begin
<1>3. CASE Loop
  BY <1>3 DEF Loop, WarmupRun, WarmupDone, MeasuredRun, MeasureDone, EndBenchmark, End, Enter
<1>4. CASE Run
  <2>1. CASE MeasuredReturns
    BY <2>1 DEF MeasuredReturns, Totals, CoreInv, Results, Leave, At
  <2> QED
    BY <1>4, <2>1 DEF Run, SetUp, chayai_papi_start, chayai_papi_read_counters, StartTime, Body,
              BodiesDone, BodyFails, EndTime, chayai_papi_stop_counters, TearDown, WarmupReturns,
              Proceed, At, Leave
<1>5. CASE Shutdown
  BY <1>5 DEF Shutdown, CleanupArguments, benchmark_cleanup, chayai_remove_tmp_dir, FlushStdout,
              Terminate
<1>6. CASE Done \/ UNCHANGED vars
  BY <1>6 DEF Done, vars
<1> QED
  BY <1>1, <1>2, <1>3, <1>4, <1>5, <1>6 DEF Next

\* The command line is read before anything else.
LEMMA ParsingSteps ==
  ASSUME CoreInv, StatusInv, [Next]_vars
  PROVE  /\ program' = program
         /\ \/ ParseWord
            \/ UNCHANGED <<arguments, parsed>>
         /\ pc' \notin {"register", "directory", "arguments", "exit", "ended"} \/ status' = "return" =>
              \/ pc \notin {"register", "directory", "arguments", "exit", "ended"} \/ status = "return"
              \/ ParsingEnds /\ arguments.outcome = "ok"
<1> USE DEF Goto, Exit, Crash, StatusInv
<1>1. CASE Main
  BY <1>1 DEF Main, Register, AllRegistered, GetTmpDir, AtExitCleanup
<1>2. CASE Setup
  BY <1>2 DEF Setup, ParseWord, ParsingEnds, SetOutputter, SetWarmup, Begin, CoreInv, Arguments
<1>3. CASE Loop
  BY <1>3 DEF Loop, NextBenchmark, WarmupRun, WarmupDone, MeasuredRun, MeasureDone, EndBenchmark, End,
              Enter
<1>4. CASE Run
  BY <1>4 DEF Run, SetUp, chayai_papi_start, chayai_papi_read_counters, StartTime, Body,
              BodiesDone, BodyFails, EndTime, chayai_papi_stop_counters, TearDown, WarmupReturns,
              MeasuredReturns, Proceed, At, Leave
<1>5. CASE Shutdown
  BY <1>5 DEF Shutdown, CleanupArguments, benchmark_cleanup, chayai_remove_tmp_dir, FlushStdout,
              Terminate
<1>6. CASE Done \/ UNCHANGED vars
  BY <1>6 DEF Done, vars
<1> QED
  BY <1>1, <1>2, <1>3, <1>4, <1>5, <1>6 DEF Next

LEMMA NextParsedInv == CoreInv /\ StatusInv /\ ParsedInv /\ [Next]_vars => ParsedInv'
<1> SUFFICES ASSUME CoreInv, StatusInv, ParsedInv, [Next]_vars PROVE ParsedInv'
  OBVIOUS
<1>1. program' = program /\ program \in Programs
  BY ParsingSteps DEF CoreInv, ListInv
<1>2. AskedFits' = AskedFits /\ \A n : NumberGiven(n)' = NumberGiven(n)
  BY <1>1 DEF AskedFits, NumberGiven, Given
<1>3. ASSUME AskedFits, arguments'.outcome = "ok"
      PROVE  arguments'.benchmarkIterations = NumberGiven(parsed')
  <2>1. CASE ParseWord
    <3> DEFINE w == program.words[parsed + 1]
    <3>1. /\ arguments.outcome = "ok" /\ parsed < Len(program.words) /\ parsed' = parsed + 1
          /\ arguments' = chayai_parse_opt(arguments, w)
      BY <2>1 DEF ParseWord
    <3>2. parsed \in Nat /\ parsed + 1 \in 1 .. Len(program.words) /\ Len(program.words) \in Nat
      BY <1>1, <3>1, WordTypes DEF CoreInv
    <3>3. w \in Words /\ parsed + 1 \in DOMAIN program.words
      BY <1>1, <3>2, WordTypes, ProgramsAssumption DEF WordsFit
    <3>4. w.key = "i" => w.value \in 0 .. (UINT - 1)
      BY <1>3, <3>3 DEF AskedFits
    <3>5. arguments'.benchmarkIterations = IF w.key = "i" THEN w.value ELSE arguments.benchmarkIterations
      BY <1>3, <3>1, <3>3, <3>4, WordSetsRuns DEF CoreInv
    <3> QED
      BY <1>3, <3>1, <3>2, <3>5, LastGiven DEF ParsedInv
  <2>2. CASE UNCHANGED <<arguments, parsed>>
    BY <1>3, <2>2 DEF ParsedInv
  <2> QED
    BY <2>1, <2>2, ParsingSteps
<1>4. ASSUME pc' \notin {"register", "directory", "arguments", "exit", "ended"} \/ status' = "return"
      PROVE  arguments'.outcome = "ok" /\ parsed' = Len(program'.words)
  <2>1. CASE ParsingEnds /\ arguments.outcome = "ok"
    BY <1>1, <2>1 DEF ParsingEnds
  <2>2. CASE pc \notin {"register", "directory", "arguments", "exit", "ended"} \/ status = "return"
    <3>1. ~ParseWord
      BY <2>2 DEF ParseWord, StatusInv
    <3> QED
      BY <1>1, <2>2, <3>1, ParsingSteps DEF ParsedInv
  <2> QED
    BY <1>4, <2>1, <2>2, ParsingSteps
<1>5. ASSUME InLoop' PROVE result'.runs = RunsOf(cursor)'
  <2>1. CASE NextBenchmark
    <3>1. arguments' = arguments /\ cursor' = cursor /\ result'.runs = RunsOf(cursor)
      BY <2>1 DEF NextBenchmark, NoResult
    <3> QED
      BY <3>1 DEF RunsOf
  <2>2. CASE InLoop /\ cursor' = cursor /\ result'.runs = result.runs /\ arguments' = arguments
    BY <2>2 DEF ParsedInv, RunsOf
  <2> QED
    BY <1>5, <2>1, <2>2, RunsStay
<1> QED
  BY <1>1, <1>2, <1>3, <1>4, <1>5 DEF ParsedInv

\* Past the command line, a benchmark runs as often as was asked for.
LEMMA AskedIsRun ==
  ASSUME CoreInv, ParsedInv, AskedFits, arguments.outcome = "ok", parsed = Len(program.words),
         NEW d \in Benchmarks
  PROVE  RunsOf(d) = Asked(d)
<1>1. DOMAIN program.words = 1 .. Len(program.words)
  BY ProgramsAssumption DEF CoreInv, ListInv
<1>2. /\ arguments.benchmarkIterations = NumberGiven(Len(program.words))
      /\ arguments.benchmarkIterations \in Nat
  BY WidthAssumption DEF ParsedInv, CoreInv, Arguments
<1>3. descriptor(d).runs = Macro[d].runs
  BY MacroAssumption DEF descriptor, BENCHMARK_descriptor, BENCHMARK_P_descriptor,
     BENCHMARK_F_descriptor, BENCHMARK_P_F_descriptor, Descriptor, Kinds
<1>4. Asked(d) = IF NumberGiven(Len(program.words)) = 0 THEN Macro[d].runs
                 ELSE NumberGiven(Len(program.words))
  BY <1>1 DEF Asked, NumberGiven, Given
<1> QED
  BY <1>2, <1>3, <1>4 DEF RunsOf

-----------------------------------------------------------------------------
(* The JSON text as a chain of tokens.                                     *)

\* Each token may follow the one before it.
Chained(s) == \A i \in 1 .. (Len(s) - 1) : <<s[i].kind, s[i + 1].kind>> \in Follows
RunTokens(s) == {i \in 1 .. Len(s) : s[i].kind = "run"}

LEMMA ChainedConcat ==
  ASSUME NEW s \in Seq(Tokens), NEW t \in Seq(Tokens), s # <<>>, t # <<>>
  PROVE  Chained(s \o t) <=> /\ Chained(s) /\ Chained(t)
                             /\ <<s[Len(s)].kind, t[1].kind>> \in Follows
<1> DEFINE u == s \o t
           m == Len(s)
           n == Len(t)
           Linked_(x, i) == <<x[i].kind, x[i + 1].kind>> \in Follows
<1>1. /\ m \in Nat /\ n \in Nat /\ m > 0 /\ n > 0 /\ Len(u) = m + n
      /\ \A i \in 1 .. m : u[i] = s[i]
      /\ \A i \in 1 .. n : u[m + i] = t[i]
  <2>1. m \in Nat /\ n \in Nat /\ m > 0 /\ n > 0 /\ Len(u) = m + n
    BY EmptySeq, LenProperties, ConcatProperties
  <2>2. \A i \in 1 .. (m + n) : u[i] = IF i =< m THEN s[i] ELSE t[i - m]
    BY ConcatProperties
  <2>3. ASSUME NEW i \in 1 .. n PROVE u[m + i] = t[i]
    <3>1. m + i \in 1 .. (m + n) /\ ~(m + i =< m) /\ (m + i) - m = i
      BY <2>1
    <3> QED
      BY <2>2, <3>1
  <2> QED
    BY <2>1, <2>2, <2>3
<1> HIDE DEF u, m, n
<1>2. Chained(u) <=> \A i \in 1 .. (m + n - 1) : Linked_(u, i)
  BY <1>1 DEF Chained
<1>3. Chained(s) <=> \A i \in 1 .. (m - 1) : Linked_(s, i)
  BY DEF Chained, m
<1>4. Chained(t) <=> \A i \in 1 .. (n - 1) : Linked_(t, i)
  BY DEF Chained, n
<1>5. \A i \in 1 .. (m - 1) : u[i] = s[i] /\ u[i + 1] = s[i + 1]
  BY <1>1
<1>6. u[m] = s[m] /\ u[m + 1] = t[1]
  BY <1>1
<1>7. \A i \in 1 .. (n - 1) : u[m + i] = t[i] /\ u[(m + i) + 1] = t[i + 1]
  <2> SUFFICES ASSUME NEW i \in 1 .. (n - 1) PROVE u[m + i] = t[i] /\ u[(m + i) + 1] = t[i + 1]
    OBVIOUS
  <2>1. i \in 1 .. n /\ i + 1 \in 1 .. n /\ m + (i + 1) = (m + i) + 1
    BY <1>1
  <2> QED
    BY <1>1, <2>1
<1>8. /\ \A i \in 1 .. (m - 1) : Linked_(u, i) <=> Linked_(s, i)
      /\ \A i \in 1 .. (n - 1) : Linked_(u, m + i) <=> Linked_(t, i)
      /\ Linked_(u, m) <=> <<s[m].kind, t[1].kind>> \in Follows
  BY <1>5, <1>6, <1>7
<1> HIDE DEF Linked_
<1>9. ASSUME \A i \in 1 .. (m + n - 1) : Linked_(u, i)
      PROVE  /\ \A i \in 1 .. (m - 1) : Linked_(s, i)
             /\ \A i \in 1 .. (n - 1) : Linked_(t, i)
             /\ Linked_(u, m)
  <2>1. \A i \in 1 .. (m - 1) : i \in 1 .. (m + n - 1)
    BY <1>1
  <2>2. \A i \in 1 .. (n - 1) : m + i \in 1 .. (m + n - 1)
    BY <1>1
  <2>3. m \in 1 .. (m + n - 1)
    BY <1>1
  <2> QED
    BY <1>8, <1>9, <2>1, <2>2, <2>3
<1>10. ASSUME \A i \in 1 .. (m - 1) : Linked_(s, i),
              \A i \in 1 .. (n - 1) : Linked_(t, i),
              Linked_(u, m), NEW i \in 1 .. (m + n - 1)
       PROVE  Linked_(u, i)
  <2>1. CASE i < m
    <3>1. i \in 1 .. (m - 1)
      BY <1>1, <2>1
    <3> QED
      BY <1>8, <1>10, <3>1
  <2>2. CASE i = m
    BY <1>10, <2>2
  <2>3. CASE i > m
    <3>1. i - m \in 1 .. (n - 1) /\ m + (i - m) = i
      BY <1>1, <2>3
    <3> QED
      BY <1>8, <1>10, <3>1
  <2> QED
    BY <1>1, <2>1, <2>2, <2>3
<1> QED
  BY <1>2, <1>3, <1>4, <1>8, <1>9, <1>10 DEF u, m

LEMMA ShiftedSet ==
  ASSUME NEW T, T \subseteq Nat, IsFiniteSet(T), NEW m \in Nat
  PROVE  LET S == {m + i : i \in T} IN IsFiniteSet(S) /\ Cardinality(S) = Cardinality(T)
<1> DEFINE S == {m + i : i \in T}
           f == [i \in T |-> m + i]
<1>1. f \in [T -> S] /\ \A y \in S : \E i \in T : f[i] = y
  OBVIOUS
<1>2. \A i, j \in T : f[i] = f[j] => i = j
  OBVIOUS
<1>3. f \in Bijection(T, S)
  <2> HIDE DEF S, f
  <2> QED
    BY <1>1, <1>2 DEF Bijection, Injection, Surjection, IsInjective
<1> QED
  BY <1>3, FS_Bijection DEF ExistsBijection

LEMMA RunTokensFinite ==
  ASSUME NEW s \in Seq(Tokens)
  PROVE  IsFiniteSet(RunTokens(s)) /\ Cardinality(RunTokens(s)) \in Nat
<1>1. Len(s) \in Nat
  BY LenProperties
<1>2. IsFiniteSet(1 .. Len(s)) /\ RunTokens(s) \in SUBSET (1 .. Len(s))
  BY <1>1, FS_Interval DEF RunTokens
<1> QED
  BY <1>2, FS_Subset, FS_CardinalityType

LEMMA RunTokensConcat ==
  ASSUME NEW s \in Seq(Tokens), NEW t \in Seq(Tokens)
  PROVE  Cardinality(RunTokens(s \o t)) = Cardinality(RunTokens(s)) + Cardinality(RunTokens(t))
<1> DEFINE u == s \o t
           m == Len(s)
           n == Len(t)
           R == RunTokens(s)
           T == RunTokens(t)
           S == {m + i : i \in T}
<1>1. /\ m \in Nat /\ n \in Nat /\ Len(u) = m + n
      /\ \A i \in 1 .. (m + n) : u[i] = IF i =< m THEN s[i] ELSE t[i - m]
  BY LenProperties, ConcatProperties
<1>2. RunTokens(u) = R \cup S
  <2>1. ASSUME NEW i \in RunTokens(u) PROVE i \in R \cup S
    <3>1. i \in 1 .. (m + n) /\ u[i].kind = "run"
      BY <1>1 DEF RunTokens
    <3>2. CASE i =< m
      BY <1>1, <3>1, <3>2 DEF RunTokens
    <3>3. CASE ~(i =< m)
      <4>1. i - m \in 1 .. n /\ m + (i - m) = i /\ t[i - m].kind = "run"
        BY <1>1, <3>1, <3>3
      <4>2. i - m \in T
        BY <4>1 DEF RunTokens
      <4> QED
        BY <4>1, <4>2
    <3> QED
      BY <3>2, <3>3
  <2>2. ASSUME NEW i \in R PROVE i \in RunTokens(u)
    BY <1>1 DEF RunTokens
  <2>3. ASSUME NEW i \in T PROVE m + i \in RunTokens(u)
    <3>1. i \in 1 .. n /\ t[i].kind = "run"
      BY DEF RunTokens
    <3>2. m + i \in 1 .. (m + n) /\ ~(m + i =< m) /\ (m + i) - m = i
      BY <1>1, <3>1
    <3>3. u[m + i] = t[i]
      BY <1>1, <3>2
    <3> QED
      BY <1>1, <3>1, <3>2, <3>3 DEF RunTokens
  <2> QED
    BY <2>1, <2>2, <2>3
<1>3. IsFiniteSet(R) /\ IsFiniteSet(T) /\ Cardinality(R) \in Nat /\ Cardinality(T) \in Nat
  BY RunTokensFinite
<1>4. IsFiniteSet(S) /\ Cardinality(S) = Cardinality(T)
  <2>1. T \subseteq Nat
    BY <1>1 DEF RunTokens
  <2> HIDE DEF T
  <2> QED
    BY <1>1, <1>3, <2>1, ShiftedSet
<1>5. R \cap S = {}
  BY <1>1 DEF RunTokens
<1>6. Cardinality(R \cup S) = Cardinality(R) + Cardinality(S)
  <2>1. Cardinality(R \cup S) = Cardinality(R) + Cardinality(S) - Cardinality(R \cap S)
    BY <1>3, <1>4, FS_Union
  <2>2. Cardinality(R \cap S) = 0
    <3> HIDE DEF R, S
    <3> QED
      BY <1>5, FS_EmptySet
  <2>3. Cardinality(S) \in Nat
    <3> HIDE DEF R, S
    <3> QED
      BY <1>3, <1>4
  <2> HIDE DEF R, S
  <2> QED
    BY <1>3, <2>1, <2>2, <2>3
<1> QED
  BY <1>2, <1>4, <1>6

LEMMA ConcatElements ==
  \A s, t \in Seq(Tokens) :
    /\ s \o t \in Seq(Tokens) /\ Len(s \o t) = Len(s) + Len(t) /\ Len(s) \in Nat /\ Len(t) \in Nat
    /\ \A i \in 1 .. Len(s) : (s \o t)[i] = s[i]
    /\ \A i \in 1 .. Len(t) : (s \o t)[Len(s) + i] = t[i]
<1> SUFFICES ASSUME NEW s \in Seq(Tokens), NEW t \in Seq(Tokens)
             PROVE  /\ s \o t \in Seq(Tokens) /\ Len(s \o t) = Len(s) + Len(t)
                    /\ Len(s) \in Nat /\ Len(t) \in Nat
                    /\ \A i \in 1 .. Len(s) : (s \o t)[i] = s[i]
                    /\ \A i \in 1 .. Len(t) : (s \o t)[Len(s) + i] = t[i]
  OBVIOUS
<1>1. /\ s \o t \in Seq(Tokens) /\ Len(s \o t) = Len(s) + Len(t) /\ Len(s) \in Nat /\ Len(t) \in Nat
      /\ \A i \in 1 .. (Len(s) + Len(t)) :
           (s \o t)[i] = IF i =< Len(s) THEN s[i] ELSE t[i - Len(s)]
  BY LenProperties, ConcatProperties
<1>2. ASSUME NEW i \in 1 .. Len(t) PROVE (s \o t)[Len(s) + i] = t[i]
  <2>1. /\ Len(s) + i \in 1 .. (Len(s) + Len(t)) /\ ~(Len(s) + i =< Len(s))
        /\ (Len(s) + i) - Len(s) = i
    BY <1>1
  <2> QED
    BY <1>1, <2>1
<1> QED
  BY <1>1, <1>2

\* The tokens between the name and the mean.
EntriesOf(r) == IF r.runs = 0 THEN 0 ELSE 2 * r.runs - 1

LEMMA EntryTokens ==
  ASSUME NEW r \in Results, Len(r.singleRuns) = r.runs
  PROVE  /\ json_runs(r) \in Seq(Tokens) /\ Len(json_runs(r)) = EntriesOf(r) /\ EntriesOf(r) \in Nat
         /\ \A i \in 1 .. EntriesOf(r) :
              json_runs(r)[i].kind = IF i % 2 = 1 THEN "run" ELSE "run comma"
<1> DEFINE size == 2 * r.runs - 1
           x(i) == IF i % 2 = 1 THEN Token("run", "", r.singleRuns[(i + 1) \div 2].papiCounters)
                                ELSE Token("run comma", "", 0)
           s == [i \in 1 .. size |-> x(i)]
<1>1. json_runs(r) = s
  BY Zenon DEF json_runs
<1>2. /\ json_runs(r) \in QuietTexts
      /\ r.runs \in Nat
  BY QuietRuns DEF Results
<1>3. EntriesOf(r) \in Nat /\ 1 .. size = 1 .. EntriesOf(r)
  BY <1>2 DEF EntriesOf
<1>4. ASSUME NEW i \in 1 .. size PROVE s[i].kind = IF i % 2 = 1 THEN "run" ELSE "run comma"
  <2>1. s[i] = x(i)
    BY Zenon
  <2>2. x(i).kind = IF i % 2 = 1 THEN "run" ELSE "run comma"
    BY DEF Token
  <2> HIDE DEF s, x
  <2> QED
    BY <2>1, <2>2
<1>5. DOMAIN s = 1 .. size
  BY Zenon
<1> HIDE DEF s, size
<1>6. s \in Seq(Tokens)
  BY <1>1, <1>2 DEF QuietTexts
<1>7. Len(s) = EntriesOf(r)
  <2>1. Len(s) \in Nat /\ 1 .. Len(s) = 1 .. EntriesOf(r)
    BY <1>3, <1>5, <1>6, LenProperties
  <2> QED
    BY <1>3, <2>1
<1> QED
  BY <1>1, <1>3, <1>4, <1>6, <1>7

-----------------------------------------------------------------------------
(* Pieces of text: where one begins and ends decides what may follow.      *)

Piece(s, a, b) == s \in Seq(Tokens) /\ s # <<>> /\ s[1].kind = a /\ s[Len(s)].kind = b
\* Only json_end writes the end.
Endless(s) == \A i \in 1 .. Len(s) : s[i].kind # "end"

LEMMA PieceConcat ==
  ASSUME NEW s, NEW t, NEW a, NEW b, NEW c, NEW e, Piece(s, a, b), Piece(t, c, e)
  PROVE  /\ Piece(s \o t, a, e)
         /\ Chained(s \o t) <=> Chained(s) /\ Chained(t) /\ <<b, c>> \in Follows
<1>1. /\ s \in Seq(Tokens) /\ t \in Seq(Tokens) /\ s # <<>> /\ t # <<>>
      /\ s[1].kind = a /\ s[Len(s)].kind = b /\ t[1].kind = c /\ t[Len(t)].kind = e
  BY DEF Piece
<1>2. /\ Len(s) \in Nat /\ Len(t) \in Nat /\ Len(s) > 0 /\ Len(t) > 0
  BY <1>1, EmptySeq, LenProperties
<1>3. /\ s \o t \in Seq(Tokens) /\ Len(s \o t) = Len(s) + Len(t)
      /\ (s \o t)[1] = s[1] /\ (s \o t)[Len(s) + Len(t)] = t[Len(t)]
  <2>1. 1 \in 1 .. Len(s) /\ Len(t) \in 1 .. Len(t)
    BY <1>2
  <2> QED
    BY <1>1, <2>1, ConcatElements
<1>4. s \o t # <<>>
  BY <1>2, <1>3, EmptySeq
<1> QED
  BY <1>1, <1>3, <1>4, ChainedConcat DEF Piece

LEMMA EndlessConcat ==
  ASSUME NEW s \in Seq(Tokens), NEW t \in Seq(Tokens), Endless(s), Endless(t)
  PROVE  Endless(s \o t)
<1> SUFFICES ASSUME NEW i \in 1 .. Len(s \o t) PROVE (s \o t)[i].kind # "end"
  BY DEF Endless
<1>1. Len(s \o t) = Len(s) + Len(t) /\ Len(s) \in Nat /\ Len(t) \in Nat
  BY ConcatElements
<1>2. CASE i =< Len(s)
  <2>1. i \in 1 .. Len(s)
    BY <1>1, <1>2
  <2> QED
    BY <2>1, ConcatElements DEF Endless
<1>3. CASE i > Len(s)
  <2>1. i - Len(s) \in 1 .. Len(t) /\ Len(s) + (i - Len(s)) = i
    BY <1>1, <1>3
  <2>2. (s \o t)[i] = t[i - Len(s)]
    BY <2>1, ConcatElements
  <2> QED
    BY <2>1, <2>2 DEF Endless
<1> QED
  BY <1>1, <1>2, <1>3

LEMMA OneToken ==
  ASSUME NEW kind \in TokenKinds, NEW of \in Names, NEW n \in Int
  PROVE  /\ Piece(<<Token(kind, of, n)>>, kind, kind) /\ <<Token(kind, of, n)>> \in Seq(Tokens)
         /\ kind # "close" => <<Token(kind, of, n)>> \in QuietTexts
         /\ Chained(<<Token(kind, of, n)>>)
         /\ kind # "end" => Endless(<<Token(kind, of, n)>>)
         /\ kind # "run" => Cardinality(RunTokens(<<Token(kind, of, n)>>)) = 0
<1> DEFINE x == Token(kind, of, n)
           s == <<x>>
<1>1. x \in Tokens /\ x.kind = kind
  BY TokenTypes
<1> HIDE DEF x
<1>2. s \in Seq(Tokens) /\ Len(s) = 1 /\ s[1] = x /\ s # <<>>
  BY <1>1
<1> HIDE DEF s
<1>3. Piece(s, kind, kind)
  BY <1>1, <1>2 DEF Piece
<1>4. Chained(s)
  BY <1>2 DEF Chained
<1>5. kind # "end" => Endless(s)
  BY <1>1, <1>2 DEF Endless
<1>6. ASSUME kind # "run" PROVE Cardinality(RunTokens(s)) = 0
  <2>1. RunTokens(s) = {}
    BY <1>1, <1>2, <1>6 DEF RunTokens
  <2> QED
    BY <2>1, FS_EmptySet
<1> QED
  BY <1>2, <1>3, <1>4, <1>5, <1>6, TokenTypes DEF s, x

\* Every other entry is a run.
LEMMA OddNumbers ==
  /\ \A i \in Nat : (i % 2 = 1) <=> ~((i + 1) % 2 = 1)
  /\ \A i \in Nat : i > 0 => (2 * i - 1) % 2 = 1
  /\ \A i \in Nat : i % 2 = 1 => 2 * ((i + 1) \div 2) - 1 = i /\ (i + 1) \div 2 \in Nat
<1>1. \A i \in Nat : (i % 2 = 1) <=> ~((i + 1) % 2 = 1)
  OBVIOUS
<1>2. \A i \in Nat : i > 0 => (2 * i - 1) % 2 = 1
  OBVIOUS
<1>3. \A i \in Nat : i % 2 = 1 => 2 * ((i + 1) \div 2) - 1 = i /\ (i + 1) \div 2 \in Nat
  OBVIOUS
<1> QED
  BY <1>1, <1>2, <1>3

\* The entries of the runs are a chain of their own, with as many as there were runs.
LEMMA RunEntries ==
  ASSUME NEW r \in Results, Len(r.singleRuns) = r.runs
  PROVE  /\ json_runs(r) \in Seq(Tokens) /\ Endless(json_runs(r))
         /\ Cardinality(RunTokens(json_runs(r))) = r.runs
         /\ r.runs = 0 => json_runs(r) = <<>>
         /\ r.runs > 0 => Piece(json_runs(r), "run", "run") /\ Chained(json_runs(r))
<1> DEFINE s == json_runs(r)
           m == EntriesOf(r)
<1>1. /\ s \in Seq(Tokens) /\ Len(s) = m /\ m \in Nat
      /\ \A i \in 1 .. m : s[i].kind = IF i % 2 = 1 THEN "run" ELSE "run comma"
  BY EntryTokens
<1>2. r.runs \in Nat /\ m = IF r.runs = 0 THEN 0 ELSE 2 * r.runs - 1
  BY DEF Results, EntriesOf
<1>7. m \in Nat
  BY <1>1
<1> HIDE DEF s, m
<1>3. Endless(s)
  BY <1>1 DEF Endless
<1>4. r.runs = 0 => s = <<>>
  BY <1>1, <1>2, EmptySeq
<1>5. ASSUME r.runs > 0 PROVE Piece(s, "run", "run") /\ Chained(s)
  <2>1. 1 \in 1 .. m /\ m \in 1 .. m /\ m > 0 /\ m = 2 * r.runs - 1
    BY <1>2, <1>5, <1>7
  <2>4. s # <<>> /\ 1 % 2 = 1 /\ m % 2 = 1
    <3>1. m % 2 = 1
      BY <1>2, <1>5, <2>1, OddNumbers
    <3>2. 1 % 2 = 1
      OBVIOUS
    <3>3. s # <<>>
      <4>1. Len(s) = m
        BY <1>1
      <4> QED
        BY <2>1, <4>1, EmptySeq
    <3> QED
      BY <3>1, <3>2, <3>3
  <2>2. Piece(s, "run", "run")
    BY <1>1, <2>1, <2>4 DEF Piece
  <2>3. ASSUME NEW i \in 1 .. (m - 1) PROVE <<s[i].kind, s[i + 1].kind>> \in Follows
    <3>1. i \in 1 .. m /\ i + 1 \in 1 .. m /\ (i % 2 = 1 <=> (i + 1) % 2 # 1)
      <4>1. i \in Nat /\ i \in 1 .. m /\ i + 1 \in 1 .. m
        BY <1>7
      <4> QED
        BY <4>1, OddNumbers
    <3>2. \/ s[i].kind = "run" /\ s[i + 1].kind = "run comma"
          \/ s[i].kind = "run comma" /\ s[i + 1].kind = "run"
      BY <1>1, <3>1
    <3> QED
      BY <3>2 DEF Follows
  <2> QED
    BY <1>1, <2>2, <2>3 DEF Chained
<1>6. Cardinality(RunTokens(s)) = r.runs
  <2> DEFINE A == 1 .. r.runs
             B == RunTokens(s)
             f == [j \in A |-> 2 * j - 1]
  <2>1. B = {i \in 1 .. m : i % 2 = 1}
    BY <1>1 DEF RunTokens
  <2>2. \A j \in A : 2 * j - 1 \in B
    <3> SUFFICES ASSUME NEW j \in A PROVE 2 * j - 1 \in B
      OBVIOUS
    <3>1. j \in Nat /\ j > 0 /\ 2 * j - 1 \in 1 .. m
      BY <1>2, <1>7 DEF A
    <3> QED
      BY <2>1, <3>1, OddNumbers DEF B
  <2>3. \A i \in B : \E j \in A : 2 * j - 1 = i
    <3> SUFFICES ASSUME NEW i \in B PROVE \E j \in A : 2 * j - 1 = i
      OBVIOUS
    <3>1. i \in Nat /\ i > 0 /\ i =< m /\ i % 2 = 1
      BY <1>7, <2>1
    <3> DEFINE j == (i + 1) \div 2
    <3>2. j \in Nat /\ 2 * j - 1 = i
      BY <3>1, OddNumbers
    <3> HIDE DEF j
    <3>3. j \in A
      BY <1>2, <1>7, <3>1, <3>2
    <3> QED
      BY <3>2, <3>3
  <2>4. \A i, j \in A : 2 * i - 1 = 2 * j - 1 => i = j
    BY <1>2
  <2> HIDE DEF A, B
  <2>5. f \in Bijection(A, B)
    <3>1. f \in [A -> B] /\ (\A y \in B : \E j \in A : f[j] = y)
      BY <2>2, <2>3
    <3>2. \A i, j \in A : f[i] = f[j] => i = j
      BY <2>4
    <3> HIDE DEF f
    <3> QED
      BY <3>1, <3>2 DEF Bijection, Injection, Surjection, IsInjective
  <2>6. IsFiniteSet(A) /\ Cardinality(A) = r.runs
    <3>1. IsFiniteSet(1 .. r.runs) /\ Cardinality(1 .. r.runs) = IF 1 > r.runs THEN 0 ELSE r.runs - 1 + 1
      BY <1>2, FS_Interval
    <3> QED
      BY <1>2, <3>1 DEF A
  <2>7. Cardinality(B) = Cardinality(A)
    BY <2>5, <2>6, FS_Bijection DEF ExistsBijection
  <2> QED
    BY <2>6, <2>7 DEF B
<1> QED
  BY <1>1, <1>3, <1>4, <1>5, <1>6 DEF s

\* The first and the last token of a benchmark.
NameKind(quotes) == IF quotes THEN "broken name" ELSE "name"
Closing(cur, num) == IF cur < num THEN "comma" ELSE "close"

\* The tokens of one benchmark: a chain when it ran and its name breaks no string.
LEMMA JsonTokens ==
  ASSUME NEW d \in Benchmarks, NEW quotes \in BOOLEAN, NEW cur \in Int, NEW num \in Int,
         NEW r \in Results, Len(r.singleRuns) = r.runs
  PROVE  LET text == json_end_benchmark(d, quotes, r, cur, num)
         IN /\ Piece(text, NameKind(quotes), Closing(cur, num))
            /\ Chained(text) <=> r.runs > 0 /\ ~quotes
            /\ Endless(text)
            /\ Cardinality(RunTokens(text)) = r.runs
            /\ Closed(text) = <<Token("close", d, r.runs)>>
<1> DEFINE name == json_name(d, quotes)
           runs == json_runs(r)
           statistics == json_statistics(r)
           x == Token("close", d, r.runs)
           comma == json_comma(cur, num)
           title == IF quotes THEN "broken name" ELSE "name"
           mean == IF r.runs = 0 THEN "nan" ELSE "statistics"
           Quiet_(s) == s \in QuietTexts /\ s \in Seq(Tokens)
           Runless_(s) == Endless(s) /\ Cardinality(RunTokens(s)) = 0
<1>1. d \in Names /\ "" \in Names /\ 0 \in Int /\ r.runs \in Int /\ r.runs \in Nat
  <2>1. d \in Names /\ "" \in Names
    BY DEF Names, Lines
  <2>2. r.runs \in Nat
    BY DEF Results
  <2>3. \A n \in Nat : n \in Int
    OBVIOUS
  <2> QED
    BY <2>1, <2>2, <2>3
<1>17. /\ 0 + r.runs = r.runs /\ r.runs + 0 = r.runs
       /\ r.runs > 0 \/ r.runs = 0
       /\ ~(r.runs = 0 /\ r.runs > 0)
       /\ 0 \in Int
  <2>1. \A n \in Nat : 0 + n = n /\ n + 0 = n /\ (n > 0 \/ n = 0) /\ ~(n = 0 /\ n > 0)
    OBVIOUS
  <2> QED
    BY <1>1, <2>1
<1>2. title \in TokenKinds /\ mean \in TokenKinds /\ "comma" \in TokenKinds /\ "close" \in TokenKinds
  BY DEF TokenKinds
<1>3. title \notin {"close", "end", "run"} /\ mean \notin {"close", "end", "run"}
  OBVIOUS
<1>4. Piece(name, title, title) /\ Chained(name) /\ Runless_(name) /\ Quiet_(name)
  <2>1. name = <<Token(title, d, 0)>>
    BY DEF json_name
  <2> HIDE DEF name, title
  <2> QED
    BY <1>1, <1>2, <1>3, <1>17, <2>1, OneToken, Zenon
<1>5. Piece(statistics, mean, mean) /\ Chained(statistics) /\ Runless_(statistics) /\ Quiet_(statistics)
  <2>1. statistics = <<Token(mean, "", 0)>>
    BY DEF json_statistics
  <2> HIDE DEF statistics, mean
  <2> QED
    BY <1>1, <1>2, <1>3, <1>17, <2>1, OneToken, Zenon
<1>6. Piece(<<x>>, "close", "close") /\ Chained(<<x>>) /\ Runless_(<<x>>) /\ x \in Tokens /\ x.kind = "close"
  BY <1>1, <1>2, OneToken, TokenTypes
<1>7. /\ Runless_(comma) /\ Quiet_(comma)
      /\ cur < num => Piece(comma, "comma", "comma") /\ Chained(comma)
      /\ ~(cur < num) => comma = <<>>
  <2>1. CASE cur < num
    <3>1. comma = <<Token("comma", "", 0)>>
      BY <2>1 DEF json_comma
    <3> HIDE DEF comma
    <3> QED
      BY <1>1, <1>2, <1>17, <2>1, <3>1, OneToken, Zenon
  <2>2. CASE ~(cur < num)
    <3>1. comma = <<>>
      BY <2>2 DEF json_comma
    <3>2. Len(<<>>) = 0 /\ <<>> \in Seq(Tokens)
      OBVIOUS
    <3>3. RunTokens(<<>>) = {} /\ Endless(<<>>)
      BY <3>2 DEF RunTokens, Endless
    <3> HIDE DEF comma
    <3> QED
      BY <2>2, <3>1, <3>2, <3>3, FS_EmptySet, ClosedOfEmpty DEF QuietTexts
  <2> QED
    BY <2>1, <2>2
<1>8. /\ runs \in Seq(Tokens) /\ Endless(runs) /\ Cardinality(RunTokens(runs)) = r.runs
      /\ r.runs = 0 => runs = <<>>
      /\ r.runs > 0 => Piece(runs, "run", "run") /\ Chained(runs)
      /\ runs \in QuietTexts
  BY RunEntries, QuietRuns
<1>9. json_end_benchmark(d, quotes, r, cur, num) = name \o runs \o statistics \o <<x>> \o comma
  BY DEF json_end_benchmark
<1> DEFINE s1 == name \o runs
           s2 == s1 \o statistics
           s3 == s2 \o <<x>>
           s4 == s3 \o comma
<1>10. /\ title = "name" <=> ~quotes
       /\ mean = "statistics" <=> r.runs > 0
       /\ title \in {"name", "broken name"} /\ mean \in {"nan", "statistics"}
  BY <1>17
<1> HIDE DEF name, runs, statistics, x, comma, title, mean
<1>11. /\ Piece(s1, title, IF r.runs > 0 THEN "run" ELSE title)
       /\ Endless(s1) /\ Cardinality(RunTokens(s1)) = r.runs
       /\ r.runs > 0 => (Chained(s1) <=> ~quotes)
  <2>1. Endless(s1) /\ Cardinality(RunTokens(s1)) = 0 + r.runs
    BY <1>4, <1>8, EndlessConcat, RunTokensConcat
  <2>2. CASE r.runs > 0
    <3>1. Piece(s1, title, "run") /\ (Chained(s1) <=> <<title, "run">> \in Follows)
      BY <1>4, <1>8, <2>2, PieceConcat
    <3>2. <<title, "run">> \in Follows <=> ~quotes
      BY <1>10 DEF Follows
    <3> QED
      BY <1>17, <2>1, <2>2, <3>1, <3>2
  <2>3. CASE r.runs = 0
    <3>1. s1 = name
      BY <1>4, <1>8, <2>3, ConcatEmptySeq
    <3> QED
      BY <1>4, <1>17, <2>1, <2>3, <3>1
  <2> QED
    BY <1>17, <2>2, <2>3
<1>12. /\ Piece(s2, title, mean) /\ Endless(s2) /\ Cardinality(RunTokens(s2)) = r.runs
       /\ mean = "statistics" => (Chained(s2) <=> ~quotes)
  <2>1. Endless(s2) /\ Cardinality(RunTokens(s2)) = r.runs + 0
    BY <1>5, <1>11, EndlessConcat, RunTokensConcat DEF Piece
  <2>2. Piece(s2, title, mean)
    BY <1>5, <1>11, PieceConcat
  <2>3. ASSUME mean = "statistics" PROVE Chained(s2) <=> ~quotes
    <3>1. Piece(s1, title, "run") /\ (Chained(s1) <=> ~quotes)
      BY <1>10, <1>11, <2>3
    <3>2. <<"run", mean>> \in Follows
      BY <2>3 DEF Follows
    <3> QED
      BY <1>5, <3>1, <3>2, PieceConcat
  <2> QED
    BY <1>17, <2>1, <2>2, <2>3
<1>13. /\ Piece(s3, title, "close") /\ Endless(s3) /\ Cardinality(RunTokens(s3)) = r.runs
       /\ Chained(s3) <=> r.runs > 0 /\ ~quotes
  <2>1. Endless(s3) /\ Cardinality(RunTokens(s3)) = r.runs + 0
    BY <1>6, <1>12, EndlessConcat, RunTokensConcat DEF Piece
  <2>2. Piece(s3, title, "close") /\ (Chained(s3) <=> Chained(s2) /\ <<mean, "close">> \in Follows)
    BY <1>6, <1>12, PieceConcat
  <2>3. <<mean, "close">> \in Follows <=> mean = "statistics"
    BY <1>10 DEF Follows
  <2> QED
    BY <1>10, <1>12, <1>17, <2>1, <2>2, <2>3
<1>14. /\ Piece(s4, title, IF cur < num THEN "comma" ELSE "close")
       /\ Endless(s4) /\ Cardinality(RunTokens(s4)) = r.runs
       /\ Chained(s4) <=> r.runs > 0 /\ ~quotes
  <2>1. Endless(s4) /\ Cardinality(RunTokens(s4)) = r.runs + 0
    BY <1>7, <1>13, EndlessConcat, RunTokensConcat DEF Piece
  <2>2. CASE cur < num
    <3>1. <<"close", "comma">> \in Follows
      BY DEF Follows
    <3>2. Piece(s4, title, "comma") /\ (Chained(s4) <=> Chained(s3))
      BY <1>7, <1>13, <2>2, <3>1, PieceConcat
    <3> QED
      BY <1>13, <1>17, <2>1, <2>2, <3>2
  <2>3. CASE ~(cur < num)
    <3>1. s4 = s3
      BY <1>7, <1>13, <2>3, ConcatEmptySeq DEF Piece
    <3> QED
      BY <1>13, <2>3, <3>1
  <2> QED
    BY <2>2, <2>3
<1>15. Closed(s4) = <<x>>
  <2>1. s2 \in QuietTexts /\ s2 \in Seq(Tokens)
    BY <1>4, <1>5, <1>8, QuietConcat DEF QuietTexts
  <2>2. Closed(s2) = <<>> /\ Closed(comma) = <<>> /\ comma \in Seq(Tokens) /\ s3 \in Seq(Tokens)
    BY <1>7, <1>13, <2>1 DEF QuietTexts, Piece
  <2>3. Closed(<<x>>) = <<x>> /\ <<x>> \in Seq(Tokens)
    BY <1>6, ClosingToken
  <2>4. Closed(s3) = <<>> \o <<x>>
    BY <2>1, <2>2, <2>3, ClosedOfConcat
  <2>5. Closed(s4) = (<<>> \o <<x>>) \o <<>>
    BY <2>2, <2>4, ClosedOfConcat
  <2> QED
    BY <2>3, <2>5, ConcatEmptySeq
<1>16. json_end_benchmark(d, quotes, r, cur, num) = s4
  BY <1>9
<1> QED
  BY <1>14, <1>15, <1>16 DEF title, x, NameKind, Closing

-----------------------------------------------------------------------------
(* The way through the list, with or without repetitions.                  *)

\* The list holds a benchmark where it was registered last.
LastAt(j) == \A i \in (j + 1) .. Len(Plan) : Plan[i] # Plan[j]
\* What has been reported when the loop is at position j: the plan up to there, or fewer.
Before(j) ==
  /\ Plan[j] = cursor /\ LastAt(j)
  /\ Len(Reported(out)) \in 0 .. (j - 1)
  /\ Len(Reported(out)) = j - 1 =>
       Reported(out) = First(j - 1) /\ \A i \in 1 .. (j - 1) : LastAt(i)
\* The same when the loop is over.
Whole ==
  /\ Len(Reported(out)) \in 0 .. Len(Plan)
  /\ Len(Plan) > 0 => Len(Reported(out)) > 0
  /\ Len(Reported(out)) = Len(Plan) => Reported(out) = Plan /\ Distinct

WalkInv ==
  /\ InLoop \/ (pc = "next" /\ cursor # NULL) => \E j \in 1 .. Len(Plan) : Before(j)
  /\ (pc = "next" /\ cursor = NULL) \/ pc = "cleanup" \/ status = "return" => Whole

LEMMA LastPosition ==
  ASSUME program \in Programs, NEW j \in 1 .. Len(Plan)
  PROVE  \E l \in j .. Len(Plan) : Plan[l] = Plan[j] /\ LastAt(l)
<1> DEFINE T == {Len(Plan) - i : i \in {i \in j .. Len(Plan) : Plan[i] = Plan[j]}}
<1>1. Len(Plan) \in Nat
  BY PlanTypes
<1>2. T \subseteq Nat
  BY <1>1
<1>3. Len(Plan) - j \in T
  <2>1. j \in j .. Len(Plan)
    BY <1>1
  <2> QED
    BY <2>1
<1> HIDE DEF T
<1>4. PICK m \in T : \A n \in T : m =< n
  BY <1>2, <1>3, LeastNumber
<1> USE DEF T
<1>5. PICK l \in j .. Len(Plan) : Plan[l] = Plan[j] /\ m = Len(Plan) - l
  BY <1>4
<1>6. ASSUME NEW i \in (l + 1) .. Len(Plan), Plan[i] = Plan[l] PROVE FALSE
  <2>1. i \in j .. Len(Plan) /\ Plan[i] = Plan[j] /\ l \in Int
    BY <1>1, <1>5, <1>6
  <2>2. Len(Plan) - i \in T
    BY <2>1
  <2>3. m =< Len(Plan) - i
    BY <1>4, <2>2
  <2> QED
    BY <1>1, <1>5, <1>6, <2>1, <2>3
<1> QED
  BY <1>5, <1>6 DEF LastAt

\* From the last position of a benchmark the list goes on to what was registered next.
LEMMA ListGoesOn ==
  ASSUME ListInv, registered = Len(Plan), ~LastRepeats, NEW j \in 1 .. Len(Plan), LastAt(j)
  PROVE  next[Plan[j]] = IF j = Len(Plan) THEN NULL ELSE Plan[j + 1]
<1>1. /\ Len(Plan) \in Nat /\ \A i \in 1 .. Len(Plan) : Plan[i] \in Benchmarks
  BY PlanTypes DEF ListInv
<1>2. CASE j = Len(Plan)
  <2>1. \A i \in 1 .. (registered - 1) : Plan[i] # Plan[j]
    BY <1>2 DEF LastRepeats
  <2> QED
    BY <1>1, <1>2, <2>1 DEF ListInv, ListIsPlan
<1>3. CASE j # Len(Plan)
  <2>1. /\ j \in 1 .. (registered - 1)
        /\ \A i \in (j + 1) .. (registered - 1) : Plan[i] # Plan[j]
    BY <1>1, <1>3 DEF LastAt
  <2> QED
    BY <1>3, <2>1 DEF ListInv, ListIsPlan
<1> QED
  BY <1>2, <1>3

LEMMA AllLastAreDistinct ==
  ASSUME program \in Programs, \A i \in 1 .. Len(Plan) : LastAt(i)
  PROVE  Distinct
<1>1. Len(Plan) \in Nat /\ DOMAIN Plan = 1 .. Len(Plan)
  BY PlanTypes
<1>2. ASSUME NEW i \in 1 .. Len(Plan), NEW l \in 1 .. Len(Plan), i < l PROVE Plan[i] # Plan[l]
  <2>1. l \in (i + 1) .. Len(Plan)
    BY <1>1, <1>2
  <2> QED
    BY <2>1 DEF LastAt
<1>3. \A i, l \in 1 .. Len(Plan) : i < l \/ l < i \/ i = l
  BY <1>1
<1> QED
  BY <1>1, <1>2, <1>3 DEF Distinct

\* One more benchmark reported.
LEMMA LongerReport ==
  ASSUME NEW s \in Seq(Names), NEW d \in Names
  PROVE  Len(s) \in Nat /\ Len(Append(s, d)) = Len(s) + 1
OBVIOUS

LEMMA NextWalkInv ==
  /\ CoreInv /\ HeapInv /\ ResultInv /\ Linked /\ RepeatsInv /\ StatusInv /\ TextInv /\ WalkInv
  /\ [Next]_vars
  => WalkInv'
<1> SUFFICES ASSUME CoreInv, HeapInv, ResultInv, Linked, RepeatsInv, StatusInv, TextInv, WalkInv,
                    [Next]_vars
             PROVE  WalkInv'
  OBVIOUS
<1>1. /\ program' = program /\ Plan' = Plan /\ Distinct' = Distinct
      /\ (\A n : First(n)' = First(n)) /\ (\A j : LastAt(j)' = LastAt(j))
  <2>1. program' = program
    <3>1. CASE Next
      BY <3>1, OthersKeepRegistry DEF Register, registry
    <3> QED
      BY <3>1 DEF vars
  <2> QED
    BY <2>1 DEF Plan, Distinct, First, LastAt
<1>2. /\ program \in Programs /\ Plan \in Seq(Benchmarks) /\ Len(Plan) \in Nat
      /\ \A i \in 1 .. Len(Plan) : Plan[i] \in Benchmarks /\ Plan[i] # NULL
      /\ First(0) = <<>> /\ First(Len(Plan)) = Plan
      /\ \A i \in 1 .. Len(Plan) : Append(First(i - 1), Plan[i]) = First(i)
  BY PlanTypes, Firsts DEF CoreInv, ListInv
<1>3. Reported(out) \in Seq(Names) /\ Len(Reported(out)) \in Nat
  <2>1. Reported(out) \in Seq(Names)
    BY ReportedType DEF TextInv
  <2> QED
    BY <2>1, LenProperties
<1>4. CASE EndBenchmark
  <2>1. pc = "report" /\ pc' = "next" /\ cursor' = next[cursor] /\ status' = "alive"
    BY <1>4 DEF EndBenchmark, Goto, StatusInv
  <2>2. registered = Len(Plan) /\ ~LastRepeats
    BY <2>1 DEF Linked, RepeatsInv
  <2>3. PICK j \in 1 .. Len(Plan) : Before(j)
    <3>1. InLoop
      BY <2>1 DEF InLoop
    <3> QED
      BY <3>1 DEF WalkInv
  <2> DEFINE n == Len(Reported(out))
  <2>4. /\ Plan[j] = cursor /\ LastAt(j) /\ n \in 0 .. (j - 1)
        /\ n = j - 1 => Reported(out) = First(j - 1) /\ \A i \in 1 .. (j - 1) : LastAt(i)
    BY <2>3 DEF Before
  <2>5. cursor' = IF j = Len(Plan) THEN NULL ELSE Plan[j + 1]
    BY <2>1, <2>2, <2>4, ListGoesOn DEF CoreInv
  <2>6. Reported(out') = Append(Reported(out), cursor) /\ Len(Reported(out')) = n + 1
    <3>1. cursor \in Names
      BY <2>1 DEF CoreInv, InLoop, Names
    <3> QED
      BY <1>3, <1>4, <3>1, OutputGrows, LongerReport
  <2> HIDE DEF n
  <2>7. n + 1 = j => Reported(out') = First(j) /\ \A i \in 1 .. j : LastAt(i)
    <3> SUFFICES ASSUME n + 1 = j PROVE Reported(out') = First(j) /\ \A i \in 1 .. j : LastAt(i)
      OBVIOUS
    <3>1. n = j - 1 /\ \A i \in 1 .. j : i \in 1 .. (j - 1) \/ i = j
      BY <1>2, <2>4
    <3> QED
      BY <1>2, <2>4, <2>6, <3>1
  <2>8. CASE j = Len(Plan)
    <3>1. n + 1 \in 0 .. Len(Plan) /\ n + 1 > 0
      BY <1>2, <2>4, <2>8
    <3>2. Len(Reported(out')) = Len(Plan) => Reported(out') = Plan /\ Distinct
      BY <1>2, <2>6, <2>7, <2>8, AllLastAreDistinct
    <3>3. Whole'
      BY <1>1, <2>6, <3>1, <3>2 DEF Whole
    <3> QED
      BY <2>1, <2>5, <2>8, <3>3 DEF WalkInv, InLoop
  <2>9. CASE j # Len(Plan)
    <3>1. j + 1 \in 1 .. Len(Plan) /\ j + 1 \in Nat
      BY <1>2, <2>9
    <3>2. PICK l \in (j + 1) .. Len(Plan) : Plan[l] = Plan[j + 1] /\ LastAt(l)
      BY <1>2, <3>1, LastPosition
    <3>3. /\ l \in 1 .. Len(Plan) /\ n + 1 \in 0 .. (l - 1)
          /\ n + 1 = l - 1 => n + 1 = j /\ l - 1 = j
      BY <1>2, <2>4, <3>1, <3>2
    <3>4. Plan[l] = cursor' /\ cursor' # NULL
      BY <1>2, <2>5, <2>9, <3>1, <3>2
    <3>5. n + 1 = l - 1 => Reported(out') = First(l - 1) /\ \A i \in 1 .. (l - 1) : LastAt(i)
      BY <2>7, <3>3
    <3>6. Before(l)'
      BY <1>1, <2>6, <3>2, <3>3, <3>4, <3>5 DEF Before
    <3> QED
      BY <1>1, <2>1, <3>3, <3>4, <3>6 DEF WalkInv, InLoop
  <2> QED
    BY <2>8, <2>9
<1>5. CASE ~EndBenchmark
  <2>1. Reported(out') = Reported(out)
    BY <1>5, OutputGrows
  <2>2. /\ Whole' = Whole
        /\ cursor' = cursor => \A j : Before(j)' = Before(j)
    BY <1>1, <2>1 DEF Whole, Before
  <2>3. ASSUME InLoop' \/ (pc' = "next" /\ cursor' # NULL)
        PROVE  \E j \in 1 .. Len(Plan) : Before(j)'
    <3>1. CASE Begin
      <4>1. /\ out = <<>> /\ cursor' = first /\ pc = "set_warmup" /\ cursor' # NULL
        <5>1. pc' = "next"
          BY <2>3, <3>1 DEF Begin, Exit, Goto, InLoop
        <5> QED
          BY <2>3, <3>1, <5>1, WritingSteps DEF InLoop
      <4>2. Reported(out) = <<>>
        BY <4>1, ClosedOfEmpty DEF Reported
      <4>3. registered = Len(Plan) /\ Len(Plan) > 0 /\ cursor' = Plan[1] /\ 1 \in 1 .. Len(Plan)
        BY <1>2, <4>1 DEF Linked, CoreInv, ListInv, ListIsPlan
      <4>4. PICK l \in 1 .. Len(Plan) : Plan[l] = Plan[1] /\ LastAt(l)
        BY <1>2, <4>3, LastPosition
      <4>5. Len(Reported(out)) = 0 /\ 0 \in 0 .. (l - 1)
        BY <1>2, <4>2
      <4>6. 0 = l - 1 => Reported(out) = First(l - 1) /\ \A i \in 1 .. (l - 1) : LastAt(i)
        BY <1>2, <4>2
      <4>7. Before(l)'
        BY <1>1, <2>1, <4>3, <4>4, <4>5, <4>6 DEF Before
      <4> QED
        BY <4>7
    <3>2. CASE ~Begin
      <4>1. cursor' = cursor /\ (InLoop \/ (pc = "next" /\ cursor # NULL))
        BY <1>5, <2>3, <3>2, LoopSteps DEF InLoop, CoreInv
      <4> QED
        BY <2>2, <4>1 DEF WalkInv
    <3> QED
      BY <3>1, <3>2
  <2>4. ASSUME (pc' = "next" /\ cursor' = NULL) \/ pc' = "cleanup" \/ status' = "return"
        PROVE  Whole
    <3>1. CASE Begin
      <4>1. pc' = "next" /\ cursor' = NULL
        BY <2>4, <3>1 DEF Begin, Exit, Goto, StatusInv
      <4>2. out = <<>> /\ first = NULL /\ pc = "set_warmup"
        BY <3>1, <4>1, WritingSteps
      <4>3. Reported(out) = <<>>
        BY <4>2, ClosedOfEmpty DEF Reported
      <4>4. Len(Plan) = 0
        BY <1>2, <4>2 DEF Linked, CoreInv, ListInv, ListIsPlan
      <4>5. Plan = <<>> /\ Distinct
        BY <1>2, <4>4, EmptySeq DEF Distinct
      <4> QED
        BY <4>3, <4>4, <4>5 DEF Whole
    <3>2. CASE ~Begin
      <4>1. (pc = "next" /\ cursor = NULL) \/ pc = "cleanup" \/ status = "return"
        BY <1>5, <2>4, <3>2, LoopSteps DEF End, CoreInv
      <4> QED
        BY <4>1 DEF WalkInv
    <3> QED
      BY <3>1, <3>2
  <2> QED
    BY <1>1, <2>2, <2>3, <2>4 DEF WalkInv
<1> QED
  BY <1>4, <1>5

-----------------------------------------------------------------------------
(* The JSON text at every moment.                                          *)

\* A benchmark whose report a JSON reader can take: it ran, and its name is a string.
Good(x) == x.n > 0 /\ ~descriptor(x.of).quotes
AllGood(s) == \A i \in 1 .. Len(Closed(s)) : Good(Closed(s)[i])
Writing == InLoop \/ pc = "next"
Finished == pc = "cleanup" \/ status = "return"
\* The kind of the last token while benchmarks are written, from the two counters.
Edge(cur, num) == IF cur = 0 THEN "begin" ELSE IF cur < num THEN "comma" ELSE "close"

\* The text is a chain as far as it goes exactly if all in it is good; it has the end when
\* the loop is over, and then it is a chain only if the last comma was left out, which
\* it is after as many benchmarks as were registered.
ShapeInv ==
  IsJson =>
    /\ Cardinality(RunTokens(out)) = SumOf(RunsReported(out))
    /\ \A i \in 1 .. Len(Closed(out)) : Closed(out)[i].n = RunsOf(Closed(out)[i].of)
    /\ Writing => /\ numOfBenchmarks = Len(Plan) /\ curBenchmarkNum = Len(Closed(out))
                  /\ Piece(out, "begin", Edge(curBenchmarkNum, numOfBenchmarks))
                  /\ Chained(out) <=> AllGood(out)
    /\ Finished => /\ Piece(out, "begin", "end") /\ Len(out) >= 2
                   /\ \A i \in 1 .. (Len(out) - 1) : out[i].kind # "end"
                   /\ Chained(out) <=> (AllGood(out) /\ Len(Closed(out)) = Len(Plan))
    /\ ~Finished => Endless(out)

LEMMA ClosedLength ==
  ASSUME NEW s \in Seq(Tokens)
  PROVE  /\ Closed(s) \in Seq(Tokens) /\ Len(Closed(s)) \in Nat
         /\ Len(Reported(s)) = Len(Closed(s)) /\ RunsReported(s) \in Seq(Int)
<1>1. Closed(s) \in Seq(Tokens) /\ Len(Closed(s)) \in Nat
  BY ReportedType, LenProperties
<1> DEFINE n == Len(Closed(s))
<1>2. Reported(s) = [i \in 1 .. n |-> Closed(s)[i].of]
  BY DEF Reported
<1>3. Len(Reported(s)) = n
  BY <1>1, <1>2
<1>4. \A i \in 1 .. n : Closed(s)[i].n \in Int
  <2>1. \A i \in 1 .. n : Closed(s)[i] \in Tokens
    BY <1>1
  <2> HIDE DEF n
  <2> QED
    BY <2>1 DEF Tokens
<1>5. RunsReported(s) \in Seq(Int)
  <2>1. RunsReported(s) = [i \in 1 .. n |-> Closed(s)[i].n]
    BY DEF RunsReported
  <2> HIDE DEF n
  <2> QED
    BY <1>1, <1>4, <2>1 DEF n
<1> QED
  BY <1>1, <1>3, <1>5

LEMMA OneMoreClosed ==
  ASSUME NEW s \in Seq(Tokens), NEW u \in Seq(Tokens), NEW x \in Tokens,
         Closed(u) = Append(Closed(s), x)
  PROVE  /\ Len(Closed(u)) = Len(Closed(s)) + 1
         /\ RunsReported(u) = Append(RunsReported(s), x.n)
         /\ AllGood(u) <=> AllGood(s) /\ Good(x)
         /\ \A i \in 1 .. Len(Closed(u)) : \/ i \in 1 .. Len(Closed(s)) /\ Closed(u)[i] = Closed(s)[i]
                                           \/ Closed(u)[i] = x
<1> DEFINE c == Closed(s)
           n == Len(Closed(s))
<1>1. c \in Seq(Tokens) /\ n \in Nat
  BY ClosedLength
<1>2. /\ Len(Closed(u)) = n + 1 /\ Closed(u)[n + 1] = x
      /\ \A i \in 1 .. n : Closed(u)[i] = c[i]
  BY <1>1
<1>3. \A i \in 1 .. (n + 1) : i \in 1 .. n \/ i = n + 1
  BY <1>1
<1>4. n + 1 \in 1 .. (n + 1) /\ \A i \in 1 .. n : i \in 1 .. (n + 1)
  BY <1>1
<1>5. RunsReported(u) = Append(RunsReported(s), x.n)
  <2> DEFINE p == RunsReported(s)
             q == RunsReported(u)
  <2>1. p = [i \in 1 .. n |-> c[i].n] /\ q = [i \in 1 .. (n + 1) |-> Closed(u)[i].n]
    BY <1>2 DEF RunsReported
  <2>2. p \in Seq(Int) /\ q \in Seq(Int) /\ x.n \in Int
    BY ClosedLength DEF Tokens
  <2>3. Len(p) = n /\ Len(q) = n + 1
    BY <1>1, <2>1, <2>2
  <2>4. q[n + 1] = x.n /\ \A i \in 1 .. n : q[i] = p[i]
    BY <1>2, <1>4, <2>1
  <2> HIDE DEF p, q, n, c
  <2> QED
    BY <1>1, <1>3, <2>2, <2>3, <2>4 DEF p, q
<1>6. AllGood(u) <=> AllGood(s) /\ Good(x)
  <2>1. AllGood(u) <=> \A i \in 1 .. (n + 1) : Good(Closed(u)[i])
    BY <1>2 DEF AllGood
  <2>2. AllGood(s) <=> \A i \in 1 .. n : Good(c[i])
    BY DEF AllGood
  <2> HIDE DEF n, c, Good
  <2> QED
    BY <1>2, <1>3, <1>4, <2>1, <2>2
<1> HIDE DEF n, c
<1> QED
  BY <1>2, <1>3, <1>5, <1>6 DEF n, c

\* Who changes the JSON text or the counters of the outputter.
LEMMA CounterSteps ==
  [Next]_vars => \/ Begin /\ pc' = "next"
                 \/ NextBenchmark /\ UNCHANGED <<numOfBenchmarks, curBenchmarkNum>>
                 \/ EndBenchmark \/ End
                 \/ UNCHANGED <<out, numOfBenchmarks, curBenchmarkNum>>
<1> SUFFICES ASSUME [Next]_vars, ~(Begin /\ pc' = "next"), ~EndBenchmark, ~End
             PROVE  \/ NextBenchmark /\ UNCHANGED <<numOfBenchmarks, curBenchmarkNum>>
                    \/ UNCHANGED <<out, numOfBenchmarks, curBenchmarkNum>>
  OBVIOUS
<1> USE DEF output
<1>1. CASE Main
  BY <1>1 DEF Main, Register, AllRegistered, GetTmpDir, AtExitCleanup
<1>2. CASE Setup
  BY <1>2 DEF Setup, ParseWord, ParsingEnds, SetOutputter, SetWarmup, Begin, Goto
<1>3. CASE Loop
  BY <1>3 DEF Loop, NextBenchmark, WarmupRun, WarmupDone, MeasuredRun, MeasureDone, Enter
<1>4. CASE Run
  BY <1>4 DEF Run, SetUp, chayai_papi_start, chayai_papi_read_counters, StartTime, Body,
              BodiesDone, BodyFails, EndTime, chayai_papi_stop_counters, TearDown, WarmupReturns,
              MeasuredReturns, Proceed, Leave
<1>5. CASE Shutdown
  BY <1>5 DEF Shutdown, CleanupArguments, benchmark_cleanup, chayai_remove_tmp_dir, FlushStdout,
              Terminate
<1>6. CASE Done \/ UNCHANGED vars
  BY <1>6 DEF Done, vars
<1> QED
  BY <1>1, <1>2, <1>3, <1>4, <1>5, <1>6 DEF Next

\* After the loop nothing is written any more.
LEMMA FinishedStays ==
  ASSUME [Next]_vars, StatusInv, Finished
  PROVE  Finished' /\ UNCHANGED out
<1> USE DEF Goto, Exit, Crash, StatusInv, Finished, output
<1>1. pc \in {"cleanup", "exit", "ended"}
  OBVIOUS
<1>2. CASE Main
  BY <1>1, <1>2 DEF Main, Register, AllRegistered, GetTmpDir, AtExitCleanup
<1>3. CASE Setup
  BY <1>1, <1>3 DEF Setup, ParseWord, ParsingEnds, SetOutputter, SetWarmup, Begin
<1>4. CASE Loop
  BY <1>1, <1>4 DEF Loop, NextBenchmark, WarmupRun, WarmupDone, MeasuredRun, MeasureDone, EndBenchmark,
                    End
<1>5. CASE Run
  BY <1>1, <1>5 DEF Run, SetUp, chayai_papi_start, chayai_papi_read_counters, StartTime, Body,
              BodiesDone, BodyFails, EndTime, chayai_papi_stop_counters, TearDown, WarmupReturns,
              MeasuredReturns, At
<1>6. CASE Shutdown
  BY <1>6 DEF Shutdown, CleanupArguments, benchmark_cleanup, chayai_remove_tmp_dir, FlushStdout,
              Terminate
<1>7. CASE Done \/ UNCHANGED vars
  BY <1>7 DEF Done, vars
<1> QED
  BY <1>2, <1>3, <1>4, <1>5, <1>6, <1>7 DEF Next

LEMMA EmptyShape ==
  out = <<>> /\ ~Writing /\ ~Finished => ShapeInv
<1> SUFFICES ASSUME out = <<>>, ~Writing, ~Finished PROVE ShapeInv
  OBVIOUS
<1>1. RunTokens(out) = {} /\ Endless(out)
  BY DEF RunTokens, Endless
<1>2. Closed(out) = <<>> /\ Len(Closed(out)) = 0
  BY ClosedOfEmpty
<1>3. RunsReported(out) = <<>>
  BY <1>2 DEF RunsReported
<1>4. \A i \in 1 .. Len(Closed(out)) : Closed(out)[i].n = RunsOf(Closed(out)[i].of)
  BY <1>2
<1> QED
  BY <1>1, <1>3, <1>4, SumOfEmpty, FS_EmptySet DEF ShapeInv

LEMMA BeginShape ==
  ASSUME CoreInv, TypeOK, HeapInv, ResultInv, Linked, StatusInv, TextInv, Begin, IsJson, pc' = "next"
  PROVE  ShapeInv'
<1>1. /\ pc = "set_warmup" /\ status' = "alive" /\ program' = program /\ out = <<>>
      /\ out' = json_begin /\ numOfBenchmarks' = nbBenchmarksRegistered /\ curBenchmarkNum' = 0
  <2>1. pc = "set_warmup" /\ out = <<>>
    BY WritingSteps
  <2>2. status' = status /\ program' = program
        /\ out' = json_begin /\ numOfBenchmarks' = nbBenchmarksRegistered /\ curBenchmarkNum' = 0
    BY DEF Begin, Goto, Exit
  <2> QED
    BY <2>1, <2>2 DEF StatusInv
<1>2. numOfBenchmarks' = Len(Plan)'
  BY <1>1 DEF TypeOK, Linked, Plan
<1>3. /\ Piece(out', "begin", "begin") /\ Chained(out') /\ Endless(out')
      /\ Cardinality(RunTokens(out')) = 0 /\ out' \in QuietTexts
  <2>1. "begin" \in TokenKinds /\ "" \in Names /\ 0 \in Int
    BY DEF TokenKinds, Names, Lines
  <2>2. out' = <<Token("begin", "", 0)>>
    BY <1>1 DEF json_begin
  <2> QED
    BY <2>1, <2>2, OneToken
<1>4. Closed(out') = <<>> /\ Len(Closed(out')) = 0 /\ RunsReported(out') = <<>>
  <2>1. Closed(out') = <<>>
    BY <1>3 DEF QuietTexts
  <2> QED
    BY <2>1 DEF RunsReported
<1>5. AllGood(out')
  BY <1>4 DEF AllGood
<1>6. ~Finished'
  BY <1>1 DEF Finished
<1>7. Piece(out', "begin", Edge(curBenchmarkNum', numOfBenchmarks'))
  BY <1>1, <1>3 DEF Edge
<1>8. (\A i \in 1 .. Len(Closed(out)) : Closed(out)[i].n = RunsOf(Closed(out)[i].of))'
  BY <1>4
<1> QED
  BY <1>1, <1>2, <1>3, <1>4, <1>5, <1>6, <1>7, <1>8, SumOfEmpty DEF ShapeInv

LEMMA EndBenchmarkShape ==
  ASSUME CoreInv, HeapInv, ResultInv, StatusInv, TextInv, ParsedInv, WalkInv, ShapeInv, EndBenchmark, IsJson
  PROVE  ShapeInv'
<1> DEFINE num == numOfBenchmarks
           cur == curBenchmarkNum
           text == json_end_benchmark(cursor, descriptor(cursor).quotes, result, cur + 1, num)
           x == Token("close", cursor, result.runs)
           quotes == descriptor(cursor).quotes
<1>1. /\ pc = "report" /\ InLoop /\ pc' = "next" /\ status' = "alive" /\ program' = program /\ Plan' = Plan
      /\ arguments' = arguments /\ numOfBenchmarks' = num /\ curBenchmarkNum' = cur + 1
      /\ out' = out \o text /\ cursor \in Benchmarks /\ result \in Results
  <2>1. pc = "report" /\ InLoop
    BY DEF EndBenchmark, InLoop
  <2>2. /\ pc' = "next" /\ status' = status /\ program' = program /\ arguments' = arguments
        /\ numOfBenchmarks' = num /\ curBenchmarkNum' = cur + 1 /\ out' = out \o text
    BY DEF EndBenchmark, Goto, Write
  <2> QED
    BY <2>1, <2>2 DEF StatusInv, CoreInv, Plan, InLoop
<1>2. /\ Cardinality(RunTokens(out)) = SumOf(RunsReported(out))
      /\ \A i \in 1 .. Len(Closed(out)) : Closed(out)[i].n = RunsOf(Closed(out)[i].of)
      /\ num = Len(Plan) /\ cur = Len(Closed(out))
      /\ Piece(out, "begin", Edge(cur, num)) /\ Endless(out)
      /\ Chained(out) <=> AllGood(out)
  <2>1. Writing /\ ~Finished
    BY <1>1 DEF Writing, Finished, StatusInv
  <2> QED
    BY <2>1 DEF ShapeInv
<1>3. out \in Seq(Tokens) /\ cur \in Nat /\ num \in Nat
  BY <1>2, ClosedLength, PlanTypes DEF TextInv, CoreInv, ListInv
<1>4. cur < num
  <2>1. PICK j \in 1 .. Len(Plan) : Before(j)
    BY <1>1 DEF WalkInv
  <2>2. cur \in 0 .. (j - 1)
    BY <1>2, <1>3, <2>1, ClosedLength DEF Before
  <2> QED
    BY <1>2, <1>3, <2>2
<1>5. Len(result.singleRuns) = result.runs /\ result.runs = RunsOf(cursor)
  BY <1>1 DEF HeapInv, ResultInv, InLoop, ParsedInv
<1>6. quotes \in BOOLEAN
  BY <1>1, MacroAssumption DEF descriptor, BENCHMARK_descriptor, BENCHMARK_P_descriptor,
     BENCHMARK_F_descriptor, BENCHMARK_P_F_descriptor, Descriptor, Kinds
<1>7. /\ Piece(text, NameKind(quotes), Closing(cur + 1, num))
      /\ Chained(text) <=> result.runs > 0 /\ ~quotes
      /\ Endless(text)
      /\ Cardinality(RunTokens(text)) = result.runs
      /\ Closed(text) = <<x>>
  <2>1. cur + 1 \in Int /\ num \in Int
    BY <1>3
  <2>2. cursor \in Benchmarks /\ result \in Results /\ Len(result.singleRuns) = result.runs
    BY <1>1, <1>5
  <2>3. text = json_end_benchmark(cursor, quotes, result, cur + 1, num)
    OBVIOUS
  <2> HIDE DEF text, quotes, cur, num
  <2> QED
    BY <1>6, <2>1, <2>2, <2>3, JsonTokens DEF x
<1>8. x \in Tokens /\ x.n = result.runs /\ x.of = cursor
  <2>1. "close" \in TokenKinds /\ cursor \in Names /\ result.runs \in Int
    BY <1>1 DEF TokenKinds, Names, Results
  <2> QED
    BY <2>1, TokenTypes DEF Token
<1>9. Good(x) <=> result.runs > 0 /\ ~quotes
  BY <1>8 DEF Good
<1> HIDE DEF text, x, quotes, num, cur
<1>10. text \in Seq(Tokens) /\ out' \in Seq(Tokens) /\ Closed(out') = Append(Closed(out), x)
  <2>1. text \in Seq(Tokens)
    BY <1>7 DEF Piece
  <2>2. out' \in Seq(Tokens) /\ Closed(out') = Closed(out) \o <<x>>
    BY <1>1, <1>3, <1>7, <2>1, ClosedOfConcat
  <2>3. Closed(out) \o <<x>> = Append(Closed(out), x)
    BY <1>3, <1>8, ClosedLength
  <2> QED
    BY <2>1, <2>2, <2>3
<1>11. /\ Len(Closed(out')) = cur + 1
       /\ RunsReported(out') = Append(RunsReported(out), result.runs)
       /\ AllGood(out') <=> AllGood(out) /\ Good(x)
       /\ \A i \in 1 .. Len(Closed(out')) : \/ i \in 1 .. Len(Closed(out)) /\ Closed(out')[i] = Closed(out)[i]
                                            \/ Closed(out')[i] = x
  <2>1. /\ Len(Closed(out')) = Len(Closed(out)) + 1
        /\ RunsReported(out') = Append(RunsReported(out), x.n)
        /\ AllGood(out') <=> AllGood(out) /\ Good(x)
        /\ \A i \in 1 .. Len(Closed(out')) :
              \/ i \in 1 .. Len(Closed(out)) /\ Closed(out')[i] = Closed(out)[i]
              \/ Closed(out')[i] = x
    BY <1>3, <1>8, <1>10, OneMoreClosed
  <2> QED
    BY <1>2, <1>8, <2>1
<1>12. Cardinality(RunTokens(out')) = SumOf(RunsReported(out'))
  <2>1. Cardinality(RunTokens(out')) = Cardinality(RunTokens(out)) + result.runs
    BY <1>1, <1>3, <1>7, <1>10, RunTokensConcat
  <2>2. result.runs \in Int
    BY <1>1 DEF Results
  <2>3. SumOf(RunsReported(out')) = SumOf(RunsReported(out)) + result.runs
    BY <1>3, <1>11, <2>2, ClosedLength, SumOfAppend
  <2> QED
    BY <1>2, <2>1, <2>3
<1>13. (\A i \in 1 .. Len(Closed(out)) : Closed(out)[i].n = RunsOf(Closed(out)[i].of))'
  <2>1. \A d : RunsOf(d)' = RunsOf(d)
    BY <1>1 DEF RunsOf
  <2> SUFFICES ASSUME NEW i \in 1 .. Len(Closed(out'))
               PROVE  Closed(out')[i].n = RunsOf(Closed(out')[i].of)
    BY <2>1
  <2>2. CASE Closed(out')[i] = x
    BY <1>5, <1>8, <2>2
  <2>3. CASE i \in 1 .. Len(Closed(out)) /\ Closed(out')[i] = Closed(out)[i]
    BY <1>2, <2>3
  <2> QED
    BY <1>11, <2>2, <2>3
<1>14. Piece(out', "begin", Edge(cur + 1, num))
  <2>1. Piece(out', "begin", Closing(cur + 1, num))
    BY <1>1, <1>2, <1>7, PieceConcat
  <2>2. cur + 1 # 0
    BY <1>3
  <2> QED
    BY <2>1, <2>2 DEF Edge, Closing
<1>15. Chained(out') <=> AllGood(out')
  <2>1. Chained(out') <=> /\ Chained(out) /\ Chained(text)
                          /\ <<Edge(cur, num), NameKind(quotes)>> \in Follows
    BY <1>1, <1>2, <1>7, PieceConcat
  <2>2. Edge(cur, num) \in {"begin", "comma"}
    BY <1>4 DEF Edge
  <2>3. ~quotes => <<Edge(cur, num), NameKind(quotes)>> \in Follows
    BY <2>2 DEF Follows, NameKind
  <2> QED
    BY <1>2, <1>7, <1>9, <1>11, <2>1, <2>3
<1>16. Endless(out')
  BY <1>1, <1>2, <1>3, <1>7, <1>10, EndlessConcat
<1>17. ~Finished' /\ numOfBenchmarks' = Len(Plan)' /\ curBenchmarkNum' = Len(Closed(out'))
  BY <1>1, <1>2, <1>11 DEF Finished
<1>18. Piece(out', "begin", Edge(curBenchmarkNum', numOfBenchmarks'))
  BY <1>1, <1>14
<1> QED
  BY <1>12, <1>13, <1>15, <1>16, <1>17, <1>18 DEF ShapeInv

LEMMA EndShape ==
  ASSUME CoreInv, StatusInv, TextInv, WalkInv, ShapeInv, End, IsJson
  PROVE  ShapeInv'
<1> DEFINE num == numOfBenchmarks
           cur == curBenchmarkNum
<1>1. /\ pc = "next" /\ cursor = NULL /\ pc' = "cleanup" /\ program' = program /\ Plan' = Plan
      /\ arguments' = arguments /\ out' = out \o json_end
  BY DEF End, Goto, Write, Plan
<1>2. /\ Cardinality(RunTokens(out)) = SumOf(RunsReported(out))
      /\ \A i \in 1 .. Len(Closed(out)) : Closed(out)[i].n = RunsOf(Closed(out)[i].of)
      /\ num = Len(Plan) /\ cur = Len(Closed(out))
      /\ Piece(out, "begin", Edge(cur, num)) /\ Endless(out)
      /\ Chained(out) <=> AllGood(out)
  <2>1. Writing /\ ~Finished
    BY <1>1 DEF Writing, Finished, StatusInv
  <2> QED
    BY <2>1 DEF ShapeInv
<1>3. out \in Seq(Tokens) /\ out # <<>> /\ cur \in Nat /\ num \in Nat /\ Len(out) \in Nat /\ Len(out) > 0
  <2>1. out \in Seq(Tokens) /\ out # <<>>
    BY <1>2 DEF Piece
  <2> QED
    BY <1>2, <2>1, ClosedLength, PlanTypes, EmptySeq, LenProperties DEF CoreInv, ListInv
<1>4. cur =< num /\ (cur = 0 => num = 0)
  <2>1. Whole
    BY <1>1 DEF WalkInv
  <2> QED
    BY <1>2, <1>3, <2>1, ClosedLength DEF Whole
<1> HIDE DEF num, cur
<1>5. /\ Piece(json_end, "end", "end") /\ Chained(json_end) /\ Len(json_end) = 1 /\ json_end \in Seq(Tokens)
      /\ Cardinality(RunTokens(json_end)) = 0 /\ Closed(json_end) = <<>>
  <2>1. "end" \in TokenKinds /\ "" \in Names /\ 0 \in Int
    BY DEF TokenKinds, Names, Lines
  <2>2. json_end = <<Token("end", "", 0)>> /\ Len(json_end) = 1
    BY DEF json_end
  <2> QED
    BY <2>1, <2>2, OneToken DEF QuietTexts
<1>6. /\ out' \in Seq(Tokens) /\ Closed(out') = Closed(out)
      /\ Len(out') = Len(out) + 1 /\ \A i \in 1 .. Len(out) : out'[i] = out[i]
  <2>1. out' \in Seq(Tokens) /\ Closed(out') = Closed(out) \o <<>>
    BY <1>1, <1>3, <1>5, ClosedOfConcat
  <2>2. Closed(out) \o <<>> = Closed(out)
    BY <1>3, ClosedLength, ConcatEmptySeq
  <2>3. /\ Len(out \o json_end) = Len(out) + Len(json_end)
        /\ \A i \in 1 .. Len(out) : (out \o json_end)[i] = out[i]
    BY <1>3, <1>5, ConcatElements
  <2> QED
    BY <1>1, <1>5, <2>1, <2>2, <2>3
<1>7. /\ Piece(out', "begin", "end")
      /\ Chained(out') <=> Chained(out) /\ <<Edge(cur, num), "end">> \in Follows
  BY <1>1, <1>2, <1>5, PieceConcat
<1>8. <<Edge(cur, num), "end">> \in Follows <=> cur = num
  <2>1. CASE cur = 0
    <3>1. cur = num /\ Edge(cur, num) = "begin"
      BY <1>4, <2>1 DEF Edge
    <3> QED
      BY <3>1 DEF Follows
  <2>2. CASE cur # 0 /\ cur < num
    <3>1. cur # num /\ Edge(cur, num) = "comma"
      BY <1>3, <2>2 DEF Edge
    <3> QED
      BY <3>1 DEF Follows
  <2>3. CASE cur # 0 /\ ~(cur < num)
    <3>1. cur = num /\ Edge(cur, num) = "close"
      BY <1>3, <1>4, <2>3 DEF Edge
    <3> QED
      BY <3>1 DEF Follows
  <2> QED
    BY <2>1, <2>2, <2>3
<1>9. RunsReported(out') = RunsReported(out) /\ (AllGood(out') <=> AllGood(out))
  BY <1>6 DEF RunsReported, AllGood
<1>10. Cardinality(RunTokens(out')) = SumOf(RunsReported(out'))
  <2>1. Cardinality(RunTokens(out')) = Cardinality(RunTokens(out)) + 0 /\ Cardinality(RunTokens(out)) \in Nat
    BY <1>1, <1>3, <1>5, RunTokensConcat, RunTokensFinite
  <2> QED
    BY <1>2, <1>9, <2>1
<1>11. (\A i \in 1 .. Len(Closed(out)) : Closed(out)[i].n = RunsOf(Closed(out)[i].of))'
  <2>1. \A d : RunsOf(d)' = RunsOf(d)
    BY <1>1 DEF RunsOf
  <2> QED
    BY <1>2, <1>6, <2>1
<1>12. Finished' /\ ~Writing'
  BY <1>1 DEF Finished, Writing, InLoop
<1>13. Len(out') >= 2 /\ \A i \in 1 .. (Len(out') - 1) : out'[i].kind # "end"
  <2>1. Len(out') >= 2 /\ Len(out') - 1 = Len(out)
    BY <1>3, <1>6
  <2> QED
    BY <1>2, <1>6, <2>1 DEF Endless
<1>14. Chained(out') <=> AllGood(out') /\ Len(Closed(out')) = Len(Plan)'
  BY <1>1, <1>2, <1>6, <1>7, <1>8, <1>9
<1> QED
  BY <1>7, <1>10, <1>11, <1>12, <1>13, <1>14 DEF ShapeInv

LEMMA NextShapeInv ==
  /\ CoreInv /\ TypeOK /\ HeapInv /\ ResultInv /\ Linked /\ StatusInv /\ TextInv /\ TextInv'
  /\ ParsedInv /\ WalkInv /\ ShapeInv /\ [Next]_vars
  => ShapeInv'
<1> SUFFICES ASSUME CoreInv, TypeOK, HeapInv, ResultInv, Linked, StatusInv, TextInv, TextInv', ParsedInv,
                    WalkInv, ShapeInv, [Next]_vars, IsJson'
             PROVE  ShapeInv'
  BY DEF ShapeInv
<1>1. CASE ~IsJson
  <2>1. pc = "arguments" /\ pc' = "arguments"
    BY <1>1, EarlySteps DEF IsJson
  <2>2. out' = <<>>
    BY <2>1 DEF TextInv, Silent
  <2>3. status' = "alive"
    <3>1. StatusInv'
      BY NextStatusInv DEF CoreInv
    <3> QED
      BY <2>1, <3>1 DEF StatusInv
  <2>4. ~Writing' /\ ~Finished'
    BY <2>1, <2>3 DEF Writing, Finished, InLoop
  <2> QED
    <3>1. (out = <<>> /\ ~Writing /\ ~Finished)'
      BY <2>2, <2>4
    <3> QED
      BY <3>1, EmptyShape, PTL
<1>2. CASE IsJson /\ Begin /\ pc' = "next"
  BY <1>2, BeginShape
<1>3. CASE IsJson /\ EndBenchmark
  BY <1>3, EndBenchmarkShape
<1>4. CASE IsJson /\ End
  BY <1>4, EndShape
<1>5. CASE IsJson /\ ~(Begin /\ pc' = "next") /\ ~EndBenchmark /\ ~End
  <2>1. UNCHANGED <<out, numOfBenchmarks, curBenchmarkNum>>
    BY <1>5, CounterSteps, WritingSteps
  <2>2. program' = program
    <3>1. CASE Next
      BY <3>1, OthersKeepRegistry DEF Register, registry
    <3> QED
      BY <3>1 DEF vars
  <2>3. arguments' = arguments \/ out = <<>>
    BY EarlySteps DEF TextInv, Silent
  <2>4. Writing' => Writing
    BY <1>5, LoopSteps DEF Writing, InLoop, CoreInv
  <2>5. Finished' <=> Finished
    BY <1>5, LoopSteps, FinishedStays DEF Finished, CoreInv
  <2>6. (\A i \in 1 .. Len(Closed(out)) : Closed(out)[i].n = RunsOf(Closed(out)[i].of))'
    <3>1. CASE arguments' = arguments
      <4>1. \A d : RunsOf(d)' = RunsOf(d)
        BY <3>1 DEF RunsOf
      <4> QED
        BY <1>5, <2>1, <4>1 DEF ShapeInv
    <3>2. CASE out = <<>>
      <4>1. Len(Closed(out')) = 0
        BY <2>1, <3>2, ClosedOfEmpty
      <4> QED
        BY <4>1
    <3> QED
      BY <2>3, <3>1, <3>2
  <2>7. Plan' = Plan
    BY <2>2 DEF Plan
  <2> QED
    BY <1>5, <2>1, <2>4, <2>5, <2>6, <2>7 DEF ShapeInv
<1> QED
  BY <1>1, <1>2, <1>3, <1>4, <1>5

-----------------------------------------------------------------------------
(* What a reader of the JSON text can conclude.                            *)

\* The number of runs asked for, the walk through the list, and the text so far: a comma is left
\* out only after as many benchmarks as were registered, and with a repetition
\* the walk never gets there.
DocumentInv == RepeatsInv /\ ParsedInv /\ WalkInv /\ ShapeInv

LEMMA DocumentInvHolds == Spec => [](MeasureInv /\ OutputInv /\ TypeOK /\ DocumentInv)
<1>1. Init => DocumentInv
  <2> SUFFICES ASSUME Init PROVE DocumentInv
    OBVIOUS
  <2>1. /\ pc = "register" /\ status = "alive" /\ out = <<>> /\ parsed = 0
        /\ arguments = DefaultArguments
    BY DEF Init
  <2>2. ParsedInv
    BY <2>1, NoneGiven DEF ParsedInv, DefaultArguments, InLoop
  <2>3. ~Writing /\ ~Finished
    BY <2>1 DEF Writing, Finished, InLoop
  <2>4. WalkInv
    BY <2>1 DEF WalkInv, InLoop
  <2> QED
    BY <2>1, <2>2, <2>3, <2>4, InitRepeats, EmptyShape DEF DocumentInv
<1>2. MeasureInv /\ OutputInv /\ OutputInv' /\ TypeOK /\ DocumentInv /\ [Next]_vars => DocumentInv'
  BY NextRepeats, NextParsedInv, NextWalkInv, NextShapeInv DEF MeasureInv, RunInv, OutputInv, DocumentInv
<1> QED
  BY <1>1, <1>2, OutputInvHolds, TypeCorrect, PTL DEF Spec

LEMMA WhenDocument ==
  ASSUME IsJson, Finished, ShapeInv
  PROVE  IsDocument(out) <=> AllGood(out) /\ Len(Closed(out)) = Len(Plan)
<1>1. /\ Piece(out, "begin", "end") /\ Len(out) >= 2
      /\ Chained(out) <=> AllGood(out) /\ Len(Closed(out)) = Len(Plan)
  BY DEF ShapeInv
<1> QED
  BY <1>1 DEF Piece, IsDocument, Chained

\* The numbers of runs in the text are those that were asked for.
LEMMA ReportedAsAsked ==
  ASSUME CoreInv, StatusInv, TextInv, ParsedInv, ShapeInv, IsJson, Finished, AskedFits,
         Reported(out) = Plan
  PROVE  /\ Len(Closed(out)) = Len(Plan) /\ DOMAIN Plan = 1 .. Len(Plan)
         /\ \A i \in 1 .. Len(Plan) : /\ Plan[i] \in Benchmarks /\ Closed(out)[i].of = Plan[i]
                                      /\ Closed(out)[i].n = Asked(Plan[i])
<1>1. arguments.outcome = "ok" /\ parsed = Len(program.words)
  BY DEF ParsedInv, Finished, StatusInv
<1>2. /\ DOMAIN Plan = 1 .. Len(Plan) /\ Len(Plan) \in Nat
      /\ \A i \in 1 .. Len(Plan) : Plan[i] \in Benchmarks
  BY PlanTypes DEF CoreInv, ListInv
<1>3. Len(Closed(out)) = Len(Plan)
  BY ClosedLength DEF TextInv
<1>4. ASSUME NEW i \in 1 .. Len(Plan)
      PROVE  Closed(out)[i].of = Plan[i] /\ Closed(out)[i].n = Asked(Plan[i])
  <2>1. Closed(out)[i].of = Plan[i]
    <3>1. Reported(out)[i] = Closed(out)[i].of
      BY <1>3 DEF Reported
    <3> QED
      BY <3>1
  <2>2. Closed(out)[i].n = RunsOf(Closed(out)[i].of)
    BY <1>3 DEF ShapeInv
  <2>3. RunsOf(Plan[i]) = Asked(Plan[i])
    BY <1>1, <1>2, AskedIsRun
  <2> QED
    BY <2>1, <2>2, <2>3
<1> QED
  BY <1>2, <1>3, <1>4

LEMMA ReaderFromInv ==
  CoreInv /\ StatusInv /\ TextInv /\ DocumentInv => ReaderNotDeceived
<1> SUFFICES ASSUME CoreInv, StatusInv, TextInv, DocumentInv, IsJson,
                    NEW n \in flushed .. Len(out), IsDocument(SubSeq(out, 1, n))
             PROVE  LET text == SubSeq(out, 1, n)
                        runs == {i \in 1 .. n : text[i].kind = "run"}
                    IN /\ Reported(text) = Plan
                       /\ AskedFits => RunsReported(text) = [i \in DOMAIN Plan |-> Asked(Plan[i])]
                       /\ Cardinality(runs) = SumOf(RunsReported(text))
  BY DEF ReaderNotDeceived
<1> DEFINE text == SubSeq(out, 1, n)
<1>1. out \in Seq(Tokens) /\ Len(out) \in Nat /\ flushed \in Nat /\ n \in 0 .. Len(out)
  BY DEF TextInv
<1>2. Len(text) = n /\ \A i \in 1 .. n : text[i] = out[i]
  BY <1>1
<1>3. n >= 2 /\ out[n].kind = "end"
  <2>1. Len(text) >= 2 /\ text[Len(text)].kind = "end"
    BY DEF IsDocument
  <2>2. n \in 1 .. n
    BY <1>1, <1>2, <2>1
  <2> QED
    BY <1>2, <2>1, <2>2
<1>4. Finished
  <2>1. n \in 1 .. Len(out)
    BY <1>1, <1>3
  <2> QED
    BY <1>3, <2>1 DEF DocumentInv, ShapeInv, Endless
<1>5. n = Len(out)
  <2>1. \A i \in 1 .. (Len(out) - 1) : out[i].kind # "end"
    BY <1>4 DEF DocumentInv, ShapeInv
  <2>2. n \in 1 .. (Len(out) - 1) \/ n = Len(out)
    BY <1>1, <1>3
  <2> QED
    BY <1>3, <2>1, <2>2
<1>6. text = out
  BY <1>1, <1>5
<1> HIDE DEF text
<1>7. Len(Closed(out)) = Len(Plan)
  BY <1>4, <1>6, WhenDocument DEF DocumentInv, text
<1>8. Reported(out) = Plan
  <2>1. Whole
    BY <1>4 DEF DocumentInv, WalkInv, Finished
  <2> QED
    BY <1>1, <1>7, <2>1, ClosedLength DEF Whole
<1>9. ASSUME AskedFits PROVE RunsReported(out) = [i \in DOMAIN Plan |-> Asked(Plan[i])]
  <2>1. /\ DOMAIN Plan = 1 .. Len(Plan)
        /\ \A i \in 1 .. Len(Plan) : Closed(out)[i].n = Asked(Plan[i])
    BY <1>4, <1>8, <1>9, ReportedAsAsked DEF DocumentInv
  <2> QED
    BY <1>7, <2>1 DEF RunsReported
<1>10. Cardinality({i \in 1 .. n : text[i].kind = "run"}) = SumOf(RunsReported(out))
  <2>1. {i \in 1 .. n : text[i].kind = "run"} = RunTokens(out)
    BY <1>5, <1>6 DEF RunTokens
  <2> QED
    BY <2>1 DEF DocumentInv, ShapeInv
<1> QED
  BY <1>6, <1>8, <1>9, <1>10 DEF text

LEMMA ReturnedFromInv ==
  CoreInv /\ StatusInv /\ TextInv /\ OrderInv /\ DocumentInv => DocumentWhenReturned
<1> SUFFICES ASSUME CoreInv, StatusInv, TextInv, OrderInv, DocumentInv, IsJson, status = "return", AskedFits
             PROVE  IsDocument(out) <=>
                      /\ Distinct
                      /\ \A i \in DOMAIN Plan :
                           /\ Asked(Plan[i]) > 0
                           /\ ~(Macro[Plan[i]].quotes
                                  /\ Macro[Plan[i]].kind \in {"BENCHMARK_P", "BENCHMARK_P_F"})
  BY DEF DocumentWhenReturned
<1> DEFINE Broken(d) == Macro[d].quotes /\ Macro[d].kind \in {"BENCHMARK_P", "BENCHMARK_P_F"}
<1>1. Finished /\ Whole /\ out \in Seq(Tokens)
  BY DEF Finished, DocumentInv, WalkInv, TextInv
<1>2. IsDocument(out) <=> AllGood(out) /\ Len(Closed(out)) = Len(Plan)
  BY <1>1, WhenDocument DEF DocumentInv
<1>3. ASSUME NEW d \in Benchmarks PROVE descriptor(d).quotes <=> Broken(d)
  BY MacroAssumption DEF descriptor, BENCHMARK_descriptor, BENCHMARK_P_descriptor,
     BENCHMARK_F_descriptor, BENCHMARK_P_F_descriptor, Descriptor, Kinds
<1>4. ASSUME Reported(out) = Plan
      PROVE  /\ Len(Closed(out)) = Len(Plan)
             /\ AllGood(out) <=> \A i \in DOMAIN Plan : Asked(Plan[i]) > 0 /\ ~Broken(Plan[i])
  <2>1. /\ Len(Closed(out)) = Len(Plan) /\ DOMAIN Plan = 1 .. Len(Plan)
        /\ \A i \in 1 .. Len(Plan) : /\ Plan[i] \in Benchmarks /\ Closed(out)[i].of = Plan[i]
                                     /\ Closed(out)[i].n = Asked(Plan[i])
    BY <1>1, <1>4, ReportedAsAsked DEF DocumentInv
  <2>2. ASSUME NEW i \in 1 .. Len(Plan)
        PROVE  Good(Closed(out)[i]) <=> Asked(Plan[i]) > 0 /\ ~Broken(Plan[i])
    <3>1. descriptor(Plan[i]).quotes <=> Broken(Plan[i])
      BY <1>3, <2>1
    <3> HIDE DEF Broken
    <3> QED
      BY <2>1, <3>1 DEF Good
  <2> HIDE DEF Broken
  <2> QED
    BY <2>1, <2>2 DEF AllGood
<1> HIDE DEF Broken
<1>5. ASSUME IsDocument(out)
      PROVE  Distinct /\ \A i \in DOMAIN Plan : Asked(Plan[i]) > 0 /\ ~Broken(Plan[i])
  <2>1. Reported(out) = Plan /\ Distinct
    BY <1>1, <1>2, <1>5, ClosedLength DEF Whole
  <2> QED
    BY <1>2, <1>4, <1>5, <2>1
<1>6. ASSUME Distinct, \A i \in DOMAIN Plan : Asked(Plan[i]) > 0 /\ ~Broken(Plan[i])
      PROVE  IsDocument(out)
  <2>1. Reported(out) = Plan
    BY <1>6 DEF OrderInv
  <2> QED
    BY <1>2, <1>4, <1>6, <2>1
<1> QED
  BY <1>5, <1>6 DEF Broken

\* Whatever part of the JSON text has arrived, at any moment and however the process ends:
\* it is a complete document only when it is the whole text of a process that came to
\* its end, and then it holds the plan in order, each benchmark with the runs that were
\* asked for and as many entries (chayai_json_outputter.c:41-144).
THEOREM ReadersAreNotDeceived == Spec => []ReaderNotDeceived
<1>1. MeasureInv /\ OutputInv /\ DocumentInv => ReaderNotDeceived
  BY ReaderFromInv DEF MeasureInv, RunInv, OutputInv
<1> QED
  BY <1>1, DocumentInvHolds, PTL

\* What main has printed when it returns is a document exactly if nothing was registered
\* twice, every benchmark ran, and no name breaks a JSON string
\* (chayai_json_outputter.c:83-127).
THEOREM DocumentsAreReturned == Spec => []DocumentWhenReturned
<1>1. MeasureInv /\ OutputInv /\ DocumentInv => DocumentWhenReturned
  BY ReturnedFromInv DEF MeasureInv, RunInv, OutputInv
<1> QED
  BY <1>1, DocumentInvHolds, PTL

-----------------------------------------------------------------------------
(* Red lines of the console report.                                        *)

RED == Token("colour", "RED", 0)
RedLines(s, line) == {i \in 2 .. Len(s) : s[i] = Token("text", line, 0) /\ s[i - 1] = RED}

\* A piece of text with n red copies of a line, and no colour that reaches into the next piece.
Reds(s, line, n) ==
  /\ s \in Seq(Tokens) /\ s # <<>> /\ s[Len(s)] # RED
  /\ n \in Nat /\ IsFiniteSet(RedLines(s, line)) /\ Cardinality(RedLines(s, line)) = n

LEMMA TokensDiffer ==
  \A k1, k2, o1, o2, n1, n2 :
    Token(k1, o1, n1) = Token(k2, o2, n2) <=> k1 = k2 /\ o1 = o2 /\ n1 = n2
BY DEF Token

LEMMA RedsConcat ==
  ASSUME NEW s, NEW t, NEW line, NEW m, NEW n, Reds(s, line, m), Reds(t, line, n)
  PROVE  Reds(s \o t, line, m + n)
<1> DEFINE u == s \o t
           a == Len(s)
           b == Len(t)
           R == RedLines(s, line)
           T == RedLines(t, line)
           S == {a + i : i \in T}
           x == Token("text", line, 0)
<1>1. /\ s \in Seq(Tokens) /\ t \in Seq(Tokens) /\ s # <<>> /\ t # <<>>
      /\ s[a] # RED /\ t[b] # RED /\ m \in Nat /\ n \in Nat
      /\ IsFiniteSet(R) /\ IsFiniteSet(T) /\ Cardinality(R) = m /\ Cardinality(T) = n
  BY DEF Reds
<1>2. a \in Nat /\ b \in Nat /\ a > 0 /\ b > 0
  BY <1>1, EmptySeq, LenProperties
<1>3. /\ u \in Seq(Tokens) /\ Len(u) = a + b
      /\ \A i \in 1 .. a : u[i] = s[i]
      /\ \A i \in 1 .. b : u[a + i] = t[i]
  BY <1>1, ConcatElements
<1>4. u # <<>> /\ u[Len(u)] # RED
  <2>1. b \in 1 .. b /\ Len(u) # 0
    BY <1>2, <1>3
  <2> QED
    BY <1>1, <1>3, <2>1, EmptySeq
<1>5. RedLines(u, line) = R \cup S
  <2> HIDE DEF u, a, b, x
  <2>1. ASSUME NEW i \in RedLines(u, line) PROVE i \in R \cup S
    <3>1. i \in 2 .. (a + b) /\ u[i] = x /\ u[i - 1] = RED
      BY <1>3 DEF RedLines, x
    <3>2. CASE i =< a
      <4>1. i \in 2 .. a /\ i \in 1 .. a /\ i - 1 \in 1 .. a
        BY <1>2, <3>1, <3>2
      <4>2. s[i] = x /\ s[i - 1] = RED
        BY <1>3, <3>1, <4>1
      <4> QED
        BY <4>1, <4>2 DEF RedLines, a, x
    <3>3. CASE i = a + 1
      <4>1. a \in 1 .. a /\ i - 1 = a
        BY <1>2, <3>3
      <4> QED
        BY <1>1, <1>3, <3>1, <4>1
    <3>4. CASE i > a + 1
      <4>1. /\ i - a \in 2 .. b /\ i - a \in 1 .. b /\ (i - a) - 1 \in 1 .. b
            /\ a + (i - a) = i /\ a + ((i - a) - 1) = i - 1
        BY <1>2, <3>1, <3>4
      <4>2. t[i - a] = x /\ t[(i - a) - 1] = RED
        BY <1>3, <3>1, <4>1
      <4>3. i - a \in T
        BY <4>1, <4>2 DEF RedLines, b, x
      <4> QED
        BY <4>1, <4>3
    <3> QED
      BY <1>2, <3>1, <3>2, <3>3, <3>4
  <2>2. ASSUME NEW i \in R PROVE i \in RedLines(u, line)
    <3>1. i \in 2 .. a /\ s[i] = x /\ s[i - 1] = RED
      BY DEF RedLines, a, x
    <3>2. i \in 2 .. (a + b) /\ i \in 1 .. a /\ i - 1 \in 1 .. a
      BY <1>2, <3>1
    <3> QED
      BY <1>3, <3>1, <3>2 DEF RedLines, x
  <2>3. ASSUME NEW i \in T PROVE a + i \in RedLines(u, line)
    <3>1. i \in 2 .. b /\ t[i] = x /\ t[i - 1] = RED
      BY DEF RedLines, b, x
    <3>2. a + i \in 2 .. (a + b) /\ i \in 1 .. b /\ i - 1 \in 1 .. b /\ (a + i) - 1 = a + (i - 1)
      BY <1>2, <3>1
    <3>3. u[a + i] = x /\ u[(a + i) - 1] = RED
      BY <1>3, <3>1, <3>2
    <3> QED
      BY <1>3, <3>2, <3>3 DEF RedLines, x
  <2> QED
    BY <2>1, <2>2, <2>3
<1>6. R \subseteq 2 .. a /\ T \subseteq Nat /\ \A i \in T : i >= 2
  BY <1>2 DEF RedLines
<1>7. IsFiniteSet(S) /\ Cardinality(S) = n
  <2> HIDE DEF R, T, a
  <2> QED
    BY <1>1, <1>2, <1>6, ShiftedSet
<1>8. R \cap S = {}
  <2> HIDE DEF R, T, a
  <2> QED
    BY <1>2, <1>6
<1>9. IsFiniteSet(R \cup S) /\ Cardinality(R \cup S) = m + n
  <2> HIDE DEF R, S
  <2>1. /\ IsFiniteSet(R \cup S)
        /\ Cardinality(R \cup S) = Cardinality(R) + Cardinality(S) - Cardinality(R \cap S)
    BY <1>1, <1>7, FS_Union
  <2>2. Cardinality(R \cap S) = 0
    BY <1>8, FS_EmptySet
  <2> QED
    BY <1>1, <1>7, <2>1, <2>2
<1>10. m + n \in Nat
  BY <1>1
<1> QED
  BY <1>3, <1>4, <1>5, <1>9, <1>10 DEF Reds

\* Whether a comparison makes a line red, for the line that is looked for.
Rising(difference, description, line) == IF difference > 0 /\ description = line THEN 1 ELSE 0
Falling(difference, description, line) == IF difference < 0 /\ description = line THEN 1 ELSE 0

LEMMA OneTokenReds ==
  ASSUME NEW x \in Tokens, x # RED, NEW line
  PROVE  Reds(<<x>>, line, 0)
<1>1. <<x>> \in Seq(Tokens) /\ <<x>> # <<>> /\ <<x>>[Len(<<x>>)] # RED /\ Len(<<x>>) = 1
  OBVIOUS
<1>2. RedLines(<<x>>, line) = {}
  BY <1>1 DEF RedLines
<1> QED
  BY <1>1, <1>2, FS_EmptySet DEF Reds

LEMMA ColouredReds ==
  ASSUME NEW c \in Colours, NEW x \in Names, NEW line
  PROVE  /\ (c = "RED" /\ x = line) => Reds(Coloured(c, x), line, 1)
         /\ ~(c = "RED" /\ x = line) => Reds(Coloured(c, x), line, 0)
<1> DEFINE c1 == Token("colour", c, 0)
           c2 == Token("text", x, 0)
           c3 == Token("colour", "DEFAULT", 0)
           s == <<c1>> \o <<c2>> \o <<c3>>
<1>1. /\ c1 \in Tokens /\ c2 \in Tokens /\ c3 \in Tokens
  <2>1. {"colour", "text"} \subseteq TokenKinds /\ {c, x, "DEFAULT"} \subseteq Names /\ 0 \in Int
    BY DEF TokenKinds, Names, Colours
  <2> QED
    BY <2>1, TokenTypes
<1>2. Coloured(c, x) = s
  BY DEF Coloured, change_color, Text
<1>3. s \in Seq(Tokens) /\ s # <<>> /\ Len(s) = 3 /\ s[1] = c1 /\ s[2] = c2 /\ s[3] = c3
  <2> HIDE DEF c1, c2, c3
  <2>1. \A y \in Tokens : <<y>> \in Seq(Tokens) /\ Len(<<y>>) = 1 /\ <<y>>[1] = y
    OBVIOUS
  <2> DEFINE p == <<c1>> \o <<c2>>
  <2>2. p \in Seq(Tokens) /\ Len(p) = 2 /\ p[1] = c1 /\ p[2] = c2
    <3>1. 1 \in 1 .. 1 /\ 1 + 1 = 2
      OBVIOUS
    <3> QED
      BY <1>1, <2>1, <3>1, ConcatElements
  <2> HIDE DEF p
  <2>3. /\ p \o <<c3>> \in Seq(Tokens) /\ Len(p \o <<c3>>) = 3
        /\ (p \o <<c3>>)[1] = c1 /\ (p \o <<c3>>)[2] = c2 /\ (p \o <<c3>>)[3] = c3
    <3>1. 1 \in 1 .. 1 /\ {1, 2} \subseteq 1 .. 2 /\ 2 + 1 = 3
      OBVIOUS
    <3> QED
      BY <1>1, <2>1, <2>2, <3>1, ConcatElements
  <2>4. p \o <<c3>> # <<>>
    BY <2>3, EmptySeq
  <2> QED
    BY <2>3, <2>4 DEF p
<1>4. c3 # RED /\ c3 # Token("text", line, 0) /\ (c1 = RED <=> c = "RED")
      /\ (c2 = Token("text", line, 0) <=> x = line)
  BY TokensDiffer DEF RED
<1> HIDE DEF s, c1, c2, c3
<1>5. \A i \in 2 .. 3 : i = 2 \/ i = 3
  OBVIOUS
<1>6. RedLines(s, line) = IF c = "RED" /\ x = line THEN {2} ELSE {}
  <2>1. \A i \in 2 .. 3 : i = 2 => i - 1 = 1
    OBVIOUS
  <2>2. 2 \in 2 .. 3
    OBVIOUS
  <2> QED
    BY <1>3, <1>4, <1>5, <2>1, <2>2 DEF RedLines
<1>7. CASE c = "RED" /\ x = line
  BY <1>2, <1>3, <1>4, <1>6, <1>7, FS_Singleton DEF Reds
<1>8. CASE ~(c = "RED" /\ x = line)
  BY <1>2, <1>3, <1>4, <1>6, <1>8, FS_EmptySet DEF Reds
<1> QED
  BY <1>7, <1>8

LEMMA TextReds ==
  ASSUME NEW line
  PROVE  /\ \A x \in Names : Reds(Text(x), line, 0)
         /\ Reds(change_color("GREEN"), line, 0)
         /\ \A c \in Colours \ {"RED"}, x \in Names : Reds(Coloured(c, x), line, 0)
<1>1. ASSUME NEW x \in Names PROVE Reds(Text(x), line, 0)
  <2>1. "text" \in TokenKinds /\ 0 \in Int
    BY DEF TokenKinds
  <2> QED
    BY <2>1, TokenTypes, TokensDiffer, OneTokenReds DEF Text, RED
<1>2. Reds(change_color("GREEN"), line, 0)
  <2>1. "colour" \in TokenKinds /\ "GREEN" \in Names /\ 0 \in Int
    BY DEF TokenKinds, Names, Colours
  <2> QED
    BY <2>1, TokenTypes, TokensDiffer, OneTokenReds DEF change_color, RED
<1> QED
  BY <1>1, <1>2, ColouredReds

LEMMA DeviationReds ==
  ASSUME NEW x \in Measures, NEW line, NEW difference \in Int
  PROVE  /\ Reds(deviation_inverse(x, difference), line, Rising(difference, x, line))
         /\ Reds(deviation(x, difference), line, Falling(difference, x, line))
<1>1. x \in Names /\ "RED" \in Colours /\ "GREEN" \in Colours \ {"RED"}
  BY DEF Names, Colours
<1>2. Reds(Text(x), line, 0) /\ Reds(Coloured("GREEN", x), line, 0)
  BY <1>1, TextReds
<1>3. /\ x = line => Reds(Coloured("RED", x), line, 1)
      /\ x # line => Reds(Coloured("RED", x), line, 0)
  BY <1>1, ColouredReds
<1>4. /\ Reds(Text(x) \o Coloured("GREEN", x), line, 0)
      /\ x = line => Reds(Text(x) \o Coloured("RED", x), line, 1)
      /\ x # line => Reds(Text(x) \o Coloured("RED", x), line, 0)
  <2>1. 0 + 0 = 0 /\ 0 + 1 = 1
    OBVIOUS
  <2> QED
    BY <1>2, <1>3, <2>1, RedsConcat
<1>5. Reds(deviation_inverse(x, difference), line, Rising(difference, x, line))
  <2>1. CASE difference > 0
    <3>1. deviation_inverse(x, difference) = Text(x) \o Coloured("RED", x)
      BY <2>1 DEF deviation_inverse
    <3> QED
      BY <1>4, <2>1, <3>1 DEF Rising
  <2>2. CASE ~(difference > 0)
    <3>1. deviation_inverse(x, difference) = Text(x) \o Coloured("GREEN", x)
      BY <2>2 DEF deviation_inverse
    <3> QED
      BY <1>4, <2>2, <3>1 DEF Rising
  <2> QED
    BY <2>1, <2>2
<1>6. Reds(deviation(x, difference), line, Falling(difference, x, line))
  <2>1. CASE difference < 0
    <3>1. deviation(x, difference) = Text(x) \o Coloured("RED", x)
      BY <2>1 DEF deviation
    <3> QED
      BY <1>4, <2>1, <3>1 DEF Falling
  <2>2. CASE ~(difference < 0)
    <3>1. deviation(x, difference) = Text(x) \o Coloured("GREEN", x)
      BY <2>2 DEF deviation
    <3> QED
      BY <1>4, <2>2, <3>1 DEF Falling
  <2> QED
    BY <2>1, <2>2
<1> QED
  BY <1>5, <1>6

LEMMA RedsQuiet ==
  ASSUME NEW s, NEW t, NEW line, NEW m, Reds(s, line, m), Reds(t, line, 0)
  PROVE  Reds(s \o t, line, m)
<1>1. m \in Nat /\ Reds(s \o t, line, m + 0)
  BY RedsConcat DEF Reds
<1> QED
  BY <1>1

\* How often a line is red in one half of a benchmark's report, from what its fastest and its
\* slowest run differ from the average.
RedRows(line, fast, slow) ==
  Rising(fast, "Fastest", line) + Rising(slow, "Slowest", line)
    + Falling(-fast, "Best performance", line) + Falling(-slow, "Worst performance", line)

\* Four rows of a report, with the line between them.
LEMMA RowsReds ==
  ASSUME NEW s, NEW line, NEW m, Reds(s, line, m), NEW fast \in Int, NEW slow \in Int
  PROVE  Reds(s \o deviation_inverse("Fastest", fast) \o deviation_inverse("Slowest", slow)
                \o Text("Average performance") \o deviation("Best performance", -fast)
                \o deviation("Worst performance", -slow),
              line, m + RedRows(line, fast, slow))
<1> DEFINE f == deviation_inverse("Fastest", fast)
           g == deviation_inverse("Slowest", slow)
           h == Text("Average performance")
           b == deviation("Best performance", -fast)
           w == deviation("Worst performance", -slow)
           nf == Rising(fast, "Fastest", line)
           ng == Rising(slow, "Slowest", line)
           nb == Falling(-fast, "Best performance", line)
           nw == Falling(-slow, "Worst performance", line)
<1>1. /\ {"Fastest", "Slowest", "Best performance", "Worst performance"} \subseteq Measures
      /\ "Average performance" \in Names /\ -fast \in Int /\ -slow \in Int
  BY DEF Measures, Names, Lines
<1>2. Reds(f, line, nf) /\ Reds(g, line, ng) /\ Reds(b, line, nb) /\ Reds(w, line, nw)
  BY <1>1, DeviationReds
<1>3. Reds(h, line, 0)
  BY <1>1, TextReds
<1>4. nf \in Nat /\ ng \in Nat /\ nb \in Nat /\ nw \in Nat /\ m \in Nat
  BY DEF Rising, Falling, Reds
<1>5. RedRows(line, fast, slow) = nf + ng + nb + nw
  BY DEF RedRows
<1> HIDE DEF f, g, h, b, w, nf, ng, nb, nw
<1>6. Reds(s \o f, line, m + nf)
  BY <1>2, RedsConcat
<1>7. Reds(s \o f \o g, line, m + nf + ng)
  BY <1>2, <1>6, RedsConcat
<1>8. Reds(s \o f \o g \o h, line, m + nf + ng)
  BY <1>3, <1>7, RedsQuiet
<1>9. Reds(s \o f \o g \o h \o b, line, m + nf + ng + nb)
  BY <1>2, <1>8, RedsConcat
<1>10. Reds(s \o f \o g \o h \o b \o w, line, m + nf + ng + nb + nw)
  BY <1>2, <1>9, RedsConcat
<1>11. m + nf + ng + nb + nw = m + RedRows(line, fast, slow)
  BY <1>4, <1>5
<1> QED
  BY <1>10, <1>11 DEF f, g, h, b, w

LEMMA ConsoleReds ==
  ASSUME NEW d \in Benchmarks, NEW r \in Results, NEW line
  PROVE  LET fast == TimeDifference(r, r.timeRunMin)
             slow == TimeDifference(r, r.timeRunMax)
         IN Reds(console_end_benchmark(d, r), line,
                 RedRows(line, fast, slow)
                   + RedRows(line, IterationDifference(r, fast), IterationDifference(r, slow)))
<1> DEFINE fast == TimeDifference(r, r.timeRunMin)
           slow == TimeDifference(r, r.timeRunMax)
           fast1 == IterationDifference(r, fast)
           slow1 == IterationDifference(r, slow)
<1>1. /\ r.runs \in Nat /\ r.timeTotal \in Int /\ r.timeRunMin \in Int /\ r.timeRunMax \in Int
  BY DEF Results
<1>2. fast \in Int /\ slow \in Int
  BY <1>1 DEF TimeDifference
<1>3. fast1 \in Int /\ slow1 \in Int
  <2> HIDE DEF fast, slow
  <2> QED
    BY <1>2 DEF IterationDifference
<1>4. /\ RateDifference(r, r.timeRunMin) = -fast /\ RateDifference(r, r.timeRunMax) = -slow
      /\ IterationDifference(r, -fast) = -fast1 /\ IterationDifference(r, -slow) = -slow1
  <2>1. RateDifference(r, r.timeRunMin) = -fast /\ RateDifference(r, r.timeRunMax) = -slow
    BY DEF RateDifference
  <2> HIDE DEF fast, slow
  <2>2. IterationDifference(r, -fast) = -fast1 /\ IterationDifference(r, -slow) = -slow1
    BY <1>2 DEF IterationDifference
  <2> QED
    BY <2>1, <2>2
<1> DEFINE p1 == change_color("GREEN")
           p2 == Text("[     DONE ]")
           p3 == Coloured("YELLOW", d)
           p4 == Coloured("BLUE", "[   RUNS   ]")
           p5 == Text("Average time")
           p6 == Coloured("BLUE", "[ITERATIONS]")
           x == Token("close", d, r.runs)
<1>5. /\ Reds(p1, line, 0) /\ Reds(p2, line, 0) /\ Reds(p3, line, 0) /\ Reds(p4, line, 0)
      /\ Reds(p5, line, 0) /\ Reds(p6, line, 0)
  <2>1. /\ {"[     DONE ]", "[   RUNS   ]", "[ITERATIONS]", "Average time", d} \subseteq Names
        /\ {"YELLOW", "BLUE"} \subseteq Colours \ {"RED"}
    BY DEF Names, Lines, Colours
  <2> QED
    BY <2>1, TextReds
<1>6. Reds(<<x>>, line, 0)
  <2>1. "close" \in TokenKinds /\ d \in Names /\ r.runs \in Int
    BY <1>1 DEF TokenKinds, Names
  <2>2. x \in Tokens
    BY <2>1, TokenTypes
  <2>3. x # RED
    <3>1. "close" # "colour"
      OBVIOUS
    <3> QED
      BY <3>1, TokensDiffer DEF RED
  <2> HIDE DEF x
  <2> QED
    BY <2>2, <2>3, OneTokenReds
<1> DEFINE Rows(s, a, b) ==
             s \o deviation_inverse("Fastest", a) \o deviation_inverse("Slowest", b)
               \o Text("Average performance") \o deviation("Best performance", -a)
               \o deviation("Worst performance", -b)
           q1 == p1 \o p2 \o p3 \o p4 \o p5
           q2 == Rows(q1, fast, slow) \o p6 \o p5
<1>7. console_end_benchmark(d, r) = Rows(q2, fast1, slow1) \o <<x>>
  <2>1. console_end_benchmark(d, r) =
          change_color("GREEN") \o Text("[     DONE ]") \o Coloured("YELLOW", d)
            \o Coloured("BLUE", "[   RUNS   ]") \o Text("Average time")
            \o deviation_inverse("Fastest", fast)
            \o deviation_inverse("Slowest", slow)
            \o Text("Average performance")
            \o deviation("Best performance", RateDifference(r, r.timeRunMin))
            \o deviation("Worst performance", RateDifference(r, r.timeRunMax))
            \o Coloured("BLUE", "[ITERATIONS]") \o Text("Average time")
            \o deviation_inverse("Fastest", fast1)
            \o deviation_inverse("Slowest", slow1)
            \o Text("Average performance")
            \o deviation("Best performance", IterationDifference(r, RateDifference(r, r.timeRunMin)))
            \o deviation("Worst performance", IterationDifference(r, RateDifference(r, r.timeRunMax)))
            \o <<x>>
    BY Zenon DEF console_end_benchmark
  <2> HIDE DEF fast, slow, fast1, slow1, x
  <2> QED
    BY <1>4, <2>1
<1> HIDE DEF p1, p2, p3, p4, p5, p6, x
<1>8. Reds(q1, line, 0)
  BY <1>5, RedsQuiet
<1> HIDE DEF q1, fast, slow, fast1, slow1
<1>9. Reds(Rows(q1, fast, slow), line, 0 + RedRows(line, fast, slow))
  BY <1>2, <1>8, RowsReds
<1> DEFINE n1 == RedRows(line, fast, slow)
           n2 == RedRows(line, fast1, slow1)
           s1 == Rows(q1, fast, slow)
<1>10. Reds(s1, line, n1)
  <2>1. n1 \in Int
    BY DEF RedRows, Rising, Falling
  <2>2. 0 + n1 = n1
    <3> HIDE DEF n1
    <3> QED
      BY <2>1
  <2> QED
    BY <1>9, <2>2
<1>11. Reds(q2, line, n1)
  <2> HIDE DEF s1, n1, Rows
  <2>1. Reds(s1 \o p6 \o p5, line, n1)
    BY <1>5, <1>10, RedsQuiet
  <2> QED
    BY <2>1 DEF s1
<1> HIDE DEF q2
<1>12. Reds(Rows(q2, fast1, slow1), line, n1 + n2)
  <2> HIDE DEF n1
  <2> QED
    BY <1>3, <1>11, RowsReds
<1>13. Reds(console_end_benchmark(d, r), line, n1 + n2)
  <2> HIDE DEF Rows, n1, n2
  <2> QED
    BY <1>6, <1>7, <1>12, RedsQuiet
<1> QED
  BY <1>13 DEF fast, slow, fast1, slow1

\* A sum lies between as many times the least and as many times the greatest of its numbers,
\* and is one of the two exactly if all numbers are.
SumBetween(s, low, high) ==
  /\ low * Len(s) =< SumOf(s) /\ SumOf(s) =< high * Len(s)
  /\ SumOf(s) = low * Len(s) => \A i \in 1 .. Len(s) : s[i] = low
  /\ SumOf(s) = high * Len(s) => \A i \in 1 .. Len(s) : s[i] = high

LEMMA SumsLieBetween ==
  ASSUME NEW low \in Int, NEW high \in Int, NEW s \in Seq(Int),
         \A i \in 1 .. Len(s) : low =< s[i] /\ s[i] =< high
  PROVE  SumOf(s) \in Int /\ SumBetween(s, low, high)
<1> DEFINE Bounded(u) == \A i \in 1 .. Len(u) : low =< u[i] /\ u[i] =< high
           P == {n \in Nat : \A u \in Seq(Int) :
                               Len(u) = n /\ Bounded(u) => SumOf(u) \in Int /\ SumBetween(u, low, high)}
<1>1. 0 \in P
  <2> SUFFICES ASSUME NEW u \in Seq(Int), Len(u) = 0 PROVE SumOf(u) \in Int /\ SumBetween(u, low, high)
    OBVIOUS
  <2>1. SumOf(u) = 0
    BY EmptySeq, SumOfEmpty
  <2>2. low * 0 = 0 /\ high * 0 = 0
    OBVIOUS
  <2> QED
    BY <2>1, <2>2 DEF SumBetween
<1>2. ASSUME NEW n \in Nat, n \in P PROVE n + 1 \in P
  <2> SUFFICES ASSUME NEW u \in Seq(Int), Len(u) = n + 1, Bounded(u)
               PROVE  SumOf(u) \in Int /\ SumBetween(u, low, high)
    OBVIOUS
  <2>1. PICK v \in Seq(Int), x \in Int : u = Append(v, x)
    <3>1. u # <<>>
      OBVIOUS
    <3> QED
      BY <3>1, SequenceEmptyOrAppend
  <2>2. /\ Len(v) = n /\ u[n + 1] = x /\ \A i \in 1 .. n : u[i] = v[i]
    BY <2>1, AppendProperties, LenProperties
  <2>3. low =< x /\ x =< high /\ Bounded(v)
    <3>1. n + 1 \in 1 .. (n + 1) /\ \A i \in 1 .. n : i \in 1 .. (n + 1)
      OBVIOUS
    <3> QED
      BY <2>2, <3>1
  <2>4. SumOf(v) \in Int /\ SumBetween(v, low, high)
    BY <1>2, <2>2, <2>3
  <2>5. SumOf(u) = SumOf(v) + x
    BY <2>1, SumOfAppend
  <2> DEFINE a == low * n
             b == high * n
  <2>6. a \in Int /\ b \in Int /\ low * (n + 1) = a + low /\ high * (n + 1) = b + high
    OBVIOUS
  <2>7. /\ a =< SumOf(v) /\ SumOf(v) =< b
        /\ SumOf(v) = a => \A i \in 1 .. n : v[i] = low
        /\ SumOf(v) = b => \A i \in 1 .. n : v[i] = high
    BY <2>2, <2>4 DEF SumBetween
  <2> HIDE DEF a, b, P, Bounded
  <2>8. /\ a + low =< SumOf(u) /\ SumOf(u) =< b + high
        /\ SumOf(u) = a + low => SumOf(v) = a /\ x = low
        /\ SumOf(u) = b + high => SumOf(v) = b /\ x = high
    BY <2>3, <2>4, <2>5, <2>6, <2>7
  <2>9. \A i \in 1 .. (n + 1) : i \in 1 .. n \/ i = n + 1
    OBVIOUS
  <2>10. /\ SumOf(u) = a + low => \A i \in 1 .. (n + 1) : u[i] = low
         /\ SumOf(u) = b + high => \A i \in 1 .. (n + 1) : u[i] = high
    BY <2>2, <2>7, <2>8, <2>9
  <2>11. SumOf(u) \in Int
    BY <2>3, <2>4, <2>5
  <2>12. low * Len(u) = a + low /\ high * Len(u) = b + high
    BY <2>6
  <2> QED
    BY <2>8, <2>10, <2>11, <2>12 DEF SumBetween
<1>3. Nat \subseteq P
  <2> HIDE DEF P
  <2> QED
    BY <1>1, <1>2, Induction
<1> QED
  BY <1>3, LenProperties

\* The fastest run is never slower than the average, nor the slowest faster; both differ
\* from it exactly if the runs differ.
LEMMA SpreadOfRuns ==
  ASSUME NEW r \in Results, NEW times \in Seq(Int), Len(times) = r.runs, SummarizedBy(r, times)
  PROVE  LET fast == TimeDifference(r, r.timeRunMin)
             slow == TimeDifference(r, r.timeRunMax)
             differ == \E i, j \in 1 .. Len(times) : times[i] # times[j]
         IN /\ fast \in Int /\ slow \in Int /\ fast =< 0 /\ slow >= 0
            /\ slow > 0 <=> differ
<1> DEFINE low == r.timeRunMin
           high == r.timeRunMax
           n == r.runs
           differ == \E i, j \in 1 .. n : times[i] # times[j]
<1>1. /\ n \in Nat /\ low \in Int /\ high \in Int /\ r.timeTotal = SumOf(times) /\ SumOf(times) \in Int
      /\ \A i \in 1 .. n : low =< times[i] /\ times[i] =< high
      /\ times # <<>> => \E i, j \in 1 .. n : low = times[i] /\ high = times[j]
  BY DEF Results, SummarizedBy
<1>2. SumBetween(times, low, high)
  BY <1>1, SumsLieBetween
<1>3. CASE n = 0
  <2>1. TimeDifference(r, low) = 0 /\ TimeDifference(r, high) = 0 /\ ~differ
    BY <1>3 DEF TimeDifference
  <2> QED
    BY <2>1
<1>4. CASE n # 0
  <2> DEFINE a == low * n
             b == high * n
             t == SumOf(times)
  <2>1. TimeDifference(r, low) = a - t /\ TimeDifference(r, high) = b - t
    BY <1>1, <1>4 DEF TimeDifference
  <2>2. a \in Int /\ b \in Int
    BY <1>1
  <2>3. /\ a =< t /\ t =< b
        /\ t = b => \A i \in 1 .. n : times[i] = high
    BY <1>2 DEF SumBetween
  <2>4. PICK i, j \in 1 .. n : low = times[i] /\ high = times[j]
    <3>1. times # <<>>
      BY <1>4, EmptySeq
    <3> QED
      BY <1>1, <3>1
  <2>5. ASSUME ~differ PROVE t = b
    <3>1. \A m \in 1 .. n : times[m] = times[j]
      BY <2>5
    <3>2. low = high
      BY <2>4, <3>1
    <3>3. a = b
      BY <3>2
    <3> HIDE DEF a, b, t
    <3> QED
      BY <1>1, <2>2, <2>3, <3>3 DEF t
  <2>6. ASSUME differ PROVE t # b
    BY <2>3, <2>6
  <2>7. t \in Int
    BY <1>1
  <2> HIDE DEF a, b, t, differ
  <2>8. a - t \in Int /\ b - t \in Int /\ a - t =< 0 /\ b - t >= 0 /\ (b - t > 0 <=> differ)
    BY <2>2, <2>3, <2>5, <2>6, <2>7
  <2> QED
    BY <2>1, <2>8 DEF differ
<1> QED
  BY <1>3, <1>4

LEMMA ColoursFromInv == MeasureInv => ColoursTellSpread
<1> SUFFICES ASSUME MeasureInv, pc = "report", ~IsJson PROVE ColoursTellSpread
  BY DEF ColoursTellSpread
<1> DEFINE fast == TimeDifference(result, result.timeRunMin)
           slow == TimeDifference(result, result.timeRunMax)
           fast1 == IterationDifference(result, fast)
           slow1 == IterationDifference(result, slow)
           times == Times(result)
           differ == \E i, j \in DOMAIN truth : truth[i].time # truth[j].time
           rows == IF ~differ THEN 0 ELSE IF result.iterations = 0 THEN 1 ELSE 2
           text == console_end_benchmark(cursor, result)
<1>1. /\ cursor \in Benchmarks /\ result \in Results /\ k = result.runs /\ k \in Nat
      /\ result.singleRuns \in Seq(SingleRuns) /\ Len(result.singleRuns) = k /\ Len(truth) = k
      /\ truth \in Seq(Truths)
      /\ \A i \in 1 .. k : Belongs(result.singleRuns[i], truth[i])
      /\ SummarizedBy(result, times)
  BY DEF MeasureInv, RunInv, CoreInv, HeapInv, ResultInv, InLoop, Results
<1>2. times \in Seq(Int) /\ Len(times) = k /\ \A i \in 1 .. k : times[i] = truth[i].time
  <2>1. times = [i \in 1 .. k |-> truth[i].time]
    BY <1>1 DEF Times, Belongs
  <2>2. \A i \in 1 .. k : truth[i].time \in Int
    <3>1. \A i \in 1 .. k : truth[i] \in Truths
      BY <1>1, LenProperties
    <3> QED
      BY <3>1 DEF Truths
  <2> HIDE DEF times
  <2>3. times \in [1 .. k -> Int]
    BY <2>1, <2>2
  <2>4. times \in Seq(Int) /\ Len(times) = k
    BY <1>1, <2>3
  <2> QED
    BY <2>1, <2>4
<1>3. DOMAIN truth = 1 .. k
  BY <1>1, LenProperties
<1>4. /\ fast \in Int /\ slow \in Int /\ fast =< 0 /\ slow >= 0
      /\ slow > 0 <=> differ
  <2>1. /\ fast \in Int /\ slow \in Int /\ fast =< 0 /\ slow >= 0
        /\ slow > 0 <=> \E i, j \in 1 .. k : times[i] # times[j]
    <3> HIDE DEF times
    <3> QED
      BY <1>1, <1>2, SpreadOfRuns
  <2> HIDE DEF times, fast, slow
  <2> QED
    BY <1>2, <1>3, <2>1
<1>5. /\ fast1 =< 0 /\ fast1 \in Int /\ slow1 \in Int
      /\ slow1 > 0 <=> differ /\ result.iterations # 0
  <2> HIDE DEF fast, slow, differ
  <2> QED
    BY <1>4 DEF IterationDifference
<1> HIDE DEF fast, slow, fast1, slow1, differ, times
<1>6. \A line : Reds(text, line, RedRows(line, fast, slow) + RedRows(line, fast1, slow1))
  BY <1>1, ConsoleReds DEF fast, slow, fast1, slow1
<1>7. /\ RedRows("Fastest", fast, slow) + RedRows("Fastest", fast1, slow1) = 0
      /\ RedRows("Best performance", fast, slow) + RedRows("Best performance", fast1, slow1) = 0
  BY <1>4, <1>5 DEF RedRows, Rising, Falling
<1>8. /\ RedRows("Slowest", fast, slow) + RedRows("Slowest", fast1, slow1) = rows
      /\ RedRows("Worst performance", fast, slow) + RedRows("Worst performance", fast1, slow1) = rows
  BY <1>4, <1>5 DEF RedRows, Rising, Falling
<1> HIDE DEF rows, text
<1>9. /\ RedLines(text, "Fastest") = {} /\ RedLines(text, "Best performance") = {}
  <2>1. Reds(text, "Fastest", 0) /\ Reds(text, "Best performance", 0)
    BY <1>6, <1>7
  <2> QED
    BY <2>1, FS_EmptySet DEF Reds
<1>10. /\ Cardinality(RedLines(text, "Slowest")) = rows
       /\ Cardinality(RedLines(text, "Worst performance")) = rows
  <2>1. Reds(text, "Slowest", rows) /\ Reds(text, "Worst performance", rows)
    BY <1>6, <1>8
  <2> QED
    BY <2>1 DEF Reds
<1> QED
  BY <1>9, <1>10 DEF ColoursTellSpread, RedLines, RED, rows, differ, text

\* Whatever the clock and the bodies did, the console report calls the slowest run red exactly if
\* the runs differ, as a time and as a rate, and never the fastest
\* (chayai_console_outputter.c:92-134, 211-255).
THEOREM ColoursAreTrue == Spec => []ColoursTellSpread
<1> QED
  BY ColoursFromInv, MeasureInvHolds, PTL
=============================================================================

--------------------------- MODULE ChayaiOutputters ---------------------------
(***************************************************************************)
(* What the two outputters of C-Hayai print, as sequences of tokens: for   *)
(* JSON the structure of the document, for the console the lines with      *)
(* their colours.  Numbers are left out where no property looks at them.   *)
(* A result is a record with the fields of CHayaiBenchmarkResult.          *)
(***************************************************************************)
EXTENDS Integers, Sequences, SequencesExt

\* kind is the structure, of the benchmark, line or colour, n a number.
Token(kind, of, n) == [kind |-> kind, of |-> of, n |-> n]

NoCounters == -1   \* a run without PAPI

-----------------------------------------------------------------------------
(* chayai_json_outputter.c                                                 *)

json_begin == <<Token("begin", "", 0)>>
json_end == <<Token("end", "", 0)>>

\* The entries of "runs", with their counters, and the commas between them.
json_runs(result) ==
  [i \in 1 .. (2 * result.runs - 1) |->
     IF i % 2 = 1 THEN Token("run", "", result.singleRuns[(i + 1) \div 2].papiCounters)
                  ELSE Token("run comma", "", 0)]

\* The quotation marks and backslashes of a stringified parameter are not escaped.
json_name(d, quotes) == <<Token(IF quotes THEN "broken name" ELSE "name", d, 0)>>

\* Mean and deviation divide by the number of runs: printf writes nan for 0 of them.
json_statistics(result) == <<Token(IF result.runs = 0 THEN "nan" ELSE "statistics", "", 0)>>

\* Mutant: the comma is decided by the number of runs done so far.
json_comma_first(cur, num) == IF cur > 1 THEN <<Token("comma", "", 0)>> ELSE <<>>

\* The comma after a benchmark, from the two counters of the outputter.
json_comma(cur, num) == IF cur < num THEN <<Token("comma", "", 0)>> ELSE <<>>

json_end_benchmark(d, quotes, result, cur, num) ==
  json_name(d, quotes)
    \o json_runs(result)
    \o json_statistics(result)
    \o <<Token("close", d, result.runs)>>
    \o json_comma(cur, num)

-----------------------------------------------------------------------------
(* chayai_console.c and chayai_console_outputter.c                         *)

Colours == {"DEFAULT", "BLUE", "GREEN", "RED", "PURPLE", "YELLOW"}
change_color(c) == <<Token("colour", c, 0)>>
Text(line) == <<Token("text", line, 0)>>
Coloured(c, line) == change_color(c) \o Text(line) \o change_color("DEFAULT")

console_begin(count) ==
  Coloured("PURPLE", "CLOCK SOURCE") \o Coloured("GREEN", "[bar]") \o Text("Running")

console_end(count) == Coloured("GREEN", "[bar]") \o Text("Ran")

console_begin_benchmark(d) ==
  change_color("GREEN") \o Text("[ RUN      ]") \o Coloured("YELLOW", d) \o Text("(runs)")

\* Mutant: the signs of the two deviations exchanged.
deviation_inverse_as_deviation(description, difference) ==
  Text(description)
    \o Coloured(IF difference < 0 THEN "RED" ELSE "GREEN", description)

\* Times: above the average is bad.
deviation_inverse(description, difference) ==
  Text(description)
    \o Coloured(IF difference > 0 THEN "RED" ELSE "GREEN", description)

\* Rates: below the average is bad.
deviation(description, difference) ==
  Text(description)
    \o Coloured(IF difference < 0 THEN "RED" ELSE "GREEN", description)

\* time - average, up to a positive factor; nan, which no comparison holds for, is 0.
TimeDifference(result, time) ==
  IF result.runs = 0 THEN 0 ELSE time * result.runs - result.timeTotal

\* 1 / time - 1 / average, up to a positive factor, for times that are not negative.
RateDifference(result, time) == -TimeDifference(result, time)

\* The same for one iteration: 0 / 0 and inf - inf are nan.
IterationDifference(result, difference) == IF result.iterations = 0 THEN 0 ELSE difference

console_end_benchmark(d, result) ==
  LET fast == result.timeRunMin
      slow == result.timeRunMax
      Iteration(difference) == IterationDifference(result, difference)
  IN change_color("GREEN") \o Text("[     DONE ]") \o Coloured("YELLOW", d)
     \o Coloured("BLUE", "[   RUNS   ]") \o Text("Average time")
     \o deviation_inverse("Fastest", TimeDifference(result, fast))
     \o deviation_inverse("Slowest", TimeDifference(result, slow))
     \o Text("Average performance")
     \o deviation("Best performance", RateDifference(result, fast))
     \o deviation("Worst performance", RateDifference(result, slow))
     \o Coloured("BLUE", "[ITERATIONS]") \o Text("Average time")
     \o deviation_inverse("Fastest", Iteration(TimeDifference(result, fast)))
     \o deviation_inverse("Slowest", Iteration(TimeDifference(result, slow)))
     \o Text("Average performance")
     \o deviation("Best performance", Iteration(RateDifference(result, fast)))
     \o deviation("Worst performance", Iteration(RateDifference(result, slow)))
     \o <<Token("close", d, result.runs)>>

-----------------------------------------------------------------------------
(* A reader's view, for the properties.                                    *)

\* The pairs of tokens that may follow each other in a document that json.loads takes.
Follows ==
  {<<"begin", "end">>, <<"begin", "name">>, <<"name", "run">>, <<"run", "run comma">>,
   <<"run comma", "run">>, <<"run", "statistics">>, <<"statistics", "close">>,
   <<"close", "comma">>, <<"comma", "name">>, <<"close", "end">>}

IsDocument(s) ==
  /\ Len(s) >= 2
  /\ s[1].kind = "begin" /\ s[Len(s)].kind = "end"
  /\ \A i \in 1 .. (Len(s) - 1) : <<s[i].kind, s[i + 1].kind>> \in Follows

\* The benchmarks reported in full.
Closed(s) ==
  LET closed[i \in 0 .. Len(s)] ==
        IF i = 0 THEN <<>>
        ELSE IF s[i].kind = "close" THEN Append(closed[i - 1], s[i]) ELSE closed[i - 1]
  IN closed[Len(s)]
Reported(s) == [i \in 1 .. Len(Closed(s)) |-> Closed(s)[i].of]
RunsReported(s) == [i \in 1 .. Len(Closed(s)) |-> Closed(s)[i].n]
=============================================================================

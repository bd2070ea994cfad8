------------------------------- MODULE MCChayai -------------------------------
(***************************************************************************)
(* Harnesses and command lines for TLC: one of each kind of macro, one     *)
(* without runs, one whose name breaks a JSON string; plans with up to     *)
(* four benchmarks, and with benchmarks registered again.                  *)
(***************************************************************************)
EXTENDS Chayai

Defined(kind, runs, its, quotes) ==
  [kind |-> kind, runs |-> runs, iterations |-> its, quotes |-> quotes]

MCMacro == [plain   |-> Defined("BENCHMARK", 2, 1, FALSE),
            param   |-> Defined("BENCHMARK_P", 1, 0, FALSE),
            quoted  |-> Defined("BENCHMARK_P", 1, 1, TRUE),
            fixture |-> Defined("BENCHMARK_F", 2, 2, FALSE),
            both    |-> Defined("BENCHMARK_P_F", 1, 1, FALSE),
            never   |-> Defined("BENCHMARK", 0, 1, FALSE)]

Program(plan, words) == [plan |-> plan, words |-> words, tmp |-> 0, workdir |-> FALSE]
InDirectory(plan, words, n, env) ==
  [plan |-> plan, words |-> words, tmp |-> n, workdir |-> env]

Json == Word("o", TRUE, "json", 0)
Console == Word("o", TRUE, "console", 0)
W(n) == Word("w", TRUE, "number", n)
I(n) == Word("i", TRUE, "number", n)
P(n) == Word("p", TRUE, "known", n)

MCPrograms ==
  {Program(<<"plain", "fixture">>, <<Json, W(1)>>),
   Program(<<"fixture", "both">>, <<W(1)>>),
   Program(<<"param", "both", "never", "plain">>, <<Json, W(0), P(1)>>),
   Program(<<"both", "param", "plain">>, <<W(0), P(2)>>),
   Program(<<"param", "plain">>, <<Console, W(0), I(2)>>),
   Program(<<"fixture", "plain">>, <<Json, P(1), P(1), W(1)>>),
   Program(<<"both">>, <<Json, Bare("p")>>),
   Program(<<"plain">>, <<Json, W(0), I(-1), Bare("arg")>>),
   Program(<<"plain">>, <<Json, W(4), I(0)>>),
   Program(<<>>, <<Json>>), Program(<<>>, <<>>),
   Program(<<"never", "plain">>, <<Json, W(0)>>), Program(<<"never">>, <<W(0)>>),
   Program(<<"both", "quoted">>, <<Json, W(0)>>),
   Program(<<"plain", "plain">>, <<Json>>),
   Program(<<"plain", "both", "plain">>, <<>>),
   Program(<<"plain", "both", "plain", "quoted">>, <<Json, W(0)>>),
   Program(<<"plain", "both", "plain", "param">>, <<Json, W(0)>>)}
  \cup {InDirectory(<<"plain">>, <<Json, W(0), I(1)>>, n, env) : n \in 1 .. 2, env \in BOOLEAN}
  \cup {InDirectory(<<"both">>, words, 1, FALSE) :
          words \in {<<Bare("o"), Json>>, <<Json, Bare("help"), I(1)>>, <<Bare("unknown")>>,
                     <<Word("i", TRUE, "trailing", 1)>>, <<Bare("w")>>, <<I(8)>>, <<I(-9)>>,
                     <<Word("o", TRUE, "xml", 0)>>, <<Word("p", TRUE, "refused", 1)>>}}
=============================================================================

---------------------------- MODULE MCBenchRunner ----------------------------
(***************************************************************************)
(* BenchRunner for TLC.  The instances differ in the shape of the work     *)
(* (runtimes x runs x harnesses) and in which command lines and answers of *)
(* the harnesses are considered.                                           *)
(***************************************************************************)
EXTENDS BenchRunner

Plain == [only_missing |-> FALSE, ignore_errors |-> FALSE, ignore_invalid |-> FALSE,
          skip_clean |-> FALSE, skip_compilation |-> FALSE]

\* Every command line with at most one of the options, and --only-missing with
\* --ignore-errors.
FewOptions == {o \in AllOptions :
                 Cardinality({f \in DOMAIN o : o[f]}) =< 1
                   \/ o = [Plain EXCEPT !.skip_clean = TRUE, !.skip_compilation = TRUE]
                   \/ o = [Plain EXCEPT !.only_missing = TRUE, !.ignore_errors = TRUE]}

Answer(out, err, code) == [stdout |-> out, stderr |-> err, exit_code |-> code]

\* One answer of each kind: success, noise on stderr, a crash without output,
\* two ways to fail while the measurements are stored.
MainAnswers == {Answer("good", FALSE, 0), Answer("good", TRUE, 0), Answer("empty", FALSE, 1),
                Answer("raises", FALSE, 0), Answer("refused", FALSE, 0)}
=============================================================================

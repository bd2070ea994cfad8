--------------------------- MODULE BenchmarkReport ---------------------------
(***************************************************************************)
(* What a harness promises to whoever reads its output: the benchmarks of  *)
(* its plan are reported one after the other, each once, nothing that was  *)
(* reported is taken back, and the output is called complete only with all *)
(* of them in it.  It may fail, or stop without a word, at any moment.     *)
(* A plan that names a benchmark twice is outside the promise.             *)
(***************************************************************************)
EXTENDS Naturals, Sequences

CONSTANT Plans

VARIABLES plan, reported, state
vars == <<plan, reported, state>>

Distinct == \A i, j \in DOMAIN plan : plan[i] = plan[j] => i = j

Init == /\ plan \in Plans
        /\ reported = <<>>
        /\ state = "running"

\* Output reaches the reader, of one benchmark or of several at once.
Report == /\ state = "running" /\ Distinct
          /\ \E n \in (Len(reported) + 1) .. Len(plan) : reported' = SubSeq(plan, 1, n)
          /\ UNCHANGED <<plan, state>>

Complete == /\ state = "running" /\ Distinct
            /\ reported = plan
            /\ state' = "complete"
            /\ UNCHANGED <<plan, reported>>

Fail == /\ state = "running"
        /\ state' = "failed"
        /\ UNCHANGED <<plan, reported>>

OutsideThePromise == ~Distinct /\ UNCHANGED plan

Next == Report \/ Complete \/ Fail \/ OutsideThePromise

Spec == Init /\ [][Next]_vars
=============================================================================

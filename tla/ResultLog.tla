------------------------------ MODULE ResultLog ------------------------------
(***************************************************************************)
(* What the result file of tools/bench.py promises, with no file in it: a  *)
(* session measures results, every save keeps the whole session, a save    *)
(* either takes place or does not, and what was kept once is kept for      *)
(* good.  A later session starts from results that were kept.              *)
(***************************************************************************)
CONSTANT Result          \* everything one benchmark execution leaves behind

VARIABLES session,       \* the results the running session knows
          kept           \* the results some file keeps

logVars == <<session, kept>>

Init == session = {} /\ kept = {}

\* A benchmark was executed and its result committed to the session.
Measure == /\ \E r \in Result : session' = session \cup {r}
           /\ UNCHANGED kept

\* All of the session reaches a file, in one step.
Save == /\ kept' = kept \cup session
        /\ UNCHANGED session

\* The session ends; the next one has loaded results that were kept.
Resume == /\ session' \in SUBSET kept
          /\ UNCHANGED kept

Next == Measure \/ Save \/ Resume

Spec == Init /\ [][Next]_logVars
=============================================================================

--------------------------- MODULE BenchRunnerProofs ---------------------------
(***************************************************************************)
(* One process of bench.py, for any number of runtimes, runs and           *)
(* harnesses, any command lines, answers, failures and moments of Ctrl-C:  *)
(* the file and the exit status agree with what was measured.              *)
(***************************************************************************)
EXTENDS BenchRunner, TLAPS

-----------------------------------------------------------------------------
(* The inductive invariant, in parts.                                      *)

Working == {"harness", "executing", "intermediate_write"}

\* The loop positions.
PositionInv ==
  /\ pc \notin {"runtimes", "exited"} => runtime \in Runtime
  /\ pc \in {"clean", "compile"} => run = 1 /\ harness = 1
  /\ pc \in Working => run \in 1..Runs
  /\ pc = "executing" => harness \in Harness
  /\ pc = "intermediate_write" => run < Runs /\ harness = NumHarnesses + 1

\* With the clean step, no binary is left of those from before the compilation.
BinaryInv ==
  ~opt.skip_clean =>
    /\ pc = "compile" => \A h \in Harness : bin[h] = NoBinary
    /\ pc \in Working => \A h \in Harness : bin[h] \in {NoBinary, runtime}
    /\ pc = "executing" => bin[harness] = runtime

\* What the loops have passed: whole runtimes, or a part of the current one.
Passed(e) == IF pc \in {"runtimes", "final_write", "exited"} THEN e[1] =< runtime
             ELSE \/ e[1] < runtime
                  \/ e[1] = runtime /\ e[2] < run
                  \/ e[1] = runtime /\ e[2] = run /\ e[3] < harness

\* Nothing is measured ahead of the loops.
FreshInv ==
  /\ \A e \in Execution : rows[e] # "none" => Passed(e) \/ (pc = "executing" /\ e = Current)
  /\ pc = "executing" => rows[Current] = "started"

\* The file never held anything that was not measured, and holds all of it after
\* a write that returns.
FileInv == /\ file \subseteq seen /\ seen \subseteq Measured
           /\ MeasuredIsInFile /\ LossIsRepaired

\* What the database refuses clears no_error, and no_failures after it.
PoisonedInv ==
  /\ RefusedIsReported
  /\ poisoned => /\ pc = "final_write" => ~no_error
                 /\ pc = "runtimes" => ~no_failures

\* Nothing went wrong up to now.
Well == /\ ~interrupted /\ no_failures
        /\ pc \notin {"runtimes", "exited"} => no_error

\* As long as nothing went wrong, what was measured was so in full.
CompleteInv ==
  Well => \A e \in Execution :
            rows[e] # "none" => Complete(e) \/ (pc = "executing" /\ e = Current)

\* As long as nothing went wrong and nothing is to be left out, every harness has
\* its binary and no execution is missing.
Everything == ~opt.only_missing /\ ~opt.skip_compilation /\ ~opt.ignore_errors
CoverInv ==
  Everything /\ Well =>
    /\ pc \in Working => \A h \in Harness : bin[h] # NoBinary
    /\ \A e \in Execution : Passed(e) => rows[e] # "none"

\* Status 0 comes from a process in which nothing went wrong.
StatusInv ==
  /\ pc # "exited" => status = 2
  /\ pc = "exited" /\ status = 0 /\ ~interrupted /\ ~opt.ignore_errors =>
       no_failures /\ runtime = NumRuntimes

RunnerInv == /\ TypeOK /\ PositionInv /\ BinaryInv /\ FreshInv /\ FileInv
             /\ PoisonedInv /\ CompleteInv /\ CoverInv /\ StatusInv

-----------------------------------------------------------------------------
(* Types and positions.                                                    *)

LEMMA Constants ==
  /\ NumRuntimes \in Nat /\ NumRuntimes > 0 /\ NumHarnesses \in Nat /\ Runs \in Nat
  /\ \A o \in Options :
       /\ o.only_missing \in BOOLEAN /\ o.ignore_errors \in BOOLEAN /\ o.ignore_invalid \in BOOLEAN
       /\ o.skip_clean \in BOOLEAN /\ o.skip_compilation \in BOOLEAN
       /\ o.skip_compilation => o.skip_clean
  /\ \A a \in Answers : /\ a.stdout \in Stdout /\ a.stderr \in BOOLEAN /\ a.exit_code \in {0, 1}
BY ConstantsAssumption DEF AllOptions, Returned

\* An execution is its three numbers.
LEMMA ExecutionTypes ==
  /\ \A e \in Execution : /\ e[1] \in Runtime /\ e[2] \in 1..Runs /\ e[3] \in Harness
                          /\ e = <<e[1], e[2], e[3]>>
  /\ \A i \in Runtime, r \in 1..Runs, h \in Harness : <<i, r, h>> \in Execution
BY DEF Execution

LEMMA MeasuredType == Measured \subseteq Execution
BY DEF Measured

LEMMA InitTypes == Init => TypeOK /\ PositionInv
<1> SUFFICES ASSUME Init PROVE TypeOK /\ PositionInv
  OBVIOUS
<1>1. \A h \in Harness : bin[h] \in 0..(NumRuntimes + 1)
  BY Constants DEF Init, NoBinary, Earlier
<1>2. bin \in [Harness -> 0..(NumRuntimes + 1)] /\ present \subseteq Runtime \X Harness
  BY <1>1 DEF Init
<1>3. rows \in [Execution -> RowStates] /\ answer \in [Execution -> [stderr : BOOLEAN, exit_code : {0, 1}]]
  BY DEF Init, RowStates, NoAnswer
<1>4. /\ runtime \in 0..NumRuntimes /\ run \in 1..Runs \cup {1} /\ harness \in 1..(NumHarnesses + 1)
      /\ status \in 0..2
  BY Constants DEF Init
<1> QED
  BY <1>2, <1>3, <1>4 DEF Init, TypeOK, PositionInv, Working

\* What a step does to the file: nothing, a write that returns, or one that fails.
FileStep ==
  \/ UNCHANGED stored
  \/ /\ file' = Measured /\ seen' = seen \cup Measured /\ write_failed' = FALSE
     /\ UNCHANGED rows
  \/ /\ file' \in {file, {}, Measured} /\ seen' = seen \cup file' /\ write_failed' = TRUE
     /\ UNCHANGED rows

LEMMA NextFile == [Next]_vars => FileStep /\ opt' = opt
<1> SUFFICES ASSUME [Next]_vars PROVE FileStep /\ opt' = opt
  OBVIOUS
<1> USE DEF database, results, stored, FileStep
<1>1. CASE IntermediateWrite \/ FinalWrite \/ FinalWriteInterrupted
  BY <1>1 DEF IntermediateWrite, FinalWrite, FinalWriteInterrupted, WriteFile, WriteReturns, WriteFails
<1>2. CASE Interrupt \/ InterruptOutside
  BY <1>2 DEF Interrupt, InterruptOutside, WriteFile, WriteFails
<1>3. CASE Step /\ ~(IntermediateWrite \/ FinalWrite \/ FinalWriteInterrupted)
  BY <1>3 DEF Step, NextRuntime, LookupRaises, Exit, SkipClean, CleanSucceeds, CleanFails,
              SkipCompilation, CompileSucceeds, CompileFails, SkipHarness, StartExecution,
              CommitFails, ExecutionRaises, ExecutionReturns, ExecutionRefused, EndOfRun
<1>4. CASE Gone \/ UNCHANGED vars
  BY <1>4 DEF Gone, vars
<1> QED
  BY <1>1, <1>2, <1>3, <1>4 DEF Next

LEMMA BuildType ==
  ASSUME TypeOK, runtime \in Runtime, NEW built, Build(built)
  PROVE  bin' \in [Harness -> 0..(NumRuntimes + 1)]
BY Constants DEF TypeOK, Build, Runtime

LEMMA NextTypes == TypeOK /\ PositionInv /\ [Next]_vars => TypeOK' /\ PositionInv'
<1> SUFFICES ASSUME TypeOK, PositionInv, [Next]_vars PROVE TypeOK' /\ PositionInv'
  OBVIOUS
<1>1. file' \subseteq Execution /\ seen' \subseteq Execution /\ write_failed' \in BOOLEAN
  BY NextFile, MeasuredType DEF FileStep, stored, TypeOK
<1>0. \A ok \in BOOLEAN : ExitStatus(ok) \in 0..2
  BY DEF ExitStatus
<1> USE <1>1, Constants DEF TypeOK, PositionInv, Working, progress, database, results, Runtime, Harness
<1>2. CASE NextRuntime
  BY <1>2 DEF NextRuntime
<1>3. CASE Exit \/ LookupRaises
  BY <1>0, <1>3 DEF Exit, LookupRaises
<1>4. CASE SkipClean
  BY <1>4 DEF SkipClean
<1>5. CASE CleanSucceeds
  BY <1>5 DEF CleanSucceeds, NoBinary
<1>6. CASE CleanFails
  <2>1. bin' \in [Harness -> 0..(NumRuntimes + 1)]
    BY <1>6 DEF CleanFails, NoBinary
  <2> QED
    BY <1>6, <2>1 DEF CleanFails
<1>7. CASE SkipCompilation
  BY <1>7 DEF SkipCompilation, StartRuns
<1>8. CASE CompileSucceeds \/ CompileFails
  <2>1. bin' \in [Harness -> 0..(NumRuntimes + 1)]
    BY <1>8, BuildType DEF CompileSucceeds, CompileFails
  <2>2. /\ pc = "compile" /\ pc' \in {"final_write", "harness"}
        /\ pc' = "harness" => Runs # 0
        /\ no_error' \in BOOLEAN
        /\ UNCHANGED <<opt, progress, database, results>>
    BY <1>8 DEF CompileSucceeds, CompileFails, StartRuns
  <2> QED
    BY <2>1, <2>2
<1>10. CASE SkipHarness
  BY <1>10 DEF SkipHarness
<1>11. CASE StartExecution
  BY <1>11 DEF StartExecution, RowStates
<1>12. CASE CommitFails
  <2>1. bin' \in [Harness -> 0..(NumRuntimes + 1)]
    <3>1. CASE pc = "compile"
      BY <1>12, <3>1, BuildType DEF CommitFails
    <3>2. CASE pc # "compile"
      BY <1>12, <3>2 DEF CommitFails
    <3> QED
      BY <3>1, <3>2
  <2> QED
    BY <1>12, <2>1 DEF CommitFails
<1>13. CASE ExecutionRaises
  <2>1. /\ pc = "executing" /\ pc' = "harness" /\ harness' = harness + 1 /\ no_error' = FALSE
        /\ UNCHANGED <<opt, runtime, run, bin, present, rows, answer, poisoned, no_failures,
                       status, interrupted>>
    BY <1>13 DEF ExecutionRaises
  <2>2. harness' \in 1..(NumHarnesses + 1) /\ run \in 1..Runs
    BY <2>1
  <2> QED
    BY <2>1, <2>2
<1>14. CASE ExecutionReturns
  <2>1. PICK a \in Answers :
          /\ answer' = [answer EXCEPT ![Current] =
                          [stderr |-> a.stderr, exit_code |-> a.exit_code]]
          /\ rows' = [rows EXCEPT ![Current] =
                        IF Discarded(a) THEN "started"
                        ELSE CASE a.stdout = "good" -> "full"
                               [] a.stdout = "raises" -> "partial"
                               [] OTHER -> "started"]
          /\ no_error' = (no_error /\ ~a.stderr /\ a.stdout = "good")
    BY <1>14 DEF ExecutionReturns, Answered
  <2>2. answer' \in [Execution -> [stderr : BOOLEAN, exit_code : {0, 1}]]
    BY <2>1
  <2>3. rows' \in [Execution -> RowStates]
    BY <2>1 DEF RowStates
  <2>4. no_error' \in BOOLEAN
    BY <2>1
  <2> QED
    BY <1>14, <2>2, <2>3, <2>4 DEF ExecutionReturns
<1>9. CASE ExecutionRefused
  <2>1. PICK a \in Answers : answer' = [answer EXCEPT ![Current] =
                                          [stderr |-> a.stderr, exit_code |-> a.exit_code]]
    BY <1>9 DEF ExecutionRefused, Answered
  <2>2. answer' \in [Execution -> [stderr : BOOLEAN, exit_code : {0, 1}]]
    BY <2>1
  <2> QED
    BY <1>9, <2>2 DEF ExecutionRefused
<1>15. CASE EndOfRun
  BY <1>15 DEF EndOfRun
<1>16. CASE IntermediateWrite
  BY <1>16 DEF IntermediateWrite
<1>17. CASE FinalWrite
  BY <1>17 DEF FinalWrite
<1>18. CASE FinalWriteInterrupted
  BY <1>0, <1>18 DEF FinalWriteInterrupted
<1>19. CASE Interrupt
  <2>1. rows' \in [Execution -> RowStates]
    <3>1. CASE UNCHANGED rows
      BY <3>1
    <3>2. CASE rows' = [rows EXCEPT ![Current] = "partial"]
      BY <3>2 DEF RowStates
    <3> QED
      BY <1>19, <3>1, <3>2 DEF Interrupt
  <2>2. /\ pc' = "final_write" /\ interrupted' = TRUE /\ pc \notin {"runtimes", "exited"}
        /\ UNCHANGED <<opt, runtime, run, harness, bin, present, answer, poisoned, no_error,
                       no_failures, status>>
    BY <1>19 DEF Interrupt
  <2> QED
    BY <2>1, <2>2
<1>20. CASE InterruptOutside
  BY <1>0, <1>20 DEF InterruptOutside
<1>21. CASE Gone \/ UNCHANGED vars
  BY <1>21 DEF Gone, vars
<1> QED
  BY <1>2, <1>3, <1>4, <1>5, <1>6, <1>7, <1>8, <1>9, <1>10, <1>11, <1>12, <1>13, <1>14, <1>15,
     <1>16, <1>17, <1>18, <1>19, <1>20, <1>21 DEF Next, Step

-----------------------------------------------------------------------------
(* The binaries.                                                           *)

LEMMA NextBinaryInv == TypeOK /\ PositionInv /\ BinaryInv /\ [Next]_vars => BinaryInv'
<1> SUFFICES ASSUME TypeOK, PositionInv, BinaryInv, [Next]_vars, ~opt'.skip_clean
             PROVE  BinaryInv'
  BY DEF BinaryInv
<1>1. opt' = opt /\ ~opt.skip_clean /\ ~opt.skip_compilation
  <2>1. opt' = opt
    BY DEF Next, Step, NextRuntime, LookupRaises, Exit, SkipClean, CleanSucceeds, CleanFails, SkipCompilation,
           CompileSucceeds, CompileFails, SkipHarness, StartExecution, CommitFails,
           ExecutionRaises, ExecutionReturns, ExecutionRefused, EndOfRun, IntermediateWrite, FinalWrite,
           FinalWriteInterrupted, Interrupt, InterruptOutside, Gone, vars
  <2> QED
    BY <2>1, Constants DEF TypeOK
<1> USE <1>1 DEF BinaryInv, Working, progress, database, results, stored
<1>2. CASE NextRuntime \/ LookupRaises \/ Exit \/ CleanFails \/ CompileFails \/ CommitFails
           \/ ExecutionRefused \/ FinalWrite \/ FinalWriteInterrupted \/ Interrupt
           \/ InterruptOutside
  BY <1>2 DEF NextRuntime, LookupRaises, Exit, CleanFails, CompileFails, CommitFails,
              ExecutionRefused, FinalWrite, FinalWriteInterrupted, Interrupt, InterruptOutside
<1>3. CASE SkipClean \/ SkipCompilation
  BY <1>3 DEF SkipClean, SkipCompilation
<1>4. CASE CleanSucceeds
  BY <1>4 DEF CleanSucceeds
<1>5. CASE CompileSucceeds
  <2>1. \A h \in Harness : bin'[h] \in {NoBinary, runtime}
    BY <1>5 DEF CompileSucceeds, Build
  <2> QED
    BY <1>5, <2>1 DEF CompileSucceeds, StartRuns
<1>6. CASE StartExecution
  BY <1>6 DEF StartExecution, Listed
<1>7. CASE SkipHarness \/ ExecutionRaises \/ ExecutionReturns \/ EndOfRun \/ IntermediateWrite
  BY <1>7 DEF SkipHarness, ExecutionRaises, ExecutionReturns, EndOfRun, IntermediateWrite
<1>8. CASE Gone \/ UNCHANGED vars
  BY <1>8 DEF Gone, vars
<1> QED
  BY <1>2, <1>3, <1>4, <1>5, <1>6, <1>7, <1>8 DEF Next, Step

-----------------------------------------------------------------------------
(* The executions.                                                         *)

\* What a step does to the rows: nothing; the current execution begins; it ends, with
\* some of its measurements or without.
RowsStep ==
  \/ UNCHANGED rows
  \/ StartExecution
  \/ /\ pc = "executing"
     /\ \E s \in RowStates \ {"none"} : rows' = [rows EXCEPT ![Current] = s]

LEMMA NextRows == [Next]_vars => RowsStep
<1> SUFFICES ASSUME [Next]_vars PROVE RowsStep
  OBVIOUS
<1> USE DEF RowsStep, database
<1>1. CASE ExecutionReturns
  BY <1>1 DEF ExecutionReturns, RowStates
<1>2. CASE Interrupt
  BY <1>2 DEF Interrupt, RowStates
<1>3. CASE Step /\ ~ExecutionReturns /\ ~StartExecution
  BY <1>3 DEF Step, NextRuntime, LookupRaises, Exit, SkipClean, CleanSucceeds, CleanFails, SkipCompilation,
              CompileSucceeds, CompileFails, SkipHarness, CommitFails, ExecutionRaises, ExecutionRefused,
              EndOfRun, IntermediateWrite, FinalWrite, FinalWriteInterrupted
<1>4. CASE InterruptOutside \/ Gone \/ UNCHANGED vars
  BY <1>4 DEF InterruptOutside, Gone, vars
<1> QED
  BY <1>1, <1>2, <1>3, <1>4 DEF Next, Step

LEMMA CurrentType == TypeOK /\ PositionInv /\ pc \in {"harness", "executing"} /\ harness \in Harness
                       => Current \in Execution
BY DEF PositionInv, Working, Current, Execution

\* An execution that begins was not there before, and nothing else is touched.
LEMMA RowsFacts ==
  ASSUME TypeOK, PositionInv, FreshInv, [Next]_vars
  PROVE  /\ \A e \in Execution : rows[e] # "none" => rows'[e] # "none"
         /\ \A e \in Execution : rows'[e] # rows[e] =>
              /\ e = Current /\ Current \in Execution
              /\ \/ StartExecution /\ rows[e] = "none" /\ rows'[e] = "started"
                 \/ pc = "executing" /\ rows[e] = "started" /\ rows'[e] # "none"
         /\ StartExecution => rows[Current] = "none" /\ rows'[Current] = "started"
<1>1. RowsStep
  BY NextRows
<1>2. CASE UNCHANGED rows /\ ~StartExecution
  BY <1>2
<1>3. CASE StartExecution
  <2>1. pc = "harness" /\ harness \in Harness /\ rows' = [rows EXCEPT ![Current] = "started"]
    BY <1>3 DEF StartExecution
  <2>2. Current \in Execution
    BY <2>1, CurrentType
  <2>3. ~Passed(Current)
    BY <2>1, Constants DEF Passed, Current, TypeOK, Harness
  <2>4. rows[Current] = "none"
    BY <2>1, <2>2, <2>3 DEF FreshInv
  <2> QED
    BY <1>3, <2>1, <2>2, <2>4 DEF TypeOK
<1>4. CASE pc = "executing" /\ ~StartExecution
           /\ \E s \in RowStates \ {"none"} : rows' = [rows EXCEPT ![Current] = s]
  <2>1. Current \in Execution /\ rows[Current] = "started"
    BY <1>4, CurrentType DEF PositionInv, FreshInv
  <2> QED
    BY <1>4, <2>1 DEF TypeOK
<1> QED
  BY <1>1, <1>2, <1>3, <1>4 DEF RowsStep

\* The loops only move on.
LEMMA NextPassed ==
  ASSUME TypeOK, TypeOK', PositionInv, PositionInv', [Next]_vars
  PROVE  \A e \in Execution :
           Passed(e) \/ (pc = "executing" /\ e = Current)
             => Passed(e)' \/ (pc' = "executing" /\ e = Current')
<1> SUFFICES ASSUME NEW e \in Execution, Passed(e) \/ (pc = "executing" /\ e = Current)
             PROVE  Passed(e)' \/ (pc' = "executing" /\ e = Current')
  OBVIOUS
<1>0. /\ e[1] \in Nat /\ e[2] \in Nat /\ e[3] \in Nat /\ e[2] =< Runs /\ e[3] =< NumHarnesses
      /\ e = Current => e[1] = runtime /\ e[2] = run /\ e[3] = harness
      /\ runtime \in Nat /\ run \in Nat /\ harness \in Nat
  BY ExecutionTypes, Constants DEF Runtime, Harness, TypeOK, Current
<1> USE <1>0 DEF Passed, progress
<1>1. CASE NextRuntime
  BY <1>1 DEF NextRuntime
<1>2. CASE LookupRaises \/ Exit \/ FinalWrite \/ FinalWriteInterrupted \/ InterruptOutside
  BY <1>2 DEF LookupRaises, Exit, FinalWrite, FinalWriteInterrupted, InterruptOutside
<1>3. CASE SkipClean \/ CleanSucceeds \/ CleanFails \/ SkipCompilation \/ CompileSucceeds \/ CompileFails
  BY <1>3 DEF SkipClean, CleanSucceeds, CleanFails, SkipCompilation, CompileSucceeds, CompileFails,
              StartRuns
<1>4. CASE SkipHarness
  BY <1>4 DEF SkipHarness
<1>5. CASE StartExecution
  BY <1>5 DEF StartExecution
<1>6. CASE CommitFails \/ ExecutionRefused \/ Interrupt
  <2>1. /\ pc' = "final_write" /\ runtime' = runtime
        /\ pc \notin {"runtimes", "final_write", "exited"}
    BY <1>6 DEF CommitFails, ExecutionRefused, Interrupt
  <2> QED
    BY <2>1
<1>7. CASE ExecutionRaises \/ ExecutionReturns
  <2>1. pc = "executing" /\ pc' = "harness" /\ harness' = harness + 1 /\ UNCHANGED <<runtime, run>>
    BY <1>7 DEF ExecutionRaises, ExecutionReturns
  <2> QED
    BY <2>1
<1>8. CASE EndOfRun
  BY <1>8 DEF EndOfRun
<1>9. CASE IntermediateWrite
  <2>1. /\ pc = "intermediate_write" /\ pc' = "harness" /\ run' = run + 1 /\ harness' = 1
        /\ runtime' = runtime /\ harness = NumHarnesses + 1
    BY <1>9 DEF IntermediateWrite, PositionInv
  <2> QED
    BY <2>1
<1>10. CASE Gone \/ UNCHANGED vars
  BY <1>10 DEF Gone, vars, Current
<1> QED
  BY <1>1, <1>2, <1>3, <1>4, <1>5, <1>6, <1>7, <1>8, <1>9, <1>10 DEF Next, Step

LEMMA NextFreshInv ==
  TypeOK /\ TypeOK' /\ PositionInv /\ PositionInv' /\ FreshInv /\ [Next]_vars => FreshInv'
<1> SUFFICES ASSUME TypeOK, TypeOK', PositionInv, PositionInv', FreshInv, [Next]_vars
             PROVE  FreshInv'
  OBVIOUS
<1>1. ASSUME NEW e \in Execution, rows'[e] # "none"
      PROVE  Passed(e)' \/ (pc' = "executing" /\ e = Current')
  <2>1. CASE rows[e] # "none"
    BY <2>1, NextPassed DEF FreshInv
  <2>2. CASE rows[e] = "none"
    <3>1. StartExecution /\ e = Current
      BY <1>1, <2>2, RowsFacts
    <3> QED
      BY <3>1 DEF StartExecution, Current, progress
  <2> QED
    BY <2>1, <2>2
<1>2. ASSUME pc' = "executing" PROVE rows'[Current'] = "started"
  <2>1. StartExecution \/ (pc = "executing" /\ UNCHANGED <<rows, Current>>)
    BY <1>2 DEF Next, Step, NextRuntime, LookupRaises, Exit, SkipClean, CleanSucceeds, CleanFails, SkipCompilation,
           CompileSucceeds, CompileFails, StartRuns, SkipHarness, CommitFails,
           ExecutionRaises, ExecutionReturns, ExecutionRefused, EndOfRun, IntermediateWrite, FinalWrite,
           FinalWriteInterrupted, Interrupt, InterruptOutside, Gone, vars, database, progress, Current
  <2>2. CASE StartExecution
    <3>1. Current' = Current /\ rows'[Current] = "started"
      BY <2>2, RowsFacts DEF StartExecution, Current, progress
    <3> QED
      BY <3>1
  <2>3. CASE pc = "executing" /\ UNCHANGED <<rows, Current>>
    BY <2>3 DEF FreshInv
  <2> QED
    BY <2>1, <2>2, <2>3
<1> QED
  BY <1>1, <1>2 DEF FreshInv

-----------------------------------------------------------------------------
(* The file.                                                               *)

\* No measurement is taken back.
LEMMA MeasuredGrows ==
  ASSUME TypeOK, PositionInv, FreshInv, [Next]_vars
  PROVE  Measured \subseteq Measured'
BY RowsFacts DEF Measured, Execution

\* A runtime ends with a write, and nothing is measured after it.
LEMMA NextMeasuredIsInFile ==
  ASSUME TypeOK, PositionInv, FreshInv, FileInv, [Next]_vars,
         pc' \in {"runtimes", "exited"}, ~write_failed'
  PROVE  file' = Measured'
<1>1. UNCHANGED rows => Measured' = Measured
  BY DEF Measured, Execution
<1> USE <1>1 DEF FileInv, MeasuredIsInFile, database, results, stored
<1>2. CASE Exit \/ LookupRaises
  BY <1>2 DEF Exit, LookupRaises
<1>3. CASE FinalWrite \/ FinalWriteInterrupted
  BY <1>3 DEF FinalWrite, FinalWriteInterrupted, WriteFile, WriteReturns, WriteFails
<1>4. CASE InterruptOutside
  BY <1>4 DEF InterruptOutside, WriteFile, WriteFails
<1>5. CASE Gone \/ UNCHANGED vars
  BY <1>5 DEF Gone, vars
<1>6. CASE Step /\ ~Exit /\ ~LookupRaises /\ ~FinalWrite /\ ~FinalWriteInterrupted
  BY <1>6 DEF Step, NextRuntime, SkipClean, CleanSucceeds, CleanFails, SkipCompilation, StartRuns,
              CompileSucceeds, CompileFails, SkipHarness, StartExecution, CommitFails,
              ExecutionRaises, ExecutionReturns, ExecutionRefused, EndOfRun, IntermediateWrite
<1>7. CASE Interrupt
  BY <1>7 DEF Interrupt
<1> QED
  BY <1>2, <1>3, <1>4, <1>5, <1>6, <1>7 DEF Next

LEMMA NextFileInv ==
  ASSUME TypeOK, PositionInv, FreshInv, FileInv, [Next]_vars
  PROVE  FileInv'
<1>1. FileStep /\ Measured \subseteq Measured'
  BY NextFile, MeasuredGrows
<1>2. file' \subseteq seen' /\ seen' \subseteq Measured'
  BY <1>1 DEF FileStep, stored, FileInv
<1>3. LossIsRepaired'
  BY <1>1 DEF FileStep, stored, FileInv, LossIsRepaired
<1>4. MeasuredIsInFile'
  BY NextMeasuredIsInFile DEF MeasuredIsInFile
<1> QED
  BY <1>2, <1>3, <1>4 DEF FileInv

-----------------------------------------------------------------------------
(* The unusable session.                                                   *)

LEMMA NextPoisonedInv == TypeOK /\ PoisonedInv /\ StatusInv /\ [Next]_vars => PoisonedInv'
<1> SUFFICES ASSUME TypeOK, PoisonedInv, StatusInv, [Next]_vars, poisoned' PROVE PoisonedInv'
  BY DEF PoisonedInv, RefusedIsReported
<1> USE Constants DEF PoisonedInv, RefusedIsReported, TypeOK, progress, database, results, stored
<1>1. CASE NextRuntime
  BY <1>1 DEF NextRuntime
<1>2. CASE Exit \/ LookupRaises
  BY <1>2 DEF Exit, LookupRaises, ExitStatus
<1>3. CASE SkipClean \/ CleanSucceeds \/ CleanFails \/ SkipCompilation \/ CompileSucceeds \/ CompileFails
  BY <1>3 DEF SkipClean, CleanSucceeds, CleanFails, SkipCompilation, CompileSucceeds, CompileFails
<1>4. CASE SkipHarness \/ StartExecution \/ ExecutionRaises \/ EndOfRun
  BY <1>4 DEF SkipHarness, StartExecution, ExecutionRaises, EndOfRun
<1>5. CASE CommitFails \/ ExecutionRefused
  <2>1. pc' = "final_write" /\ ~no_error'
    BY <1>5 DEF CommitFails, ExecutionRefused
  <2> QED
    BY <2>1
<1>6. CASE ExecutionReturns \/ IntermediateWrite
  <2>1. pc \in {"executing", "intermediate_write"} /\ poisoned' = poisoned
    BY <1>6 DEF ExecutionReturns, IntermediateWrite
  <2> QED
    BY <2>1
<1>7. CASE FinalWrite \/ FinalWriteInterrupted
  BY <1>7 DEF FinalWrite, FinalWriteInterrupted
<1>8. CASE Interrupt
  <2>1. /\ poisoned' = poisoned /\ no_error' = no_error /\ pc' = "final_write"
        /\ pc \in {"clean", "compile", "harness", "executing", "intermediate_write"}
    BY <1>8 DEF Interrupt
  <2> QED
    BY <2>1
<1>9. CASE InterruptOutside
  BY <1>9 DEF InterruptOutside
<1>10. CASE Gone \/ UNCHANGED vars
  <2>1. UNCHANGED <<opt, pc, poisoned, no_error, no_failures, status, interrupted>>
    BY <1>10 DEF Gone, vars
  <2> QED
    BY <2>1
<1> QED
  BY <1>1, <1>2, <1>3, <1>4, <1>5, <1>6, <1>7, <1>8, <1>9, <1>10 DEF Next, Step

LEMMA NextStatusInv == TypeOK /\ StatusInv /\ [Next]_vars => StatusInv'
<1> SUFFICES ASSUME TypeOK, StatusInv, [Next]_vars PROVE StatusInv'
  OBVIOUS
<1> USE Constants DEF StatusInv, TypeOK, progress, database, results, stored
<1>1. CASE Exit \/ LookupRaises
  BY <1>1 DEF Exit, LookupRaises, ExitStatus
<1>2. CASE FinalWriteInterrupted \/ InterruptOutside \/ Interrupt
  BY <1>2 DEF FinalWriteInterrupted, InterruptOutside, Interrupt
<1>3. CASE Step /\ ~Exit /\ ~LookupRaises /\ ~FinalWriteInterrupted
  BY <1>3 DEF Step, NextRuntime, SkipClean, CleanSucceeds, CleanFails, SkipCompilation, StartRuns,
              CompileSucceeds, CompileFails, SkipHarness, StartExecution, CommitFails,
              ExecutionRaises, ExecutionReturns, ExecutionRefused, EndOfRun, IntermediateWrite, FinalWrite
<1>4. CASE Gone \/ UNCHANGED vars
  BY <1>4 DEF Gone, vars
<1> QED
  BY <1>1, <1>2, <1>3, <1>4 DEF Next

-----------------------------------------------------------------------------
(* The exit status.                                                        *)

\* What went wrong stays so.
LEMMA WellBefore == TypeOK /\ TypeOK' /\ [Next]_vars /\ Well' => Well
<1> SUFFICES ASSUME TypeOK, TypeOK', [Next]_vars, Well' PROVE Well
  OBVIOUS
<1> USE DEF Well, TypeOK, progress, database, results, stored
<1>1. CASE NextRuntime
  BY <1>1 DEF NextRuntime
<1>2. CASE Exit \/ LookupRaises
  BY <1>2 DEF Exit, LookupRaises
<1>3. CASE SkipClean \/ CleanSucceeds \/ CleanFails \/ SkipCompilation \/ CompileSucceeds \/ CompileFails
  BY <1>3 DEF SkipClean, CleanSucceeds, CleanFails, SkipCompilation, CompileSucceeds, CompileFails,
              StartRuns
<1>4. CASE SkipHarness \/ StartExecution \/ CommitFails \/ ExecutionRaises \/ ExecutionRefused
           \/ EndOfRun
  BY <1>4 DEF SkipHarness, StartExecution, CommitFails, ExecutionRaises, ExecutionRefused, EndOfRun
<1>5. CASE ExecutionReturns
  <2>1. /\ pc = "executing" /\ pc' = "harness" /\ (no_error' => no_error)
        /\ no_failures' = no_failures /\ interrupted' = interrupted
    BY <1>5 DEF ExecutionReturns
  <2> QED
    BY <2>1
<1>6. CASE IntermediateWrite
  BY <1>6 DEF IntermediateWrite
<1>7. CASE FinalWrite \/ FinalWriteInterrupted
  BY <1>7 DEF FinalWrite, FinalWriteInterrupted
<1>8. CASE Interrupt \/ InterruptOutside
  BY <1>8 DEF Interrupt, InterruptOutside
<1>9. CASE Gone \/ UNCHANGED vars
  <2>1. UNCHANGED <<pc, no_error, no_failures, interrupted>>
    BY <1>9 DEF Gone, vars
  <2> QED
    BY <2>1
<1> QED
  BY <1>1, <1>2, <1>3, <1>4, <1>5, <1>6, <1>7, <1>8, <1>9 DEF Next, Step

\* An execution that returns without an error is complete.
LEMMA ReturnedInFull ==
  ASSUME TypeOK, TypeOK', PositionInv, ExecutionReturns, no_error'
  PROVE  /\ \A e \in Execution : e # Current => rows'[e] = rows[e] /\ answer'[e] = answer[e]
         /\ rows'[Current] = "full" /\ ~answer'[Current].stderr
<1>1. pc = "executing" /\ Current \in Execution /\ Current' # Current /\ harness' = harness + 1
  BY CurrentType DEF ExecutionReturns, PositionInv, Current, TypeOK
<1>2. PICK a \in Answers :
        /\ answer' = [answer EXCEPT ![Current] = [stderr |-> a.stderr, exit_code |-> a.exit_code]]
        /\ rows' = [rows EXCEPT ![Current] = IF Discarded(a) THEN "started"
                                             ELSE CASE a.stdout = "good" -> "full"
                                                    [] a.stdout = "raises" -> "partial"
                                                    [] OTHER -> "started"]
        /\ no_error' = (no_error /\ ~a.stderr /\ a.stdout = "good")
  BY DEF ExecutionReturns, Answered
<1>3. ~a.stderr /\ a.stdout = "good" /\ ~Discarded(a)
  BY <1>2 DEF Discarded
<1>4. rows' = [rows EXCEPT ![Current] = "full"]
  BY <1>2, <1>3
<1>5. rows'[Current] = "full" /\ ~answer'[Current].stderr
  BY <1>1, <1>2, <1>3, <1>4 DEF TypeOK
<1>6. \A e \in Execution : e # Current => rows'[e] = rows[e] /\ answer'[e] = answer[e]
  BY <1>1, <1>2, <1>4 DEF TypeOK
<1> QED
  BY <1>5, <1>6

LEMMA NextCompleteInv ==
  ASSUME TypeOK, TypeOK', PositionInv, FreshInv, CompleteInv, [Next]_vars
  PROVE  CompleteInv'
<1> SUFFICES ASSUME Well', NEW e \in Execution, rows'[e] # "none"
             PROVE  Complete(e)' \/ (pc' = "executing" /\ e = Current')
  BY DEF CompleteInv
<1>1. Well /\ \A f \in Execution :
                rows[f] # "none" => Complete(f) \/ (pc = "executing" /\ f = Current)
  BY WellBefore DEF CompleteInv
<1> USE DEF progress, database, results, stored
<1>2. CASE StartExecution
  <2>1. pc' = "executing" /\ Current' = Current /\ answer' = answer /\ pc = "harness"
    BY <1>2 DEF StartExecution, Current
  <2>2. e # Current => rows'[e] = rows[e]
    BY RowsFacts
  <2> QED
    BY <1>1, <2>1, <2>2 DEF Complete
<1>3. CASE ExecutionReturns
  <2>1. no_error'
    BY <1>3 DEF ExecutionReturns, Well
  <2>2. CASE e = Current
    BY <1>3, <2>1, <2>2, ReturnedInFull DEF Complete
  <2>3. CASE e # Current
    BY <1>1, <1>3, <2>1, <2>3, ReturnedInFull DEF Complete
  <2> QED
    BY <2>2, <2>3
<1>4. CASE ExecutionRaises \/ ExecutionRefused \/ CommitFails \/ Interrupt \/ InterruptOutside
  BY <1>4 DEF ExecutionRaises, ExecutionRefused, CommitFails, Interrupt, InterruptOutside, Well
<1>5. CASE Step /\ ~StartExecution /\ ~ExecutionReturns /\ ~ExecutionRaises /\ ~ExecutionRefused
           /\ ~CommitFails
  <2>1. pc # "executing" /\ UNCHANGED <<rows, answer>>
    BY <1>5 DEF Step, NextRuntime, LookupRaises, Exit, SkipClean, CleanSucceeds, CleanFails, SkipCompilation,
                CompileSucceeds, CompileFails, SkipHarness, EndOfRun,
                IntermediateWrite, FinalWrite, FinalWriteInterrupted
  <2> QED
    BY <1>1, <2>1 DEF Complete
<1>6. CASE Gone \/ UNCHANGED vars
  <2>1. UNCHANGED <<pc, rows, answer, Current>>
    BY <1>6 DEF Gone, vars, Current
  <2> QED
    BY <1>1, <2>1 DEF Complete
<1> QED
  BY <1>2, <1>3, <1>4, <1>5, <1>6 DEF Next, Step

LEMMA NextCoverBinaries ==
  ASSUME TypeOK, TypeOK', PositionInv, CoverInv, [Next]_vars, Everything, Well, Well', pc' \in Working
  PROVE  \A h \in Harness : bin'[h] # NoBinary
<1> USE DEF progress, database, results, stored
<1>1. CASE CompileSucceeds
  <2>1. PICK built \in SUBSET Harness :
          /\ \A h \in Harness \ built : bin[h] # NoBinary
          /\ bin' = [h \in Harness |-> IF h \in built THEN runtime ELSE bin[h]]
    BY <1>1 DEF CompileSucceeds, Enough, Build, Everything
  <2>2. runtime # NoBinary
    BY <1>1 DEF CompileSucceeds, PositionInv, Runtime, NoBinary
  <2> QED
    BY <2>1, <2>2
<1>2. CASE SkipCompilation
  BY <1>2 DEF SkipCompilation, Everything
<1>3. CASE pc \in Working /\ bin' = bin
  BY <1>3 DEF CoverInv
<1>4. CompileSucceeds \/ SkipCompilation \/ (pc \in Working /\ bin' = bin)
  BY DEF Next, Step, NextRuntime, LookupRaises, Exit, SkipClean, CleanSucceeds, CleanFails, CompileFails,
         SkipHarness, StartExecution, CommitFails, ExecutionRaises, ExecutionReturns, ExecutionRefused, EndOfRun,
         IntermediateWrite, FinalWrite, FinalWriteInterrupted, Interrupt, InterruptOutside, Gone,
         vars, Working
<1> QED
  BY <1>1, <1>2, <1>3, <1>4

\* As long as nothing went wrong, the loops move over nothing that is not there.
LEMMA NextCoverRows ==
  ASSUME TypeOK, TypeOK', PositionInv, PositionInv', FreshInv, CoverInv, [Next]_vars,
         Everything, Well, Well', NEW e \in Execution, Passed(e)'
  PROVE  rows'[e] # "none"
<1>0. /\ e[1] \in Nat /\ e[2] \in Nat /\ e[3] \in Nat
      /\ e[1] > 0 /\ e[2] > 0 /\ e[3] > 0 /\ e[2] =< Runs /\ e[3] =< NumHarnesses
      /\ e[1] = runtime /\ e[2] = run /\ e[3] = harness => e = Current
      /\ runtime \in Nat /\ run \in Nat /\ harness \in Nat /\ Runs \in Nat /\ NumHarnesses \in Nat
  <2>1. e[1] \in Runtime /\ e[2] \in 1..Runs /\ e[3] \in Harness /\ e = <<e[1], e[2], e[3]>>
    BY ExecutionTypes
  <2>2. runtime \in Nat /\ run \in Nat /\ harness \in Nat /\ Runs \in Nat /\ NumHarnesses \in Nat
    BY Constants DEF TypeOK
  <2>3. e[1] = runtime /\ e[2] = run /\ e[3] = harness => e = Current
    BY <2>1, Zenon DEF Current
  <2> QED
    BY <2>1, <2>2, <2>3, Constants DEF Runtime, Harness
<1>1. Passed(e) => rows'[e] # "none"
  BY RowsFacts DEF CoverInv
<1> SUFFICES ASSUME ~Passed(e) PROVE rows'[e] # "none"
  BY <1>1
<1> USE <1>0 DEF Passed, progress, database, results, stored
<1>2. CASE NextRuntime
  BY <1>2 DEF NextRuntime
<1>3. CASE LookupRaises \/ Exit \/ FinalWrite \/ FinalWriteInterrupted \/ InterruptOutside \/ Interrupt
  BY <1>3 DEF LookupRaises, Exit, FinalWrite, FinalWriteInterrupted, InterruptOutside, Interrupt, Well
<1>4. CASE CleanFails \/ CompileFails \/ CommitFails \/ ExecutionRefused
  BY <1>4 DEF CleanFails, CompileFails, CommitFails, ExecutionRefused, Well
<1>5. CASE SkipClean \/ CleanSucceeds \/ SkipCompilation \/ CompileSucceeds
  BY <1>5 DEF SkipClean, CleanSucceeds, SkipCompilation, CompileSucceeds, StartRuns
<1>6. CASE SkipHarness
  BY <1>6 DEF SkipHarness, CoverInv, Everything, Listed, Working
<1>7. CASE StartExecution
  BY <1>7 DEF StartExecution
<1>8. CASE ExecutionRaises \/ ExecutionReturns
  <2>1. /\ pc = "executing" /\ pc' = "harness" /\ harness' = harness + 1
        /\ UNCHANGED <<runtime, run>>
    BY <1>8 DEF ExecutionRaises, ExecutionReturns
  <2>2. e = Current
    BY <2>1
  <2>3. rows[e] # "none"
    BY <2>1, <2>2 DEF FreshInv
  <2> QED
    BY <2>3, RowsFacts
<1>9. CASE EndOfRun
  <2>1. /\ pc = "harness" /\ harness = NumHarnesses + 1 /\ UNCHANGED <<runtime, run, harness>>
        /\ pc' = IF run < Runs THEN "intermediate_write" ELSE "final_write"
        /\ run \in 1..Runs
    BY <1>9 DEF EndOfRun, PositionInv, Working
  <2> QED
    BY <2>1
<1>10. CASE IntermediateWrite
  <2>1. /\ pc = "intermediate_write" /\ pc' = "harness" /\ run' = run + 1 /\ harness' = 1
        /\ runtime' = runtime /\ harness = NumHarnesses + 1
    BY <1>10 DEF IntermediateWrite, PositionInv
  <2> QED
    BY <2>1
<1>11. CASE Gone \/ UNCHANGED vars
  BY <1>11 DEF Gone, vars
<1> QED
  BY <1>2, <1>3, <1>4, <1>5, <1>6, <1>7, <1>8, <1>9, <1>10, <1>11 DEF Next, Step

LEMMA NextCoverInv ==
  ASSUME TypeOK, TypeOK', PositionInv, PositionInv', FreshInv, CoverInv, [Next]_vars
  PROVE  CoverInv'
<1> SUFFICES ASSUME Everything', Well'
             PROVE  /\ pc' \in Working => \A h \in Harness : bin'[h] # NoBinary
                    /\ \A e \in Execution : Passed(e)' => rows'[e] # "none"
  BY DEF CoverInv
<1>1. Everything /\ Well
  BY NextFile, WellBefore DEF Everything
<1> QED
  BY <1>1, NextCoverBinaries, NextCoverRows

-----------------------------------------------------------------------------
LEMMA InitRunnerInv == Init => RunnerInv
<1> SUFFICES ASSUME Init PROVE RunnerInv
  OBVIOUS
<1>1. TypeOK /\ PositionInv
  BY InitTypes
<1>2. /\ \A e \in Execution : rows[e] = "none" /\ e[1] > runtime
      /\ pc = "runtimes" /\ ~poisoned /\ file = {} /\ seen = {} /\ status = 2
  BY ExecutionTypes, Constants DEF Init, Runtime
<1>3. Measured = {}
  BY <1>2 DEF Measured
<1>4. FreshInv /\ CoverInv
  <2>1. \A e \in Execution : ~Passed(e)
    BY <1>2, ExecutionTypes, Constants DEF Passed, Runtime, Init
  <2> QED
    BY <1>2, <2>1 DEF FreshInv, CoverInv, Working
<1> QED
  BY <1>1, <1>2, <1>3, <1>4 DEF RunnerInv, BinaryInv, Working, FileInv, MeasuredIsInFile,
     LossIsRepaired, PoisonedInv, RefusedIsReported, CompleteInv, StatusInv

LEMMA NextRunnerInv == RunnerInv /\ [Next]_vars => RunnerInv'
<1> SUFFICES ASSUME RunnerInv, [Next]_vars PROVE RunnerInv'
  OBVIOUS
<1>1. TypeOK' /\ PositionInv'
  BY NextTypes DEF RunnerInv
<1> QED
  BY <1>1, NextBinaryInv, NextFreshInv, NextFileInv, NextPoisonedInv,
     NextCompleteInv, NextCoverInv, NextStatusInv DEF RunnerInv

LEMMA RunnerInvHolds == Spec => []RunnerInv
BY InitRunnerInv, NextRunnerInv, PTL DEF Spec

-----------------------------------------------------------------------------
\* The variables of bench.py have their types, and the loops stay in their ranges.
THEOREM TypeCorrect == Spec => []TypeOK
<1>1. RunnerInv => TypeOK
  BY DEF RunnerInv
<1> QED
  BY <1>1, RunnerInvHolds, PTL

\* With the clean step, a runtime measures only binaries that it compiled itself, for
\* any number of runtimes that share the directory (bench.py:301-316).
THEOREM BinariesAreOwn == Spec => []OwnBinary
<1>1. RunnerInv => OwnBinary
  BY DEF RunnerInv, BinaryInv, OwnBinary
<1> QED
  BY <1>1, RunnerInvHolds, PTL

\* Without --ignore-errors and Ctrl-C, an exit status of 0 means that every execution that
\* began was measured in full and, unless --only-missing or --skip-compilation left some
\* out, that none is missing (bench.py:260-267, 460, 716-729).
THEOREM ZeroMeansMeasured == Spec => []StatusZeroMeansMeasured
<1>1. RunnerInv => StatusZeroMeansMeasured
  <2> SUFFICES ASSUME RunnerInv, pc = "exited", status = 0, ~interrupted, ~opt.ignore_errors,
                      NEW e \in Execution
               PROVE  /\ rows[e] # "none" => Complete(e)
                      /\ ~opt.only_missing /\ ~opt.skip_compilation => rows[e] # "none"
    BY DEF StatusZeroMeansMeasured
  <2>1. Well /\ runtime = NumRuntimes
    BY DEF RunnerInv, StatusInv, Well
  <2>2. rows[e] # "none" => Complete(e)
    BY <2>1 DEF RunnerInv, CompleteInv
  <2>3. Passed(e)
    BY <2>1, ExecutionTypes, Constants DEF Passed, Runtime
  <2> QED
    BY <2>1, <2>2, <2>3 DEF RunnerInv, CoverInv, Everything
<1> QED
  BY <1>1, RunnerInvHolds, PTL

\* What was measured is in the file whenever a runtime has ended, by whichever return,
\* exception or Ctrl-C, if the last write returned (bench.py:440, 454).
THEOREM MeasurementsAreInFile == Spec => []MeasuredIsInFile
<1>1. RunnerInv => MeasuredIsInFile
  BY DEF RunnerInv, FileInv
<1> QED
  BY <1>1, RunnerInvHolds, PTL

\* Whatever a failing or interrupted write did to the file, the next write that returns
\* has all that was ever in it (bench.py:440, 454, 677, 690): what was measured stays in
\* the database, since each execution is begun at most once.
THEOREM LossesAreRepaired == Spec => []LossIsRepaired
<1>1. RunnerInv => LossIsRepaired
  BY DEF RunnerInv, FileInv
<1> QED
  BY <1>1, RunnerInvHolds, PTL

\* After an entry or a commit that the database refuses nothing is built or executed, and
\* the exit status is 1 on every way out but those of --ignore-errors and Ctrl-C
\* (bench.py:432-451).
THEOREM RefusalsAreReported == Spec => []RefusedIsReported
<1>1. RunnerInv => RefusedIsReported
  BY DEF RunnerInv, PoisonedInv
<1> QED
  BY <1>1, RunnerInvHolds, PTL
=============================================================================

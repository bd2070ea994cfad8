------------------------- MODULE HarnessExecutorProofs -------------------------
(***************************************************************************)
(* The executors of bench.py, for pipes of every capacity and harnesses    *)
(* with output of every length, whenever something fails and the timeout   *)
(* or Ctrl-C comes: what is returned is all that was written, and what     *)
(* must not be left behind is not.                                         *)
(***************************************************************************)
EXTENDS HarnessExecutor, TLAPS

Amount == [Pipe -> 0 .. MaxOutput]

\* What was to be written is read, in a pipe or still to be written.
Balanced == \A p \in Pipe : got[p] + pipe[p] + todo[p] = planned[p]

\* Where the output is, at each place of the executor.
OutputInv ==
  /\ pc \in {"start", "extracting", "spawn"} => content = <<Nothing, Nothing, Nothing, Nothing>>
  /\ pc \in {"communicating", "returned"} => Balanced
  /\ pc = "returned" => pipe = Nothing

\* What the executor holds, at each place.
HoldsInv ==
  /\ pc = "start" => child = "none" /\ ~open /\ ~tmp
  /\ pc = "spawn" => child = "reaped" /\ ~open
  /\ pc \in {"extracting", "communicating", "unwinding"} =>
       /\ child \in {"running", "hung", "exited"}
       /\ open <=> pc = "communicating"
  /\ NothingLeft

ExecutorInv == TypeOK /\ OutputInv /\ HoldsInv

-----------------------------------------------------------------------------
LEMMA Constants == Capacity \in Nat /\ Capacity > 0 /\ MaxOutput \in Nat /\ Nothing \in Amount
                   /\ Nothing \in [Pipe -> 0 .. Capacity]
BY ConstantsAssumption DEF Nothing, Amount

LEMMA InitExecutorInv == Init => ExecutorInv
BY Constants DEF Init, ExecutorInv, TypeOK, OutputInv, HoldsInv, NothingLeft, Finished, Amount, content

\* One pipe is read to its end.
LEMMA ReadKeepsBalance ==
  ASSUME ExecutorInv, NEW p \in Pipe, Read(p)
  PROVE  ExecutorInv'
<1> USE DEF ExecutorInv
<1>1. /\ pc = "communicating" /\ pc' = pc /\ child' = child /\ open' = open /\ tmp' = tmp
      /\ todo' = todo /\ planned' = planned /\ wllvm' = wllvm /\ generous' = generous
      /\ pipe' = [pipe EXCEPT ![p] = 0] /\ got' = [got EXCEPT ![p] = @ + pipe[p]]
  BY DEF Read, setup
<1>2. \A q \in Pipe : /\ pipe[q] \in 0 .. Capacity /\ got[q] \in 0 .. MaxOutput
                      /\ todo[q] \in 0 .. MaxOutput /\ planned[q] \in 0 .. MaxOutput
                      /\ got[q] + pipe[q] + todo[q] = planned[q]
  BY <1>1 DEF TypeOK, OutputInv, Balanced
<1>3. got[p] + pipe[p] \in 0 .. MaxOutput
  BY <1>2, Constants
<1>4. got' \in [Pipe -> 0 .. MaxOutput] /\ pipe' \in [Pipe -> 0 .. Capacity]
  BY <1>1, <1>3, Constants DEF TypeOK
<1>5. Balanced'
  <2> SUFFICES ASSUME NEW q \in Pipe PROVE got'[q] + pipe'[q] + todo'[q] = planned'[q]
    BY DEF Balanced
  <2>1. CASE q = p
    <3>1. pipe'[q] = 0 /\ got'[q] = got[q] + pipe[q]
      BY <1>1, <2>1 DEF TypeOK
    <3> QED
      BY <1>1, <1>2, <2>1, <3>1
  <2>2. CASE q # p
    BY <1>1, <1>2, <2>2 DEF TypeOK
  <2> QED
    BY <2>1, <2>2
<1> QED
  BY <1>1, <1>4, <1>5 DEF TypeOK, OutputInv, HoldsInv, NothingLeft, Finished

\* The child writes a piece of its output; it can only while it is listened to.
LEMMA WriteKeepsBalance ==
  ASSUME ExecutorInv, NEW p \in Pipe, Write(p)
  PROVE  ExecutorInv'
<1> USE DEF ExecutorInv
<1>1. /\ child = "running" /\ open /\ todo[p] > 0 /\ pipe[p] < Capacity
      /\ pc' = pc /\ child' = child /\ open' = open /\ tmp' = tmp
      /\ got' = got /\ planned' = planned /\ wllvm' = wllvm /\ generous' = generous
      /\ todo' = [todo EXCEPT ![p] = @ - 1] /\ pipe' = [pipe EXCEPT ![p] = @ + 1]
  BY DEF Write, setup
<1>2. pc \in {"communicating", "breaking"}
  BY <1>1 DEF TypeOK, HoldsInv, NothingLeft, Finished
<1>3. \A q \in Pipe : /\ pipe[q] \in 0 .. Capacity /\ got[q] \in 0 .. MaxOutput
                      /\ todo[q] \in 0 .. MaxOutput /\ planned[q] \in 0 .. MaxOutput
  BY DEF TypeOK
<1>4. todo[p] - 1 \in 0 .. MaxOutput /\ pipe[p] + 1 \in 0 .. Capacity
  BY <1>1, <1>3, Constants
<1>5. todo' \in [Pipe -> 0 .. MaxOutput] /\ pipe' \in [Pipe -> 0 .. Capacity]
  BY <1>1, <1>4 DEF TypeOK
<1>6. ASSUME pc = "communicating" PROVE Balanced'
  <2> SUFFICES ASSUME NEW q \in Pipe PROVE got'[q] + pipe'[q] + todo'[q] = planned'[q]
    BY DEF Balanced
  <2>1. got[q] + pipe[q] + todo[q] = planned[q]
    BY <1>6 DEF OutputInv, Balanced
  <2>2. CASE q = p
    <3>1. pipe'[q] = pipe[q] + 1 /\ todo'[q] = todo[q] - 1
      BY <1>1, <2>2 DEF TypeOK
    <3> QED
      BY <1>1, <1>3, <2>1, <3>1
  <2>3. CASE q # p
    BY <1>1, <1>3, <2>1, <2>3 DEF TypeOK
  <2> QED
    BY <2>2, <2>3
<1> QED
  BY <1>1, <1>2, <1>5, <1>6 DEF TypeOK, OutputInv, HoldsInv, NothingLeft, Finished

LEMMA NextExecutorInv == ExecutorInv /\ [Next]_vars => ExecutorInv'
<1> SUFFICES ASSUME ExecutorInv, [Next]_vars PROVE ExecutorInv'
  OBVIOUS
<1> USE DEF ExecutorInv, TypeOK, OutputInv, HoldsInv, NothingLeft, Finished, content, setup
<1>0. CASE StartRaises
  BY <1>0 DEF StartRaises
<1>1. CASE StartExtraction
  BY <1>1 DEF StartExtraction
<1>2. CASE ExtractionEnds
  BY <1>2 DEF ExtractionEnds
<1>3. CASE Spawn
  <2>1. /\ pc \in {"start", "spawn"} /\ pc' = "communicating" /\ child' = "running" /\ open'
        /\ todo' \in Amount /\ planned' = todo' /\ pipe' = pipe /\ got' = got
        /\ wllvm' = wllvm /\ generous' = generous /\ tmp' = tmp
    BY <1>3 DEF Spawn, Amount
  <2>2. pipe = Nothing /\ got = Nothing
    BY <2>1
  <2>3. \A p \in Pipe : got'[p] = 0 /\ pipe'[p] = 0 /\ todo'[p] \in Nat /\ planned'[p] = todo'[p]
    BY <2>1, <2>2, Constants DEF Nothing, Amount
  <2>4. Balanced'
    BY <2>3 DEF Balanced
  <2> QED
    BY <2>1, <2>4 DEF Amount
<1>4. CASE \E p \in Pipe : Read(p)
  BY <1>4, ReadKeepsBalance
<1>5. CASE Return
  BY <1>5 DEF Return, Balanced
<1>6. CASE Timeout
  BY <1>6, Constants DEF Timeout
<1>7. CASE WaitForChild
  BY <1>7 DEF WaitForChild
<1>12. CASE Interrupt
  BY <1>12 DEF Interrupt
<1>11. CASE GiveUp
  BY <1>11, Constants DEF GiveUp
<1>8. CASE \E p \in Pipe : Write(p)
  BY <1>8, WriteKeepsBalance
<1>9. CASE BrokenPipe \/ Finish \/ Crash \/ Hang
  BY <1>9 DEF BrokenPipe, Finish, Crash, Hang, Balanced
<1>10. CASE UNCHANGED vars
  BY <1>10 DEF vars, Balanced
<1> QED
  BY <1>0, <1>1, <1>2, <1>3, <1>4, <1>5, <1>6, <1>7, <1>8, <1>9, <1>10, <1>11, <1>12
     DEF Next, Executor, ChildRuns

LEMMA ExecutorInvHolds == Spec => []ExecutorInv
BY InitExecutorInv, NextExecutorInv, PTL DEF Spec

-----------------------------------------------------------------------------
\* The pipes never hold more than they can and no more is read than a harness wrote,
\* for any capacity and length of output (bench.py:208-223, 492-516).
THEOREM TypeCorrect == Spec => []TypeOK
<1>1. ExecutorInv => TypeOK
  BY DEF ExecutorInv
<1> QED
  BY <1>1, ExecutorInvHolds, PTL

\* What an executor returns is all that the child wrote to both pipes, in whatever
\* pieces it was read, and also when the child crashed in between (bench.py:218-223).
THEOREM AllIsReturned == Spec => []AllOutput
<1>1. ExecutorInv => AllOutput
  <2> SUFFICES ASSUME ExecutorInv, pc = "returned", NEW p \in Pipe
               PROVE  got[p] = planned[p] - todo[p]
    BY DEF AllOutput
  <2>1. got[p] + pipe[p] + todo[p] = planned[p] /\ pipe[p] = 0
    BY DEF ExecutorInv, OutputInv, Balanced, Nothing
  <2>2. got[p] \in Nat /\ todo[p] \in Nat
    BY DEF ExecutorInv, TypeOK
  <2> QED
    BY <2>1, <2>2
<1> QED
  BY <1>1, ExecutorInvHolds, PTL

\* However an executor ends, by an answer, an assertion, a process that cannot be started,
\* a failed extraction, output that is no UTF-8, a timeout or Ctrl-C at any moment, pipes
\* and temporary directory are gone, and but after Ctrl-C so is the child (bench.py:209,
\* 217, 496, 499, 506).
THEOREM NothingIsLeft == Spec => []NothingLeft
<1>1. ExecutorInv => NothingLeft
  BY DEF ExecutorInv, HoldsInv
<1> QED
  BY <1>1, ExecutorInvHolds, PTL
=============================================================================

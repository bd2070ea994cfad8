--------------------------- MODULE HarnessExecutor ---------------------------
(***************************************************************************)
(* How tools/bench.py runs one harness and collects its answer:            *)
(* default_executor (bench.py:208-223) and wllvm_executor (492-516), which *)
(* first extracts bitcode into a temporary directory.                      *)
(*                                                                         *)
(* Parent and child are two processes with two bounded pipes between them. *)
(* Popen, communicate(timeout) and the __exit__ of Popen, which closes the *)
(* pipes and waits for the child, are modelled from how this code uses     *)
(* them; the child writes its output, finishes, crashes, or hangs.  The    *)
(* user may press Ctrl-C once, between two steps or in a call that waits.  *)
(***************************************************************************)
EXTENDS Naturals

CONSTANTS Capacity,   \* what a pipe holds
          MaxOutput   \* the most a harness writes to each pipe (bound)

Pipe == {"stdout", "stderr"}

ASSUME ConstantsAssumption ==
  /\ Capacity \in Nat \ {0} /\ MaxOutput \in Nat

VARIABLES
  wllvm,    \* wllvm_executor, else default_executor
  generous, \* the timeout is longer than any harness that ends
  pc,       \* where the executor is
  child,    \* the current child process
  todo,     \* what the child has still to write
  planned,  \* history: what it had to write when it started
  pipe,     \* what is in the pipes
  open,     \* the parent has its ends of the pipes open
  got,      \* what communicate has read
  tmp       \* the temporary directory exists

setup == <<wllvm, generous>>
vars == <<setup, pc, child, todo, planned, pipe, open, got, tmp>>
content == <<todo, planned, pipe, got>>

Nothing == [p \in Pipe |-> 0]
\* An answer, an exception, a KeyboardInterrupt.
Finished == {"returned", "raised", "interrupted"}

Init == /\ wllvm \in BOOLEAN /\ generous \in BOOLEAN
        /\ pc = "start" /\ child = "none"
        /\ todo = Nothing /\ planned = Nothing /\ pipe = Nothing /\ got = Nothing
        /\ open = FALSE /\ tmp = FALSE

-----------------------------------------------------------------------------
(* The executor.                                                           *)

\* The assertions on file and directory fail, or Popen raises, of extract-bc or of
\* the harness: no process is started, and a temporary directory is removed.
StartRaises == /\ pc \in {"start", "spawn"}
               /\ tmp' = FALSE
               /\ pc' = "raised"
               /\ UNCHANGED <<setup, child, content, open>>

\* wllvm_executor: extract-bc writes nothing that is captured.
StartExtraction == /\ pc = "start" /\ wllvm
                   /\ tmp' = TRUE /\ child' = "running" /\ pc' = "extracting"
                   /\ UNCHANGED <<setup, content, open>>

\* p.wait(timeout=30) returns; the bitcode file is there, or the assertion
\* fails and the temporary directory is removed on the way out.
ExtractionEnds == /\ pc = "extracting" /\ child = "exited"
                  /\ child' = "reaped"
                  /\ \/ pc' = "spawn" /\ UNCHANGED tmp
                     \/ pc' = "raised" /\ tmp' = FALSE
                  /\ UNCHANGED <<setup, content, open>>

Spawn == /\ pc = "spawn" \/ (pc = "start" /\ ~wllvm)
         /\ child' = "running" /\ open' = TRUE /\ pc' = "communicating"
         /\ todo' \in [Pipe -> 0..MaxOutput]
         /\ planned' = todo'
         /\ UNCHANGED <<setup, pipe, got, tmp>>

\* Mutants: stderr is read when stdout is at its end; what is read is stored
\* over what was read before.
ReadInTurn(p) == /\ pc = "communicating" /\ pipe[p] > 0
                 /\ p = "stderr" => child # "running"
                 /\ pipe' = [pipe EXCEPT ![p] = 0]
                 /\ got' = [got EXCEPT ![p] = @ + pipe[p]]
                 /\ UNCHANGED <<setup, pc, child, todo, planned, open, tmp>>
ReadOver(p) == /\ pc = "communicating" /\ pipe[p] > 0
               /\ pipe' = [pipe EXCEPT ![p] = 0]
               /\ got' = [got EXCEPT ![p] = pipe[p]]
               /\ UNCHANGED <<setup, pc, child, todo, planned, open, tmp>>
ReadTwice(p) == /\ pc = "communicating" /\ pipe[p] > 0
                /\ pipe' = pipe
                /\ got' = [got EXCEPT ![p] = @ + pipe[p]]
                /\ UNCHANGED <<setup, pc, child, todo, planned, open, tmp>>

\* communicate reads from whichever pipe has something.
Read(p) == /\ pc = "communicating" /\ pipe[p] > 0
           /\ pipe' = [pipe EXCEPT ![p] = 0]
           /\ got' = [got EXCEPT ![p] = @ + pipe[p]]
           /\ UNCHANGED <<setup, pc, child, todo, planned, open, tmp>>

\* Both pipes are at their end and the child is waited for; what was read need not
\* be UTF-8.
Return == /\ pc = "communicating" /\ child = "exited" /\ pipe = Nothing
          /\ child' = "reaped" /\ open' = FALSE /\ tmp' = FALSE
          /\ pc' = "returned" \/ (pc' = "raised" /\ got # Nothing)
          /\ UNCHANGED <<setup, content>>

\* Mutant: the pipes stay open while the child is waited for.
TimeoutWithOpenPipes == /\ pc \in {"communicating", "extracting"}
                        /\ generous => child = "hung"
                        /\ pc' = "unwinding"
                        /\ UNCHANGED <<setup, child, todo, planned, pipe, open, got, tmp>>

\* communicate, or the wait for extract-bc, raises TimeoutExpired; leaving the
\* `with' block closes the pipes.  Nobody kills the child.
Timeout == /\ pc \in {"communicating", "extracting"}
           /\ generous => child = "hung"
           /\ open' = FALSE /\ pipe' = Nothing
           /\ pc' = "unwinding"
           /\ UNCHANGED <<setup, child, todo, planned, got, tmp>>

\* Mutant: the exception goes on without waiting.
NoWait == /\ pc = "unwinding"
          /\ tmp' = FALSE
          /\ pc' = "raised"
          /\ UNCHANGED <<setup, content, child, open>>

\* __exit__ of Popen waits for the child before the exception goes on.
WaitForChild == /\ pc = "unwinding" /\ child = "exited"
                /\ child' = "reaped" /\ tmp' = FALSE
                /\ pc' = "raised"
                /\ UNCHANGED <<setup, content, open>>

\* Ctrl-C reaches both processes; the child may die of it or not.  A call of Popen
\* that waits goes on waiting for the child, but only for a moment (0.25 s).
Interrupt == /\ pc \notin Finished \cup {"breaking"}
             /\ \/ child' = child
                \/ child \in {"running", "hung"} /\ child' = "exited"
             /\ pc' = "breaking"
             /\ UNCHANGED <<setup, content, open, tmp>>

\* The moment is over: the KeyboardInterrupt leaves the `with' blocks, whether the
\* child has ended, and was waited for, or not.
GiveUp == /\ pc = "breaking"
          /\ child' = IF child = "exited" THEN "reaped" ELSE child
          /\ open' = FALSE /\ pipe' = Nothing /\ tmp' = FALSE
          /\ pc' = "interrupted"
          /\ UNCHANGED <<setup, todo, planned, got>>

Executor == \/ StartRaises \/ StartExtraction \/ ExtractionEnds \/ Spawn
            \/ (\E p \in Pipe : Read(p)) \/ Return
            \/ Timeout \/ WaitForChild \/ GiveUp

-----------------------------------------------------------------------------
(* The child.                                                              *)

\* A write blocks while the pipe is full.
Write(p) == /\ child = "running" /\ open
            /\ todo[p] > 0 /\ pipe[p] < Capacity
            /\ todo' = [todo EXCEPT ![p] = @ - 1]
            /\ pipe' = [pipe EXCEPT ![p] = @ + 1]
            /\ UNCHANGED <<setup, pc, child, planned, open, got, tmp>>

\* Nobody reads the pipe any more: SIGPIPE.
BrokenPipe == /\ child = "running" /\ ~open /\ todo # Nothing
              /\ child' = "exited"
              /\ UNCHANGED <<setup, pc, content, open, tmp>>

Finish == /\ child = "running" /\ todo = Nothing
          /\ child' = "exited"
          /\ UNCHANGED <<setup, pc, content, open, tmp>>

\* An error ends the child before it has written everything.
Crash == /\ child = "running" /\ todo # Nothing
         /\ child' = "exited"
         /\ UNCHANGED <<setup, pc, content, open, tmp>>

\* The harness is caught in a loop.
Hang == /\ child = "running"
        /\ child' = "hung"
        /\ UNCHANGED <<setup, pc, content, open, tmp>>

ChildRuns == (\E p \in Pipe : Write(p)) \/ BrokenPipe \/ Finish

Next == Executor \/ Interrupt \/ ChildRuns \/ Crash \/ Hang

Spec == Init /\ [][Next]_vars

\* The executor runs, and so does a child that is not hung.
FairSpec == Spec /\ WF_vars(Executor) /\ WF_vars(ChildRuns)

-----------------------------------------------------------------------------
TypeOK == /\ wllvm \in BOOLEAN /\ generous \in BOOLEAN
          /\ pc \in {"start", "extracting", "spawn", "communicating", "unwinding",
                     "breaking"} \cup Finished
          /\ child \in {"none", "running", "hung", "exited", "reaped"}
          /\ todo \in [Pipe -> 0..MaxOutput] /\ planned \in [Pipe -> 0..MaxOutput]
          /\ got \in [Pipe -> 0..MaxOutput]
          /\ pipe \in [Pipe -> 0..Capacity]
          /\ open \in BOOLEAN /\ tmp \in BOOLEAN

\* What default_executor returns is all that the child wrote, to both pipes
\* (bench.py:218-223).
AllOutput == pc = "returned" => \A p \in Pipe : got[p] = planned[p] - todo[p]

\* However an executor ends, it leaves no open pipe and no temporary directory
\* behind, and if it returns or raises, no child and no zombie; only Ctrl-C can
\* leave a child that did not end with it (bench.py:209, 217, 496, 499, 506).
NothingLeft == /\ pc \in Finished => ~open /\ ~tmp
               /\ pc \in {"returned", "raised"} => child \in {"none", "reaped"}

\* The executor ends unless a child hangs: with a generous timeout because no
\* process waits for the other with a pipe full, however much is written to
\* which pipe (bench.py:218); with a short one because the pipes are closed
\* before the child is waited for (bench.py:217).
ExecutorEnds == <>(child = "hung" \/ pc \in Finished)

-----------------------------------------------------------------------------
(* What the help text of bench.py says, and the code does not do.          *)

\* bench.py:569, --timeout: "timeout of a single benchmark run, given in
\* seconds", so that a run which exceeds it comes to an end.
TimeoutEndsRun == pc = "unwinding" ~> pc \in Finished
=============================================================================

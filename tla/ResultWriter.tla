---------------------------- MODULE ResultWriter ----------------------------
(***************************************************************************)
(* How tools/bench.py brings its results into the file named BENCHFILE:    *)
(* write_results() (bench.py:660-693), the points of                       *)
(* execute_single_runtime() that call it, the import of the file at the    *)
(* next start, and what interrupts all of that: system calls that fail, a  *)
(* save that raises, Ctrl-C between any two steps, and a process that is   *)
(* killed.                                                                 *)
(*                                                                         *)
(* The directory is modelled by its names: BENCHFILE, BENCHFILE.deleteme   *)
(* and one .bench_*.json name per temporary file; each is a hard link to   *)
(* an inode.  An inode holds a complete JSON document, abstracted to its   *)
(* set of results, or something that json.load rejects (Truncated): an     *)
(* empty file, or one whose tail is still in the buffer of the Python file *)
(* object, which os.fsync does not write out.                              *)
(***************************************************************************)
EXTENDS Naturals, FiniteSets

CONSTANTS Result,     \* everything one benchmark execution leaves behind
          Inode,      \* the inodes of the directory's file system
          None,       \* no inode
          Truncated,  \* the content of a file that is not a JSON document
          Faults,     \* what may go wrong
          MaxStarts   \* how often bench.py is started (bound)

AllFaults == {"FileNotFoundError", "OSError", "SaveError", "NoSpace", "Interrupt",
              "Kill"}

\* The faults that leave the process, its buffers and the atomic path alone.
RecoverableFaults == {"OSError", "SaveError", "Interrupt"}

ASSUME ConstantsAssumption ==
  /\ None \notin Inode
  /\ \A S \in SUBSET Result : S # Truncated
  /\ Faults \subseteq AllFaults
  /\ MaxStarts \in Nat

VARIABLES
  bench,            \* the inode BENCHFILE names, or None
  deleteme,         \* the inode BENCHFILE.deleteme names, or None
  temps,            \* the inodes still linked under their .bench_*.json name
  data,             \* what is on disk, by inode
  pc,               \* where bench.py is
  db,               \* the results in the session's (in-memory) database
  out,              \* the inode of the file object f, None when it is closed
  kind,             \* the call site: "intermediate" (line 440), "final" (454)
  interrupted,      \* a KeyboardInterrupt is on its way to the caller
  delete_tmp_file,  \* the flag of that name
  starts,           \* starts of bench.py so far
  committed,        \* history: results of the writes that returned normally
  disturbed         \* history: some fault took place

directory == <<bench, deleteme, temps>>
file == <<data, out>>
session == <<db, kind, interrupted, starts>>
history == <<committed, disturbed>>
vars == <<bench, deleteme, temps, data, pc, db, out, kind, interrupted,
          delete_tmp_file, starts, committed, disturbed>>

Content == {Truncated} \cup SUBSET Result

Resting == {"measuring", "between", "exited"}
Writing == {"create", "save", "check", "link_old", "unlink_old", "link_new",
            "unlink_temp", "unlink_deleteme", "close"}
Fallback == {"open", "resave", "reclose"}

-----------------------------------------------------------------------------
(* What the files hold.                                                    *)

\* Once json.dump has returned, the document is complete, in the file or in
\* the buffer that the end of the `with' block (or its unwinding) flushes.
Buffered == out # None /\ pc \notin {"save", "resave"}

\* The content of inode i, with what the open file object will still flush.
Effective(i) == IF Buffered /\ i = out THEN db ELSE data[i]

Linked == ({bench, deleteme} \ {None}) \cup temps

\* The results that a complete document on disk holds, under whatever name.
OnDisk == UNION {data[i] : i \in {j \in Linked : data[j] # Truncated}}

\* The same, counting what is only buffered.
Held == UNION {Effective(i) : i \in {j \in Linked : Effective(j) # Truncated}}

-----------------------------------------------------------------------------
Init == /\ bench = None /\ deleteme = None /\ temps = {}
        /\ data \in [Inode -> {Truncated}]
        /\ pc = "exited" /\ db = {} /\ out = None
        /\ kind = "final" /\ interrupted = FALSE /\ delete_tmp_file = FALSE
        /\ starts = 0
        /\ committed = {} /\ disturbed = FALSE

\* Mutant: the results of BENCHFILE are not imported.
StartEmpty == /\ pc = "exited" /\ starts < MaxStarts
              /\ starts' = starts + 1
              /\ pc' = "between"
              /\ db' = {}
              /\ kind' = "final" /\ interrupted' = FALSE
              /\ UNCHANGED <<directory, file, delete_tmp_file, history>>

\* A process starts and imports the benchmark file; when the file does not
\* parse, the user (or --yes) lets it continue with an empty database.
Start == /\ pc = "exited" /\ starts < MaxStarts
         /\ starts' = starts + 1
         /\ pc' = "between"
         /\ db' = IF bench = None \/ data[bench] = Truncated THEN {} ELSE data[bench]
         /\ kind' = "final" /\ interrupted' = FALSE
         /\ UNCHANGED <<directory, file, delete_tmp_file, history>>

\* The loop of execute_runtimes takes the next runtime, or is through.
NextRuntime == /\ pc = "between" /\ pc' \in {"measuring", "exited"}
               /\ UNCHANGED <<directory, file, session, delete_tmp_file, history>>

\* Mutant: an execution that returned nothing is recorded all the same.
MeasureNothing == /\ pc = "measuring"
                  /\ \E r \in (Result \ db) \cup {None} : db' = db \cup {r}
                  /\ UNCHANGED <<directory, file, pc, kind, interrupted, starts,
                                 delete_tmp_file, history>>

\* One execution of a harness, its rows committed to the session.
Measure == /\ pc = "measuring"
           /\ \E r \in Result \ db : db' = db \cup {r}
           /\ UNCHANGED <<directory, file, pc, kind, interrupted, starts,
                          delete_tmp_file, history>>

\* result_writer_func(), after a run that is not the last or in the finally
\* clause of the runtime.
BeginWrite == /\ pc = "measuring"
              /\ kind' \in {"intermediate", "final"}
              /\ pc' = "create"
              /\ UNCHANGED <<directory, file, db, interrupted, starts,
                             delete_tmp_file, history>>

\* Where control goes when write_results has returned or its exception has
\* been logged by the caller.
AfterWrite == IF kind = "intermediate" THEN "measuring"
              ELSE IF interrupted THEN "exited" ELSE "between"

\* Mutant: the file object is closed without its last buffer.
CloseWithoutFlush == out' = None /\ data' = data

\* The end of the `with' block, normal or not: the file object flushes and
\* closes.  A document cut short by an exception stays cut short.
CloseOut == /\ out' = None
            /\ data' = IF out = None THEN data
                       ELSE [data EXCEPT ![out] = Effective(out)]

-----------------------------------------------------------------------------
(* write_results, one action per system call.                              *)

CreateTemp == /\ pc = "create"
              /\ \E i \in Inode \ Linked :
                   /\ out' = i
                   /\ temps' = temps \cup {i}
                   /\ data' = [data EXCEPT ![i] = Truncated]
              /\ pc' = "save"
              /\ UNCHANGED <<bench, deleteme, session, delete_tmp_file, history>>

\* json.dump returns: os.fsync finds nothing of the last buffer to write.
SaveFile == /\ pc = "save" /\ pc' = "check"
            /\ UNCHANGED <<directory, file, session, delete_tmp_file, history>>

\* Mutant: the assertion on .deleteme is gone, as with python -O.
CheckNothing == /\ pc = "check"
                /\ pc' = IF bench = None THEN "link_new" ELSE "link_old"
                /\ delete_tmp_file' = FALSE
                /\ UNCHANGED <<directory, file, session, history>>

CheckExisting == /\ pc = "check"
                 /\ bench # None => deleteme = None
                 /\ pc' = IF bench = None THEN "link_new" ELSE "link_old"
                 /\ delete_tmp_file' = FALSE
                 /\ UNCHANGED <<directory, file, session, history>>

\* Mutant: the write removes the stale .deleteme and goes on.
RemoveStale == /\ pc = "check" /\ bench # None /\ deleteme # None
               /\ deleteme' = None /\ pc' = "link_old"
               /\ delete_tmp_file' = FALSE
               /\ UNCHANGED <<bench, temps, file, session, history>>

\* assert not os.path.exists(tmp_filename)
AssertionError == /\ pc = "check" /\ bench # None /\ deleteme # None
                  /\ CloseOut
                  /\ pc' = AfterWrite
                  /\ delete_tmp_file' = FALSE
                  /\ UNCHANGED <<directory, session, history>>

\* Mutant: the old file gets no second name before it is unlinked.
LinkNothing == /\ pc = "link_old" /\ pc' = "unlink_old"
               /\ UNCHANGED <<directory, file, session, delete_tmp_file, history>>

LinkOld == /\ pc = "link_old" /\ pc' = "unlink_old"
           /\ deleteme' = bench
           /\ UNCHANGED <<bench, temps, file, session, delete_tmp_file, history>>

UnlinkOld == /\ pc = "unlink_old" /\ pc' = "link_new"
             /\ bench' = None
             /\ delete_tmp_file' = TRUE
             /\ UNCHANGED <<deleteme, temps, file, session, history>>

LinkNew == /\ pc = "link_new" /\ pc' = "unlink_temp"
           /\ bench = None     \* os.link does not replace
           /\ bench' = out
           /\ UNCHANGED <<deleteme, temps, file, session, delete_tmp_file, history>>

\* Mutant: the temporary name of the new file stays.
KeepTemp == /\ pc = "unlink_temp"
            /\ pc' = IF delete_tmp_file THEN "unlink_deleteme" ELSE "close"
            /\ UNCHANGED <<directory, file, session, delete_tmp_file, history>>

UnlinkTemp == /\ pc = "unlink_temp"
              /\ pc' = IF delete_tmp_file THEN "unlink_deleteme" ELSE "close"
              /\ temps' = temps \ {out}
              /\ UNCHANGED <<bench, deleteme, file, session, delete_tmp_file, history>>

UnlinkDeleteme == /\ pc = "unlink_deleteme" /\ pc' = "close"
                  /\ deleteme' = None
                  /\ UNCHANGED <<bench, temps, file, session, delete_tmp_file, history>>

CloseNew == /\ pc = "close" /\ pc' = AfterWrite
            /\ CloseOut
            /\ committed' = committed \cup db
            /\ UNCHANGED <<directory, session, delete_tmp_file, disturbed>>

-----------------------------------------------------------------------------
(* The fallback of the except clause: open BENCHFILE for writing, in place. *)

OpenInPlace == /\ pc = "open" /\ pc' = "resave"
               /\ \E i \in Inode :
                    /\ IF bench = None THEN i \notin Linked ELSE i = bench
                    /\ bench' = i /\ out' = i
                    /\ data' = [data EXCEPT ![i] = Truncated]
               /\ UNCHANGED <<deleteme, temps, session, delete_tmp_file, history>>

SaveInPlace == /\ pc = "resave" /\ pc' = "reclose"
               /\ UNCHANGED <<directory, file, session, delete_tmp_file, history>>

CloseInPlace == /\ pc = "reclose" /\ pc' = AfterWrite
                /\ CloseOut
                /\ committed' = committed \cup db
                /\ UNCHANGED <<directory, session, delete_tmp_file, disturbed>>

-----------------------------------------------------------------------------
(* What goes wrong.                                                        *)

\* A system call of the try block raises FileNotFoundError.
NotFound == /\ "FileNotFoundError" \in Faults
            /\ pc \in Writing \ {"save", "check", "close"}
            /\ CloseOut
            /\ pc' = "open"
            /\ disturbed' = TRUE
            /\ UNCHANGED <<directory, session, delete_tmp_file, committed>>

\* A system call raises another OSError, which the caller logs.
CallFails == /\ "OSError" \in Faults
             /\ pc \in (Writing \ {"save", "close"}) \cup {"open"}
             /\ CloseOut
             /\ pc' = AfterWrite
             /\ disturbed' = TRUE
             /\ UNCHANGED <<directory, session, delete_tmp_file, committed>>

\* save_file_as_json raises: the session is unusable, the disk is full.
SaveFails == /\ "SaveError" \in Faults
             /\ pc \in {"save", "resave"}
             /\ CloseOut
             /\ pc' = AfterWrite
             /\ disturbed' = TRUE
             /\ UNCHANGED <<directory, session, delete_tmp_file, committed>>

\* The disk is full when the last buffer is written, at the end of the block.
FlushFails == /\ "NoSpace" \in Faults
              /\ pc \in {"close", "reclose"}
              /\ out' = None
              /\ pc' = AfterWrite
              /\ disturbed' = TRUE
              /\ UNCHANGED <<directory, data, session, delete_tmp_file, committed>>

\* Ctrl-C while bench.py measures: the finally clause still writes.
InterruptMeasuring == /\ "Interrupt" \in Faults
                      /\ pc = "measuring" /\ pc' = "create"
                      /\ interrupted' = TRUE /\ kind' = "final"
                      /\ disturbed' = TRUE
                      /\ UNCHANGED <<directory, file, db, starts, delete_tmp_file, committed>>

\* Ctrl-C inside write_results: an intermediate write is followed by the
\* one of the finally clause, a final one by the end of the process.
InterruptWrite == /\ "Interrupt" \in Faults
                  /\ pc \in Writing \cup Fallback
                  /\ CloseOut
                  /\ pc' = IF kind = "intermediate" THEN "create" ELSE "exited"
                  /\ interrupted' = TRUE /\ kind' = "final"
                  /\ disturbed' = TRUE
                  /\ UNCHANGED <<directory, db, starts, delete_tmp_file, committed>>

\* SIGKILL: what the file object had not written is gone.
Kill == /\ "Kill" \in Faults
        /\ pc # "exited" /\ pc' = "exited"
        /\ out' = None
        /\ disturbed' = TRUE
        /\ UNCHANGED <<directory, data, session, delete_tmp_file, committed>>

-----------------------------------------------------------------------------
WriteStep == \/ CreateTemp \/ SaveFile \/ CheckExisting \/ AssertionError
             \/ LinkOld \/ UnlinkOld \/ LinkNew \/ UnlinkTemp
             \/ UnlinkDeleteme \/ CloseNew
             \/ OpenInPlace \/ SaveInPlace \/ CloseInPlace

Fault == \/ NotFound \/ CallFails \/ SaveFails \/ FlushFails
         \/ InterruptMeasuring \/ InterruptWrite \/ Kill

Next == \/ Start \/ NextRuntime \/ Measure \/ BeginWrite
        \/ WriteStep \/ Fault

Spec == Init /\ [][Next]_vars

-----------------------------------------------------------------------------
TypeOK == /\ bench \in Inode \cup {None}
          /\ deleteme \in Inode \cup {None}
          /\ temps \subseteq Inode
          /\ data \in [Inode -> Content]
          /\ pc \in Resting \cup Writing \cup Fallback
          /\ db \subseteq Result
          /\ out \in Inode \cup {None}
          /\ kind \in {"intermediate", "final"}
          /\ interrupted \in BOOLEAN
          /\ delete_tmp_file \in BOOLEAN
          /\ starts \in 0..MaxStarts
          /\ committed \subseteq Result
          /\ disturbed \in BOOLEAN

\* write_results never loses what an earlier write has stored (bench.py:660):
\* whatever Ctrl-C, failing system calls and failing saves do, as long as the
\* process is not killed and the in-place fallback is not taken, each result of
\* a write that returned is in a complete document under one of the names.
NothingLost == committed \subseteq Held

\* Why NothingLost holds: the new file is complete under its temporary name
\* before the old name goes, the old file has its second name before that, and
\* it loses the second name when the new file, which holds all of the old one,
\* is in place (bench.py:671-686).
Contained(i) == i # None /\ data[i] # Truncated => data[i] \subseteq db
WriterInv ==
  /\ pc \notin Fallback
  /\ pc \in Resting \cup {"create"} => out = None
  /\ pc \in {"save", "check", "link_old", "unlink_old", "link_new", "unlink_temp"}
       => out \in temps
  /\ pc \in {"save", "check", "link_old", "unlink_old", "link_new"}
       => out # bench /\ out # deleteme
  /\ out # None => data[out] = Truncated
  /\ pc = "link_old" => bench # None /\ deleteme = None
  /\ pc = "unlink_old" => bench # None /\ deleteme = bench
  /\ pc = "link_new" => bench = None
  /\ pc \in {"unlink_temp", "unlink_deleteme", "close"} => bench = out /\ out # None
  /\ pc # "exited" => Contained(bench)
  /\ pc \in {"link_new", "unlink_temp"} /\ delete_tmp_file => Contained(deleteme)
  /\ pc = "unlink_deleteme" => Contained(deleteme)
  /\ NothingLost

\* With no fault, no name but BENCHFILE is left between two writes: every
\* temporary file and every .deleteme is cleaned up again (bench.py:681-686).
NoDebris == ~disturbed /\ pc \in Resting => temps = {} /\ deleteme = None

\* A result on disk can disappear from the disk at two places only: where
\* .deleteme is removed while the new file's tail is still in the buffer
\* (bench.py:686), and where the fallback truncates BENCHFILE (bench.py:690).
LossOnlyInWindows ==
  [][OnDisk \subseteq OnDisk' \/ pc \in {"unlink_deleteme", "open"}]_vars

\* A .deleteme left beside BENCHFILE by an interrupted write is never removed,
\* and from then on no write of this or a later process changes BENCHFILE, each
\* ends in the assertion of bench.py:675, unless it comes to the fallback.
Stale == /\ bench # None /\ deleteme # None
         /\ pc \in Resting \cup {"create", "save", "check"}
StaleFreezesFile ==
  [][Stale /\ pc' \notin Fallback
       => Stale' /\ bench' = bench /\ data'[bench'] = data[bench]]_vars

\* With no fault, everything the session has measured is in BENCHFILE when the
\* process goes on to the next runtime or exits (bench.py:440, 454).
MeasuredIsStored ==
  ~disturbed /\ pc \in {"between", "exited"} /\ db # {} =>
    bench # None /\ data[bench] # Truncated /\ db \subseteq data[bench]

\* The results files hold are those of ResultLog: saves take place whole or
\* not at all, and no step takes a kept result away.
Log == INSTANCE ResultLog WITH session <- db, kept <- Held
ImplementsLog == Log!Spec

-----------------------------------------------------------------------------
(* What the text of bench.py says, and the code does not do.               *)

\* bench.py:661, "atomic write of results into a file": a process that is killed
\* leaves the old or the new results, so what an earlier write stored is on disk.
KillKeepsResults == pc = "exited" => committed \subseteq OnDisk

\* bench.py:675 asserts that no .deleteme exists where BENCHFILE does.
AssertHolds == pc = "check" /\ bench # None => deleteme = None
=============================================================================

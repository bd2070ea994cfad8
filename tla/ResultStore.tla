----------------------------- MODULE ResultStore -----------------------------
(***************************************************************************)
(* From the database to the JSON document and back: save_file_as_json and  *)
(* load_file_in_db (tools/util/datamodel_helper.py), with the two programs *)
(* that use them on the same files, bench.py and merge_results.py.         *)
(*                                                                         *)
(* The document of one (harness, configuration) pair is modelled; pairs do *)
(* not share entries of it.  It keeps, by benchmark, the list of its runs  *)
(* (benchmark_data), and, apart from that, the list of what is known of    *)
(* each execution: stderr, exit code, system, make_env (harness_data).     *)
(* Nothing but the position in the two lists says which belongs to which.  *)
(*                                                                         *)
(* Executions are numbered in the order in which they took place.  A run   *)
(* and an execution's metadata are identified by that number.              *)
(***************************************************************************)
EXTENDS Naturals, FiniteSets, Sequences, SequencesExt

CONSTANTS Bench,          \* the benchmarks of the harness
          File,           \* names of result files
          MaxExecutions,  \* executions that take place in all (bound)
          MaxInfiles,     \* INFILEs of one merge_results (bound)
          Absent,         \* there is no file of that name
          Empty           \* a file that json.load rejects

Blank == 0                \* the metadata of an execution that has none
NoRun == 0                \* the execution has no run of the benchmark
Number == 1..MaxExecutions

ASSUME ConstantsAssumption ==
  /\ IsFiniteSet(Bench) /\ Bench # {}
  /\ MaxExecutions \in Nat \ {0} /\ MaxInfiles \in Nat

VARIABLES
  file,      \* what the names stand for
  executed,  \* the executions so far
  gaps,      \* history: one of them ended without some of its runs
  target,    \* the BENCHFILEs of the bench.py that runs, {} when there is none
  db,        \* its database: the executions in the order of their ids
  mpc,       \* where merge_results is
  infiles,   \* the documents that it has opened
  loaded,    \* how many of them are in its database
  outfile,   \* the OUTFILEs it has created, {} before and after
  mdb        \* its database

bencher == <<target, db>>
merger == <<mpc, infiles, loaded, outfile, mdb>>
past == <<executed, gaps>>
vars == <<file, past, bencher, merger>>

Execution == [meta : Number \cup {Blank}, runs : [Bench -> Number \cup {NoRun}]]
Document == [benchmark_data : [Bench -> Seq(Number)],
             harness_data : Seq(Number \cup {Blank})]
Documents(f) == file[f] \notin {Absent, Empty}

-----------------------------------------------------------------------------
(* Saving and loading.                                                     *)

Having(s, b) == {i \in DOMAIN s : s[i].runs[b] # NoRun}

\* The k-th smallest number of S.
Kth(S, k) == CHOOSE i \in S : Cardinality({j \in S : j =< i}) = k

\* Mutant: an execution without a run of the benchmark leaves a gap in its list.
SaveWithGaps(s) ==
  [benchmark_data |-> [b \in Bench |-> [i \in DOMAIN s |-> s[i].runs[b]]],
   harness_data |-> [i \in DOMAIN s |-> s[i].meta]]

\* Mutant: the query gives the newest execution first.
SaveMisordered(s) ==
  [benchmark_data |->
     [b \in Bench |-> [k \in 1..Cardinality(Having(s, b)) |->
                         s[Kth(Having(s, b), k)].runs[b]]],
   harness_data |-> Reverse([i \in DOMAIN s |-> s[i].meta])]

\* save_file_as_json: the metadata of every execution, and the runs of every
\* benchmark in the order of their executions.
Save(s) ==
  [benchmark_data |->
     [b \in Bench |-> [k \in 1..Cardinality(Having(s, b)) |->
                         s[Kth(Having(s, b), k)].runs[b]]],
   harness_data |-> [i \in DOMAIN s |-> s[i].meta]]

\* The longest list of runs.
Longest(doc) == CHOOSE n \in {Len(doc.benchmark_data[b]) : b \in Bench} :
                  \A b \in Bench : Len(doc.benchmark_data[b]) =< n

\* The entry of a list at a position, if there is one.
At(list, i, default) == IF i =< Len(list) THEN list[i] ELSE default

\* Mutant: the position starts at 1, so that the first metadata is passed over.
LoadShifted(doc) ==
  [i \in 1..Longest(doc) |->
     [meta |-> At(doc.harness_data, i + 1, Blank),
      runs |-> [b \in Bench |-> At(doc.benchmark_data[b], i, NoRun)]]]

\* load_file_in_db: the i-th run of every benchmark goes to the i-th execution,
\* which is created when the first of them is met.
Load(doc) ==
  [i \in 1..Longest(doc) |->
     [meta |-> At(doc.harness_data, i, Blank),
      runs |-> [b \in Bench |-> At(doc.benchmark_data[b], i, NoRun)]]]

-----------------------------------------------------------------------------
\* A document of the old structure: one run of each benchmark, no metadata.
OldDocument(B) == [benchmark_data |-> [b \in Bench |-> IF b \in B THEN <<1>> ELSE <<>>],
                   harness_data |-> <<>>]

Init == /\ \/ file = [f \in File |-> Absent] /\ executed = 0 /\ gaps = FALSE
           \/ \E f \in File, B \in SUBSET Bench \ {{}} :
                /\ file = [g \in File |-> IF g = f THEN OldDocument(B) ELSE Absent]
                /\ executed = 1 /\ gaps = (B # Bench)
        /\ target = {} /\ db = <<>>
        /\ mpc = "idle" /\ infiles = <<>> /\ loaded = 0 /\ outfile = {} /\ mdb = <<>>

-----------------------------------------------------------------------------
(* bench.py                                                                *)

\* The import of BENCHFILE; one that does not parse is passed over when the
\* user agrees.  Nobody starts bench.py on a file that is being merged.
Start(f) == /\ target = {} /\ f \notin outfile
            /\ target' = {f}
            /\ db' = IF Documents(f) THEN Load(file[f]) ELSE <<>>
            /\ UNCHANGED <<file, past, merger>>

\* One execution: it measures every benchmark, or less when the harness crashes
\* or a part of its output is refused.
Execute == /\ target # {} /\ executed < MaxExecutions
           /\ executed' = executed + 1
           /\ \E B \in SUBSET Bench :
                /\ gaps' = (gaps \/ B # Bench)
                /\ db' = Append(db, [meta |-> executed',
                                  runs |-> [b \in Bench |-> IF b \in B THEN executed'
                                                            ELSE NoRun]])
           /\ UNCHANGED <<file, target, merger>>

\* Mutant: only what this process measured is written.
WriteNew == /\ target # {}
            /\ file' = [f \in File |-> IF f \in target
                          THEN Save(IF db = <<>> THEN db ELSE <<Last(db)>>)
                                    ELSE file[f]]
            /\ UNCHANGED <<past, bencher, merger>>

Write == /\ target # {}
         /\ file' = [f \in File |-> IF f \in target THEN Save(db) ELSE file[f]]
         /\ UNCHANGED <<past, bencher, merger>>

Exit == /\ target # {}
        /\ target' = {} /\ db' = <<>>
        /\ UNCHANGED <<file, past, merger>>

-----------------------------------------------------------------------------
(* merge_results.py                                                        *)

\* The arguments: every INFILE is opened, then OUTFILE is created.  What is
\* read later is what was opened, whatever replaces the names.  Nobody merges
\* into the BENCHFILE of a bench.py that has not written it yet.
Open == /\ mpc = "idle"
        /\ \E n \in 1..MaxInfiles, h \in File :
             /\ file[h] = Absent /\ h \notin target
             /\ \E names \in [1..n -> {f \in File : file[f] # Absent}] :
                  infiles' = [k \in 1..n |-> file[names[k]]]
             /\ file' = [file EXCEPT ![h] = Empty]
             /\ outfile' = {h}
        /\ mpc' = "loading"
        /\ UNCHANGED <<past, bencher, loaded, mdb>>

\* What follows the last step of merge_results.
Ended == mpc' = "idle" /\ infiles' = <<>> /\ loaded' = 0 /\ outfile' = {} /\ mdb' = <<>>

Loading == mpc = "loading" /\ loaded < Len(infiles)
NextFile == infiles[loaded + 1]

\* Mutant: a file takes the place of the one before.
LoadOver == /\ Loading /\ NextFile # Empty
            /\ mdb' = Load(NextFile)
            /\ loaded' = loaded + 1
            /\ UNCHANGED <<file, past, bencher, mpc, infiles, outfile>>

\* load_file_in_db of the next INFILE, with a cache of executions of its own.
LoadNext == /\ Loading /\ NextFile # Empty
            /\ mdb' = mdb \o Load(NextFile)
            /\ loaded' = loaded + 1
            /\ UNCHANGED <<file, past, bencher, mpc, infiles, outfile>>

\* "cannot load file": sys.exit(), and the OUTFILE stays as it was created.
CannotLoad == /\ Loading /\ NextFile = Empty
              /\ Ended
              /\ UNCHANGED <<file, past, bencher>>

\* merge_results is killed: the same.
KillMerge == /\ mpc = "loading"
             /\ Ended
             /\ UNCHANGED <<file, past, bencher>>

Store == /\ mpc = "loading" /\ loaded = Len(infiles)
         /\ file' = [f \in File |-> IF f \in outfile THEN Save(mdb) ELSE file[f]]
         /\ Ended
         /\ UNCHANGED <<past, bencher>>

-----------------------------------------------------------------------------
Next == \/ (\E f \in File : Start(f)) \/ Execute \/ Write \/ Exit
        \/ Open \/ LoadNext \/ CannotLoad \/ KillMerge \/ Store

Spec == Init /\ [][Next]_vars

-----------------------------------------------------------------------------
TypeOK == /\ file \in [File -> Document \cup {Absent, Empty}]
          /\ executed \in 0..MaxExecutions /\ gaps \in BOOLEAN
          /\ target \in SUBSET File /\ Cardinality(target) =< 1
          /\ db \in Seq(Execution)
          /\ mpc \in {"idle", "loading"}
          /\ infiles \in Seq(Document \cup {Empty}) /\ loaded \in 0..Len(infiles)
          /\ outfile \in SUBSET File /\ Cardinality(outfile) =< 1
          /\ mdb \in Seq(Execution)

\* No write of a result file drops, reorders or duplicates a measurement that
\* was in it, however often the file went through a database before
\* (datamodel_helper.py:117-330, bench.py:646, 660).
FileExtends ==
  [][\A f \in File : Documents(f) =>
       \A b \in Bench : IsPrefix(file[f].benchmark_data[b], file'[f].benchmark_data[b])]_vars

\* The merged file has, for each benchmark, the runs of all INFILEs, file after
\* file in their order, whatever happened to the INFILEs in the meantime
\* (merge_results.py:38-48).
MergedIsWhole ==
  [][\A h \in outfile : file'[h] # file[h] =>
       \A b \in Bench :
         file'[h].benchmark_data[b]
           = FlattenSeq([k \in DOMAIN infiles |-> infiles[k].benchmark_data[b]])]_vars

\* What a database has loaded is written and loaded again without any further
\* change (datamodel_helper.py:117-330): a file that once went through a
\* database is stable.
Reload == \A f \in File : Documents(f) =>
            LET loading == Load(file[f]) IN Load(Save(loading)) = loading

\* A run stays with the stderr, exit code and system of its execution.
Attributed(s) == \A i \in DOMAIN s, b \in Bench :
                   s[i].runs[b] # NoRun => s[i].meta \in {Blank, s[i].runs[b]}

\* As long as every execution measured every benchmark, writing a database and
\* loading it again gives it back, and runs and metadata stay together, through
\* any number of starts and merges (datamodel_helper.py:117-330).
Faithful == ~gaps => \A s \in {db, mdb} : Load(Save(s)) = s /\ Attributed(s)

-----------------------------------------------------------------------------
\* datamodel_helper.py:295, "store a benchmark run of a specific execution": so
\* it does in all cases.
RunsOfTheirExecution == Attributed(db)
=============================================================================

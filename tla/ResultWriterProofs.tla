-------------------------- MODULE ResultWriterProofs -------------------------
(***************************************************************************)
(* Theorems about ResultWriter, for every set of results and inodes, any   *)
(* number of starts and the faults each theorem names.                     *)
(***************************************************************************)
EXTENDS ResultWriter, TLAPS

\* What CloseOut leaves: no open file, and on disk what the file had buffered.
LEMMA CloseOutType ==
  ASSUME TypeOK, CloseOut
  PROVE  out' = None /\ data' \in [Inode -> Content]
<1>1. out # None => Effective(out) \in Content
  BY DEF TypeOK, Effective, Content
<1>2. QED  BY <1>1 DEF CloseOut, TypeOK

\* The caller of write_results goes on at one of the resting places.
LEMMA AfterWriteResting == AfterWrite \in Resting
  BY DEF AfterWrite, Resting

\* Every variable of write_results keeps its type, whatever goes wrong
\* (bench.py:660-693 and its call sites).
THEOREM TypeCorrect == Spec => []TypeOK
<1>1. Init => TypeOK
  <2> SUFFICES ASSUME Init PROVE TypeOK
    OBVIOUS
  <2>1. data \in [Inode -> Content]
    BY DEF Init, Content
  <2>2. starts \in 0..MaxStarts
    BY ConstantsAssumption DEF Init
  <2>3. QED  BY <2>1, <2>2 DEF Init, TypeOK, Resting
<1>2. TypeOK /\ [Next]_vars => TypeOK'
  <2> SUFFICES ASSUME TypeOK, [Next]_vars PROVE TypeOK'
    OBVIOUS
  <2> USE DEF directory, file, session, history
  <2>1. CASE Start \/ NextRuntime \/ Measure \/ BeginWrite
    <3>1. CASE Start
      <4>1. db' \subseteq Result
        BY <3>1 DEF Start, TypeOK, Content
      <4>2. starts' \in 0..MaxStarts
        BY <3>1, ConstantsAssumption DEF Start, TypeOK
      <4>3. QED  BY <3>1, <4>1, <4>2 DEF Start, TypeOK, Resting
    <3>2. CASE NextRuntime
      BY <3>2 DEF NextRuntime, TypeOK, Resting
    <3>3. CASE Measure
      BY <3>3 DEF Measure, TypeOK
    <3>4. CASE BeginWrite
      BY <3>4 DEF BeginWrite, TypeOK, Writing
    <3>5. QED  BY <2>1, <3>1, <3>2, <3>3, <3>4
  <2>2. CASE CreateTemp
    BY <2>2 DEF CreateTemp, TypeOK, Writing, Content
  <2>3. CASE SaveFile \/ CheckExisting
    BY <2>3 DEF SaveFile, CheckExisting, TypeOK, Writing
  <2>4. CASE AssertionError \/ CloseNew \/ CloseInPlace
    BY <2>4, CloseOutType, AfterWriteResting
    DEF AssertionError, CloseNew, CloseInPlace, TypeOK
  <2>5. CASE LinkOld \/ UnlinkOld \/ LinkNew
    BY <2>5 DEF LinkOld, UnlinkOld, LinkNew, TypeOK, Writing
  <2>6. CASE UnlinkTemp \/ UnlinkDeleteme
    BY <2>6 DEF UnlinkTemp, UnlinkDeleteme, TypeOK, Writing
  <2>7. CASE OpenInPlace \/ SaveInPlace
    BY <2>7 DEF OpenInPlace, SaveInPlace, TypeOK, Fallback, Content
  <2>8. CASE NotFound \/ CallFails \/ SaveFails \/ InterruptWrite
    BY <2>8, CloseOutType, AfterWriteResting
    DEF NotFound, CallFails, SaveFails, InterruptWrite, TypeOK,
        Resting, Writing, Fallback
  <2>9. CASE FlushFails \/ InterruptMeasuring \/ Kill
    BY <2>9, AfterWriteResting
    DEF FlushFails, InterruptMeasuring, Kill, TypeOK, Resting, Writing
  <2>10. CASE UNCHANGED vars
    BY <2>10 DEF vars, TypeOK
  <2>11. QED
    BY <2>1, <2>2, <2>3, <2>4, <2>5, <2>6, <2>7, <2>8, <2>9, <2>10
    DEF Next, WriteStep, Fault
<1>3. QED  BY <1>1, <1>2, PTL DEF Spec

-----------------------------------------------------------------------------
(* What the files hold, before and after a step.                           *)

LEMMA HeldMember ==
  \A r : r \in Held <=>
    \E i \in Linked : Effective(i) # Truncated /\ r \in Effective(i)
BY DEF Held

LEMMA HeldMemberNext ==
  \A r : r \in Held' <=>
    \E i \in Linked' : Effective(i)' # Truncated /\ r \in Effective(i)'
BY DEF Held

\* A step that keeps every name and every effective content keeps the results.
LEMMA HeldFrame ==
  ASSUME Linked' = Linked, \A i \in Linked : Effective(i)' = Effective(i)
  PROVE  Held' = Held
BY HeldMember, HeldMemberNext

\* Flushing and closing the file shows on disk what was held already.
LEMMA CloseKeepsHeld ==
  ASSUME TypeOK, CloseOut, UNCHANGED directory
  PROVE  Held' = Held
<1>1. Linked' = Linked /\ Linked \subseteq Inode
  BY DEF directory, Linked, TypeOK
<1>2. \A i \in Inode : Effective(i)' = data'[i]
  BY DEF CloseOut, Effective, Buffered
<1>3. \A i \in Inode : data'[i] = Effective(i)
  <2> TAKE i \in Inode
  <2>1. CASE out = None
    BY <2>1 DEF CloseOut, Effective, Buffered
  <2>2. CASE out # None
    BY <2>2 DEF CloseOut, Effective, TypeOK
  <2>3. QED  BY <2>1, <2>2
<1>4. QED  BY <1>1, <1>2, <1>3, HeldFrame

\* What a step does to the results the files hold and to the session's: it
\* stutters, or it is a step of ResultLog.
LEMMA HeldStep ==
  ASSUME Faults \subseteq RecoverableFaults, TypeOK, WriterInv, [Next]_vars
  PROVE  \/ Held' = Held /\ db' = db
         \/ Held' = Held /\ \E r \in Result : db' = db \cup {r}
         \/ Held' = Held \cup db /\ db' = db
         \/ Held' = Held /\ db' \in SUBSET Held
<1> USE DEF directory, file, session, history
<1>0. Linked \subseteq Inode /\ (out # None => out \in Inode)
  BY DEF Linked, TypeOK
<1>1. CASE Start
  <2>1. Held' = Held
    BY <1>1, HeldFrame DEF Start, WriterInv, Resting, Linked, Effective, Buffered
  <2>2. db' \in SUBSET Held
    <3>1. CASE bench = None \/ data[bench] = Truncated
      BY <1>1, <3>1 DEF Start
    <3>2. CASE bench # None /\ data[bench] # Truncated
      <4>1. bench \in Linked /\ Effective(bench) = data[bench] /\ db' = data[bench]
        BY <1>1, <3>2 DEF Start, WriterInv, Resting, Linked, Effective, Buffered
      <4>2. QED  BY <3>2, <4>1, HeldMember
    <3>3. QED  BY <3>1, <3>2
  <2>3. QED  BY <2>1, <2>2
<1>2. CASE NextRuntime \/ BeginWrite \/ InterruptMeasuring
  <2>1. Linked' = Linked /\ \A i : Effective(i)' = Effective(i)
    BY <1>2 DEF NextRuntime, BeginWrite, InterruptMeasuring, WriterInv, Resting,
                Linked, Effective, Buffered
  <2>2. QED  BY <1>2, <2>1, HeldFrame DEF NextRuntime, BeginWrite, InterruptMeasuring
<1>3. CASE Measure
  <2>1. Linked' = Linked /\ \A i : Effective(i)' = Effective(i)
    BY <1>3 DEF Measure, WriterInv, Resting, Linked, Effective, Buffered
  <2>2. QED  BY <1>3, <2>1, HeldFrame DEF Measure
<1>4. CASE CreateTemp
  <2>1. PICK j \in Inode \ Linked : /\ out' = j
                                   /\ temps' = temps \cup {j}
                                   /\ data' = [data EXCEPT ![j] = Truncated]
    BY <1>4 DEF CreateTemp
  <2>2. Linked' = Linked \cup {j}
    BY <1>4, <2>1 DEF CreateTemp, Linked
  <2>3. Effective(j)' = Truncated
    BY <1>4, <2>1 DEF CreateTemp, Effective, Buffered, TypeOK
  <2>4. \A i \in Linked : Effective(i)' = Effective(i)
    BY <1>0, <1>4, <2>1 DEF CreateTemp, Effective, Buffered, TypeOK, WriterInv
  <2>5. Held' = Held
    BY <2>2, <2>3, <2>4, HeldMember, HeldMemberNext
  <2>6. QED  BY <1>4, <2>5 DEF CreateTemp
<1>5. CASE SaveFile
  <2>1. out \in Linked /\ out # None /\ Linked' = Linked
    BY <1>5, <1>0, ConstantsAssumption DEF SaveFile, WriterInv, Linked, TypeOK
  <2>2. db # Truncated
    BY ConstantsAssumption DEF TypeOK
  <2>3. \A i \in Linked : i = out => Effective(i) = Truncated /\ Effective(i)' = db
    BY <1>5, <2>1 DEF SaveFile, WriterInv, Effective, Buffered
  <2>4. \A i \in Linked : i # out => Effective(i)' = Effective(i)
    BY <1>5 DEF SaveFile, Effective
  <2>5. Held' = Held \cup db
    BY <2>1, <2>2, <2>3, <2>4, HeldMember, HeldMemberNext
  <2>6. QED  BY <1>5, <2>5 DEF SaveFile
<1>6. CASE CheckExisting
  <2>1. Linked' = Linked /\ \A i : Effective(i)' = Effective(i)
    BY <1>6 DEF CheckExisting, Linked, Effective, Buffered
  <2>2. QED  BY <1>6, <2>1, HeldFrame DEF CheckExisting
<1>7. CASE LinkOld \/ UnlinkOld \/ LinkNew \/ UnlinkTemp
  <2>1. \A i : Effective(i)' = Effective(i)
    BY <1>7 DEF LinkOld, UnlinkOld, LinkNew, UnlinkTemp, Effective, Buffered
  <2>2. Linked' = Linked
    <3>1. CASE LinkOld
      BY <3>1, <1>7 DEF LinkOld, WriterInv, Linked
    <3>2. CASE UnlinkOld
      BY <3>2, <1>7 DEF UnlinkOld, WriterInv, Linked
    <3>3. CASE LinkNew
      BY <3>3, <1>0, ConstantsAssumption DEF LinkNew, WriterInv, Linked, TypeOK
    <3>4. CASE UnlinkTemp
      BY <3>4, <1>7 DEF UnlinkTemp, WriterInv, Linked
    <3>5. QED  BY <1>7, <3>1, <3>2, <3>3, <3>4
  <2>3. QED  BY <1>7, <2>1, <2>2, HeldFrame DEF LinkOld, UnlinkOld, LinkNew, UnlinkTemp
<1>8. CASE UnlinkDeleteme
  <2>1. \A i : Effective(i)' = Effective(i)
    BY <1>8 DEF UnlinkDeleteme, Effective, Buffered
  <2>2. bench = out /\ out # None /\ Effective(bench) = db /\ db # Truncated
    BY <1>8, ConstantsAssumption
    DEF UnlinkDeleteme, WriterInv, Effective, Buffered, TypeOK
  <2>3. bench \in Linked /\ bench \in Linked'
    BY <1>8, <2>2 DEF UnlinkDeleteme, Linked
  <2>4. Linked = Linked' \cup ({deleteme} \ {None})
    BY <1>8 DEF UnlinkDeleteme, Linked
  <2>5. \A r : deleteme # None /\ Effective(deleteme) # Truncated
                /\ r \in Effective(deleteme) => r \in db
    BY <1>8, <2>2 DEF UnlinkDeleteme, WriterInv, Contained, Effective
  <2>6. Held' = Held
    BY <2>1, <2>2, <2>3, <2>4, <2>5, HeldMember, HeldMemberNext
  <2>7. QED  BY <1>8, <2>6 DEF UnlinkDeleteme
<1>9. CASE AssertionError \/ CloseNew \/ CallFails \/ SaveFails \/ InterruptWrite
  BY <1>9, CloseKeepsHeld
  DEF AssertionError, CloseNew, CallFails, SaveFails, InterruptWrite
<1>10. CASE UNCHANGED vars
  <2>1. Linked' = Linked /\ \A i : Effective(i)' = Effective(i)
    BY <1>10 DEF vars, Linked, Effective, Buffered
  <2>2. QED  BY <1>10, <2>1, HeldFrame DEF vars
<1>11. ~(OpenInPlace \/ SaveInPlace \/ CloseInPlace)
  BY DEF OpenInPlace, SaveInPlace, CloseInPlace, WriterInv, Fallback
<1>12. ~(NotFound \/ FlushFails \/ Kill)
  BY DEF NotFound, FlushFails, Kill, RecoverableFaults
<1>13. QED
  BY <1>1, <1>2, <1>3, <1>4, <1>5, <1>6, <1>7, <1>8, <1>9, <1>10, <1>11, <1>12
  DEF Next, WriteStep, Fault

-----------------------------------------------------------------------------
(* Nothing is lost.                                                        *)

\* The part of WriterInv that speaks of names and documents.
LEMMA WriterInvDirectory ==
  ASSUME Faults \subseteq RecoverableFaults, TypeOK, WriterInv, [Next]_vars,
         NothingLost'
  PROVE  WriterInv'
<1> USE DEF directory, file, session, history
<1>0. None \notin Inode
  BY ConstantsAssumption
<1>1. CASE Start \/ NextRuntime \/ Measure \/ BeginWrite \/ InterruptMeasuring
  <2>1. CASE Start
    BY <2>1 DEF Start, WriterInv, Contained, Resting, Fallback
  <2>2. CASE NextRuntime
    BY <2>2 DEF NextRuntime, WriterInv, Contained, Resting, Fallback
  <2>3. CASE Measure
    BY <2>3 DEF Measure, WriterInv, Contained, Resting, Fallback
  <2>4. CASE BeginWrite \/ InterruptMeasuring
    BY <2>4 DEF BeginWrite, InterruptMeasuring, WriterInv, Contained, Resting, Fallback
  <2>5. QED  BY <1>1, <2>1, <2>2, <2>3, <2>4
<1>2. CASE CreateTemp
  BY <1>2, <1>0 DEF CreateTemp, WriterInv, Contained, Resting, Fallback, TypeOK, Linked
<1>3. CASE SaveFile \/ CheckExisting
  <2>1. CASE SaveFile
    BY <2>1 DEF SaveFile, WriterInv, Contained, Resting, Fallback
  <2>2. CASE CheckExisting
    BY <2>2 DEF CheckExisting, WriterInv, Contained, Resting, Fallback
  <2>3. QED  BY <1>3, <2>1, <2>2
<1>4. CASE LinkOld \/ UnlinkOld \/ LinkNew
  <2>1. CASE LinkOld
    BY <2>1 DEF LinkOld, WriterInv, Contained, Resting, Fallback
  <2>2. CASE UnlinkOld
    BY <2>2, <1>0 DEF UnlinkOld, WriterInv, Contained, Resting, Fallback, TypeOK
  <2>3. CASE LinkNew
    BY <2>3, <1>0 DEF LinkNew, WriterInv, Contained, Resting, Fallback, TypeOK
  <2>4. QED  BY <1>4, <2>1, <2>2, <2>3
<1>5. CASE UnlinkTemp \/ UnlinkDeleteme
  <2>1. CASE UnlinkTemp
    <3>1. CASE delete_tmp_file
      <4>1. pc' = "unlink_deleteme"
        BY <2>1, <3>1 DEF UnlinkTemp
      <4>2. Contained(deleteme)
        BY <2>1, <3>1, Zenon DEF UnlinkTemp, WriterInv
      <4>3. QED
        BY <2>1, <4>1, <4>2 DEF UnlinkTemp, WriterInv, Contained, Resting, Fallback
    <3>2. CASE ~delete_tmp_file
      <4>1. pc' = "close"
        BY <2>1, <3>2 DEF UnlinkTemp
      <4>2. QED
        BY <2>1, <4>1 DEF UnlinkTemp, WriterInv, Contained, Resting, Fallback
    <3>3. QED  BY <3>1, <3>2
  <2>2. CASE UnlinkDeleteme
    BY <2>2 DEF UnlinkDeleteme, WriterInv, Contained, Resting, Fallback
  <2>3. QED  BY <1>5, <2>1, <2>2
<1>6. CASE AssertionError \/ CloseNew \/ CallFails \/ SaveFails \/ InterruptWrite
  <2>1. /\ out' = None
        /\ bench' = bench /\ deleteme' = deleteme /\ temps' = temps
        /\ db' = db
    BY <1>6 DEF AssertionError, CloseNew, CallFails, SaveFails, InterruptWrite, CloseOut
  <2>2. pc' \in Resting \cup {"create"} /\ pc # "exited"
    BY <1>6, AfterWriteResting
    DEF AssertionError, CloseNew, CallFails, SaveFails, InterruptWrite,
        Writing, Fallback, Resting
  <2>3. Contained(bench)'
    <3>1. CASE bench = out /\ out # None
      <4>1. data'[bench] = Effective(out) /\ bench \in Inode
        BY <1>6, <3>1
        DEF TypeOK, CloseOut, AssertionError, CloseNew, CallFails, SaveFails,
            InterruptWrite
      <4>2. Effective(out) \in {db, Truncated}
        BY <3>1 DEF Effective, WriterInv
      <4>3. QED  BY <2>1, <4>1, <4>2 DEF Contained
    <3>2. CASE bench # out \/ out = None
      <4>1. bench # None => data'[bench] = data[bench]
        BY <1>6, <3>2
        DEF TypeOK, CloseOut, AssertionError, CloseNew, CallFails, SaveFails,
            InterruptWrite
      <4>2. QED  BY <2>1, <2>2, <4>1 DEF Contained, WriterInv
    <3>3. QED  BY <3>1, <3>2
  <2>4. QED  BY <2>1, <2>2, <2>3 DEF WriterInv, Resting, Fallback
<1>7. CASE UNCHANGED vars
  BY <1>7 DEF vars, WriterInv, Contained, NothingLost
<1>8. ~(OpenInPlace \/ SaveInPlace \/ CloseInPlace)
  BY DEF OpenInPlace, SaveInPlace, CloseInPlace, WriterInv, Fallback
<1>9. ~(NotFound \/ FlushFails \/ Kill)
  BY DEF NotFound, FlushFails, Kill, RecoverableFaults
<1>10. QED
  BY <1>1, <1>2, <1>3, <1>4, <1>5, <1>6, <1>7, <1>8, <1>9
  DEF Next, WriteStep, Fault

\* A write that returns has its whole session in a file.
LEMMA CommittedHeld ==
  ASSUME Faults \subseteq RecoverableFaults, TypeOK, WriterInv, [Next]_vars
  PROVE  NothingLost'
<1>1. Held \subseteq Held'
  BY HeldStep
<1>2. CASE CloseNew
  <2>1. bench = out /\ out # None /\ bench \in Linked /\ db # Truncated
    BY <1>2, ConstantsAssumption DEF CloseNew, WriterInv, Linked, TypeOK
  <2>2. Effective(bench) = db
    BY <1>2, <2>1 DEF CloseNew, Effective, Buffered
  <2>3. db \subseteq Held
    BY <2>1, <2>2, HeldMember
  <2>4. QED  BY <1>1, <1>2, <2>3 DEF CloseNew, NothingLost, WriterInv
<1>3. CASE CloseInPlace
  BY <1>3 DEF CloseInPlace, WriterInv, Fallback
<1>4. CASE ~CloseNew /\ ~CloseInPlace
  <2>1. committed' = committed
    BY <1>4
    DEF Next, WriteStep, Fault, vars, history, Start, NextRuntime, Measure, BeginWrite,
        CreateTemp, SaveFile, CheckExisting, AssertionError, LinkOld, UnlinkOld,
        LinkNew, UnlinkTemp, UnlinkDeleteme, OpenInPlace, SaveInPlace, NotFound,
        CallFails, SaveFails, FlushFails, InterruptMeasuring, InterruptWrite, Kill
  <2>2. QED  BY <1>1, <2>1 DEF NothingLost, WriterInv
<1>5. QED  BY <1>2, <1>3, <1>4

\* WriterInv is inductive as long as the process lives to flush its buffers
\* and the fallback is not taken.
THEOREM WriterInvariant ==
  ASSUME Faults \subseteq RecoverableFaults
  PROVE  Spec => []WriterInv
<1>1. Init => WriterInv
  BY DEF Init, WriterInv, Contained, NothingLost, Held, Resting, Fallback
<1>2. TypeOK /\ WriterInv /\ [Next]_vars => WriterInv'
  BY CommittedHeld, WriterInvDirectory
<1>3. QED  BY <1>1, <1>2, TypeCorrect, PTL DEF Spec

\* No Ctrl-C, failing system call or failing save makes write_results lose a
\* result of an earlier write (bench.py:660-686), for any number of results,
\* inodes and starts.
THEOREM NothingIsLost ==
  ASSUME Faults \subseteq RecoverableFaults
  PROVE  Spec => []NothingLost
<1>1. WriterInv => NothingLost
  BY DEF WriterInv
<1>2. QED  BY <1>1, WriterInvariant, PTL

\* write_results implements ResultLog under those faults: a save is one step
\* that keeps the whole session, or none at all (bench.py:661).
THEOREM WriterImplementsLog ==
  ASSUME Faults \subseteq RecoverableFaults
  PROVE  Spec => ImplementsLog
<1>1. Init => Log!Init
  BY DEF Init, Log!Init, Held, Linked
<1>2. TypeOK /\ WriterInv /\ [Next]_vars => [Log!Next]_(Log!logVars)
  BY HeldStep DEF Log!Next, Log!Measure, Log!Save, Log!Resume, Log!logVars
<1>3. QED
  BY <1>1, <1>2, TypeCorrect, WriterInvariant, PTL DEF Spec, ImplementsLog, Log!Spec

-----------------------------------------------------------------------------
\* Whatever happens, a stale .deleteme freezes BENCHFILE until a write comes to
\* the fallback (bench.py:674-675).
THEOREM StaleFreezes == Spec => StaleFreezesFile
<1> DEFINE Closed == /\ pc \in Resting \cup {"create", "open"} => out = None
                     /\ pc \in {"save", "check"} => out # bench
<1>1. Init => Closed
  BY DEF Init, Resting
<1>2. TypeOK /\ Closed /\ [Next]_vars => Closed'
  <2> SUFFICES ASSUME TypeOK, Closed, [Next]_vars PROVE Closed'
    OBVIOUS
  <2> USE DEF directory, file, session, history, Resting, Fallback
  <2>1. CASE \/ Start \/ NextRuntime \/ Measure \/ BeginWrite \/ InterruptMeasuring
             \/ UNCHANGED vars
    BY <2>1 DEF Start, NextRuntime, Measure, BeginWrite, InterruptMeasuring, vars
  <2>2. CASE CreateTemp
    BY <2>2, ConstantsAssumption DEF CreateTemp, Linked, TypeOK
  <2>3. CASE SaveFile \/ CheckExisting \/ LinkOld \/ UnlinkOld \/ LinkNew
             \/ UnlinkTemp \/ UnlinkDeleteme \/ OpenInPlace \/ SaveInPlace
    BY <2>3 DEF SaveFile, CheckExisting, LinkOld, UnlinkOld, LinkNew, UnlinkTemp,
                UnlinkDeleteme, OpenInPlace, SaveInPlace
  <2>4. CASE AssertionError \/ CloseNew \/ CloseInPlace \/ NotFound \/ CallFails
             \/ SaveFails \/ FlushFails \/ InterruptWrite \/ Kill
    BY <2>4, AfterWriteResting
    DEF AssertionError, CloseNew, CloseInPlace, NotFound, CallFails, SaveFails,
        FlushFails, InterruptWrite, Kill, CloseOut
  <2>5. QED
    BY <2>1, <2>2, <2>3, <2>4 DEF Next, WriteStep, Fault
<1>3. TypeOK /\ Closed /\ [Next]_vars /\ Stale /\ pc' \notin Fallback
        => Stale' /\ bench' = bench /\ data'[bench'] = data[bench]
  <2> SUFFICES ASSUME TypeOK, Closed, [Next]_vars, Stale, pc' \notin Fallback
               PROVE  Stale' /\ bench' = bench /\ data'[bench'] = data[bench]
    OBVIOUS
  <2> USE DEF directory, file, session, history, Resting, Fallback, Stale
  <2>1. CASE Start \/ NextRuntime \/ Measure \/ BeginWrite \/ InterruptMeasuring
    BY <2>1 DEF Start, NextRuntime, Measure, BeginWrite, InterruptMeasuring
  <2>2. CASE CreateTemp
    BY <2>2 DEF CreateTemp, Linked, TypeOK
  <2>3. CASE SaveFile
    BY <2>3 DEF SaveFile
  <2>4. CASE AssertionError \/ CallFails \/ SaveFails \/ InterruptWrite
    BY <2>4, AfterWriteResting
    DEF AssertionError, CallFails, SaveFails, InterruptWrite, CloseOut, TypeOK
  <2>5. CASE Kill
    BY <2>5 DEF Kill
  <2>6. CASE UNCHANGED vars
    BY <2>6 DEF vars
  <2>7. ~(CheckExisting \/ LinkOld \/ UnlinkOld \/ LinkNew \/ UnlinkTemp
          \/ UnlinkDeleteme \/ CloseNew \/ FlushFails)
    BY DEF CheckExisting, LinkOld, UnlinkOld, LinkNew, UnlinkTemp, UnlinkDeleteme,
           CloseNew, FlushFails
  <2>8. ~(OpenInPlace \/ SaveInPlace \/ CloseInPlace \/ NotFound)
    BY DEF OpenInPlace, SaveInPlace, CloseInPlace, NotFound
  <2>9. QED
    BY <2>1, <2>2, <2>3, <2>4, <2>5, <2>6, <2>7, <2>8 DEF Next, WriteStep, Fault
<1>4. TypeOK /\ Closed /\ [Next]_vars
        => [Stale /\ pc' \notin Fallback
              => Stale' /\ bench' = bench /\ data'[bench'] = data[bench]]_vars
  BY <1>3
<1>5. QED
  BY <1>1, <1>2, <1>4, TypeCorrect, PTL DEF Spec, StaleFreezesFile

-----------------------------------------------------------------------------
(* What holds whatever the faults, kills and the in-place fallback included. *)

\* Along the atomic path, the open file has nothing on disk, the old file has its
\* two names where write_results relies on them, and the new file is BENCHFILE
\* before its temporary name goes.
PathInv == /\ pc \in Resting \cup {"create", "open"} => out = None
           /\ out # None => data[out] = Truncated
           /\ pc = "link_old" => bench # None /\ deleteme = None
           /\ pc = "unlink_old" => deleteme = bench
           /\ pc \in {"unlink_temp", "unlink_deleteme", "close"} => bench = out
           /\ pc \in (Writing \ {"create"}) \cup {"resave", "reclose"} => out # None

LEMMA PathInvariant == Spec => []PathInv
<1>1. Init => PathInv
  BY DEF Init, PathInv, Resting, Writing
<1>2. TypeOK /\ PathInv /\ [Next]_vars => PathInv'
  <2> SUFFICES ASSUME TypeOK, PathInv, [Next]_vars PROVE PathInv'
    OBVIOUS
  <2> USE DEF directory, file, session, history, PathInv, Resting, Writing
  <2>1. CASE Start \/ NextRuntime \/ Measure \/ BeginWrite \/ InterruptMeasuring
    BY <2>1 DEF Start, NextRuntime, Measure, BeginWrite, InterruptMeasuring
  <2>2. CASE CreateTemp
    BY <2>2, ConstantsAssumption DEF CreateTemp, TypeOK
  <2>3. CASE SaveFile \/ CheckExisting \/ LinkOld \/ UnlinkOld
    BY <2>3 DEF SaveFile, CheckExisting, LinkOld, UnlinkOld
  <2>4. CASE LinkNew \/ UnlinkTemp \/ UnlinkDeleteme
    BY <2>4 DEF LinkNew, UnlinkTemp, UnlinkDeleteme
  <2>5. CASE OpenInPlace
    BY <2>5, ConstantsAssumption DEF OpenInPlace, TypeOK
  <2>6. CASE SaveInPlace
    BY <2>6 DEF SaveInPlace
  <2>7. CASE AssertionError \/ CloseNew \/ CloseInPlace \/ NotFound \/ CallFails
             \/ SaveFails \/ FlushFails \/ InterruptWrite \/ Kill
    BY <2>7, AfterWriteResting
    DEF AssertionError, CloseNew, CloseInPlace, NotFound, CallFails, SaveFails,
        FlushFails, InterruptWrite, Kill, CloseOut
  <2>8. CASE UNCHANGED vars
    BY <2>8 DEF vars
  <2>9. QED
    BY <2>1, <2>2, <2>3, <2>4, <2>5, <2>6, <2>7, <2>8 DEF Next, WriteStep, Fault
<1>3. QED  BY <1>1, <1>2, TypeCorrect, PTL DEF Spec

\* Every complete document keeps its name and its content in every step but two.
LEMMA DocumentsStay ==
  ASSUME TypeOK, PathInv, [Next]_vars, pc \notin {"unlink_deleteme", "open"},
         NEW i \in Linked, data[i] # Truncated
  PROVE  i \in Linked' /\ data'[i] = data[i]
<1> USE DEF directory, file, session, history, Linked
<1>0. i \in Inode /\ i # out
  BY ConstantsAssumption DEF TypeOK, PathInv
<1>1. CASE Start \/ NextRuntime \/ Measure \/ BeginWrite \/ InterruptMeasuring
           \/ SaveFile \/ CheckExisting \/ SaveInPlace \/ FlushFails \/ Kill
  BY <1>1 DEF Start, NextRuntime, Measure, BeginWrite, InterruptMeasuring, SaveFile,
              CheckExisting, SaveInPlace, FlushFails, Kill
<1>2. CASE CreateTemp
  BY <1>2 DEF CreateTemp, TypeOK
<1>3. CASE LinkOld \/ UnlinkOld \/ LinkNew \/ UnlinkTemp
  BY <1>0, <1>3 DEF LinkOld, UnlinkOld, LinkNew, UnlinkTemp, PathInv
<1>4. CASE AssertionError \/ CloseNew \/ CloseInPlace \/ NotFound \/ CallFails
           \/ SaveFails \/ InterruptWrite
  <2>1. CloseOut /\ UNCHANGED directory
    BY <1>4 DEF AssertionError, CloseNew, CloseInPlace, NotFound, CallFails,
                SaveFails, InterruptWrite
  <2>2. QED  BY <1>0, <2>1 DEF CloseOut, TypeOK
<1>5. CASE UNCHANGED vars
  BY <1>5 DEF vars
<1>6. ~(UnlinkDeleteme \/ OpenInPlace)
  BY DEF UnlinkDeleteme, OpenInPlace
<1>7. QED
  BY <1>1, <1>2, <1>3, <1>4, <1>5, <1>6 DEF Next, WriteStep, Fault

\* A result on disk leaves it only where .deleteme is removed or BENCHFILE is
\* truncated, whatever fails and whenever the process dies (bench.py:686, 690).
THEOREM LossesAreInWindows == Spec => LossOnlyInWindows
<1>1. TypeOK /\ PathInv /\ [Next]_vars
        => [OnDisk \subseteq OnDisk' \/ pc \in {"unlink_deleteme", "open"}]_vars
  <2> SUFFICES ASSUME TypeOK, PathInv, [Next]_vars,
                      pc \notin {"unlink_deleteme", "open"},
                      NEW r \in OnDisk
               PROVE  r \in OnDisk'
    OBVIOUS
  <2>1. PICK i \in Linked : data[i] # Truncated /\ r \in data[i]
    BY DEF OnDisk
  <2>2. i \in Linked' /\ data'[i] = data[i]
    BY <2>1, DocumentsStay
  <2>3. QED  BY <2>1, <2>2 DEF OnDisk
<1>2. QED
  BY <1>1, TypeCorrect, PathInvariant, PTL DEF Spec, LossOnlyInWindows

-----------------------------------------------------------------------------
(* What holds as long as no fault takes place.                             *)

\* The names along the path of a write that nothing disturbs.
CleanInv ==
  ~disturbed =>
    /\ pc \notin Fallback
    /\ pc \in Resting \cup {"create", "close"} => temps = {} /\ deleteme = None
    /\ pc \in {"save", "check", "link_old", "unlink_old", "link_new", "unlink_temp"}
         => temps = {out}
    /\ pc \in {"save", "check", "link_old"} => deleteme = None
    /\ pc \in {"link_new", "unlink_temp"} => deleteme = None \/ delete_tmp_file
    /\ pc = "unlink_deleteme" => temps = {}

LEMMA CleanInvariant == Spec => []CleanInv
<1>1. Init => CleanInv
  BY DEF Init, CleanInv, Resting, Fallback
<1>2. CleanInv /\ [Next]_vars => CleanInv'
  <2> SUFFICES ASSUME CleanInv, [Next]_vars PROVE CleanInv'
    OBVIOUS
  <2> USE DEF directory, file, session, history, CleanInv, Resting, Fallback
  <2>1. CASE Start \/ NextRuntime \/ Measure \/ BeginWrite
    BY <2>1 DEF Start, NextRuntime, Measure, BeginWrite
  <2>2. CASE CreateTemp \/ SaveFile \/ CheckExisting
    BY <2>2 DEF CreateTemp, SaveFile, CheckExisting
  <2>3. CASE LinkOld \/ UnlinkOld \/ LinkNew
    BY <2>3 DEF LinkOld, UnlinkOld, LinkNew
  <2>4. CASE UnlinkTemp \/ UnlinkDeleteme
    BY <2>4 DEF UnlinkTemp, UnlinkDeleteme
  <2>5. CASE AssertionError \/ CloseNew
    BY <2>5, AfterWriteResting DEF AssertionError, CloseNew
  <2>6. CASE OpenInPlace \/ SaveInPlace \/ CloseInPlace
    BY <2>6 DEF OpenInPlace, SaveInPlace, CloseInPlace
  <2>7. CASE Fault
    BY <2>7 DEF Fault, NotFound, CallFails, SaveFails, FlushFails,
                InterruptMeasuring, InterruptWrite, Kill
  <2>8. CASE UNCHANGED vars
    BY <2>8 DEF vars
  <2>9. QED
    BY <2>1, <2>2, <2>3, <2>4, <2>5, <2>6, <2>7, <2>8 DEF Next, WriteStep
<1>3. QED  BY <1>1, <1>2, PTL DEF Spec

\* An undisturbed write cleans up every name that it made (bench.py:681-686).
THEOREM NoDebrisIsLeft == Spec => []NoDebris
<1>1. CleanInv => NoDebris
  BY DEF CleanInv, NoDebris
<1>2. QED  BY <1>1, CleanInvariant, PTL

\* Undisturbed, all that a session has measured is in BENCHFILE when bench.py
\* goes on or ends (bench.py:440, 454).
THEOREM WhatIsMeasuredIsStored == Spec => []MeasuredIsStored
<1>1. Init => MeasuredIsStored
  BY DEF Init, MeasuredIsStored
<1>2. TypeOK /\ PathInv /\ CleanInv /\ MeasuredIsStored /\ [Next]_vars
        => MeasuredIsStored'
  <2> SUFFICES ASSUME TypeOK, PathInv, CleanInv, MeasuredIsStored, [Next]_vars,
                      ~disturbed', pc' \in {"between", "exited"}, db' # {}
               PROVE  (bench # None /\ data[bench] # Truncated /\ db \subseteq data[bench])'
    BY DEF MeasuredIsStored
  <2> USE DEF directory, file, session, history, MeasuredIsStored
  <2>1. CASE Start
    BY <2>1 DEF Start
  <2>2. CASE NextRuntime
    BY <2>2 DEF NextRuntime
  <2>3. CASE CloseNew
    <3>1. bench' = out /\ out \in Inode /\ data'[out] = db /\ db' = db
      BY <2>3 DEF CloseNew, CloseOut, Effective, Buffered, PathInv, Writing, TypeOK
    <3>2. QED  BY <3>1, ConstantsAssumption DEF TypeOK
  <2>4. ~AssertionError /\ ~CloseInPlace
    BY DEF AssertionError, CloseInPlace, CleanInv, Fallback
  <2>5. ~Fault
    BY DEF Fault, NotFound, CallFails, SaveFails, FlushFails, InterruptMeasuring,
           InterruptWrite, Kill
  <2>6. CASE UNCHANGED vars
    BY <2>6 DEF vars
  <2>7. QED
    BY <2>1, <2>2, <2>3, <2>4, <2>5, <2>6
    DEF Next, WriteStep, Measure, BeginWrite, CreateTemp, SaveFile, CheckExisting,
        LinkOld, UnlinkOld, LinkNew, UnlinkTemp, UnlinkDeleteme, OpenInPlace,
        SaveInPlace
<1>3. QED
  BY <1>1, <1>2, TypeCorrect, PathInvariant, CleanInvariant, PTL DEF Spec
=============================================================================

-------------------------- MODULE ProjectLockProofs --------------------------
(***************************************************************************)
(* What holds of ProjectLock for every set of processes and threads and    *)
(* every number of failing processes: one holder per process, and one      *)
(* holder in all when processes never overlap.                             *)
(***************************************************************************)
EXTENDS ProjectLock, FiniteSetTheorems, TLAPS

\* A thread past the guard has its key in _held, belongs to a process that runs,
\* and is the only one of its process there.
Guarded ==
    /\ \A a \in Actors : thread[a] # "idle" => process[PidOf(a)] = "up" /\ PidOf(a) \in held
    /\ \A a, b \in Actors :
         thread[a] # "idle" /\ thread[b] # "idle" /\ PidOf(a) = PidOf(b) => a = b

Inv == TypeOK /\ Guarded

\* A thread belongs to a process.
LEMMA PidOfActor == \A a \in Actors : PidOf(a) \in Pids
BY DEF Actors, PidOf

\* The files acquire and release put in place are files.
LEMMA FilesTyped ==
    ASSUME TypeOK, NEW a \in Actors
    PROVE  NewFile(a) \in FileRecord /\ Written(a) \in FileRecord \cup {NoFile}
<1>1. file \in FileRecord \cup {NoFile}
    BY DEF TypeOK
<1>2. NewFile(a) \in FileRecord
    BY DEF NewFile, FileRecord
<1>3. CASE file \in FileRecord
    BY <1>2, <1>3 DEF Written, FileRecord
<1>4. CASE file = NoFile
  <2>1. <<>> # a
      BY DEF Actors
  <2> QED BY <1>2, <1>4, <2>1 DEF Written, NoFile
<1> QED BY <1>1, <1>2, <1>3, <1>4

\* Nothing is held and nobody is at work when the first process starts.
LEMMA InitInv == Init => Inv
BY DEF Init, Inv, TypeOK, Guarded, ProcessPcs, ThreadPcs

\* A step of thread a that moves it between two places past the guard.
LEMMA MoveInv ==
    ASSUME Inv, NEW a \in Actors, NEW from \in ThreadPcs \ {"idle"}, NEW to \in ThreadPcs \ {"idle"},
           At(a, from), Goto(a, to), UNCHANGED <<process, held>>,
           file' \in FileRecord \cup {NoFile}, faulty' \in SUBSET Pids
    PROVE  Inv'
BY DEF Inv, TypeOK, Guarded, At, Goto

\* A step of thread a that leaves, with or without the key.
LEMMA LeaveInv ==
    ASSUME Inv, NEW a \in Actors, thread[a] # "idle", Goto(a, "idle"), UNCHANGED process,
           held' = held \/ held' = held \ {PidOf(a)},
           file' \in FileRecord \cup {NoFile}, faulty' \in SUBSET Pids
    PROVE  Inv'
<1>1. TypeOK'
    BY DEF Inv, TypeOK, Goto, ThreadPcs
<1>2. \A b \in Actors : thread'[b] # "idle" => thread[b] # "idle" /\ b # a
    BY DEF Inv, TypeOK, Goto
<1>3. \A b \in Actors : thread'[b] # "idle" => PidOf(b) # PidOf(a)
    BY <1>2 DEF Inv, Guarded
<1>4. Guarded'
    BY <1>2, <1>3 DEF Inv, Guarded
<1> QED BY <1>1, <1>4 DEF Inv

\* The guard admits a thread only when no other of its process is past it.
LEMMA EnterInv == ASSUME Inv, NEW a \in Actors, Enter(a) PROVE Inv'
<1>1. TypeOK'
    BY PidOfActor DEF Inv, TypeOK, Enter, At, Goto, ThreadPcs
<1>2. \A b \in Actors : thread[b] # "idle" => PidOf(b) # PidOf(a)
    BY DEF Inv, Guarded, Enter
<1>3. \A b \in Actors : thread'[b] # "idle" => b = a \/ thread[b] # "idle"
    BY DEF Inv, TypeOK, Enter, Goto
<1>4. Guarded'
    BY <1>2, <1>3 DEF Inv, Guarded, Enter, At
<1> QED BY <1>1, <1>4 DEF Inv

\* acquire and release keep the guard.
LEMMA StepInv == ASSUME Inv, NEW a \in Actors, Step(a) PROVE Inv'
<1> USE FilesTyped, PidOfActor DEF ThreadPcs
<1>1. file \in FileRecord \cup {NoFile} /\ faulty \in SUBSET Pids /\ TypeOK
    BY DEF Inv, TypeOK
<1>2. CASE Create(a)
    BY <1>1, <1>2, MoveInv DEF Create, Open
<1>3. CASE Recreate(a)
    BY <1>1, <1>3, MoveInv DEF Recreate, Open
<1>4. CASE Write(a)
    BY <1>1, <1>4, MoveInv DEF Write
<1>5. CASE OpenFails(a)
    BY <1>1, <1>5, LeaveInv DEF OpenFails, Abort, Faults, At
<1>6. CASE WriteFails(a)
    BY <1>1, <1>6, LeaveInv DEF WriteFails, Abort, Faults, At
<1>7. CASE IsFile(a)
    BY <1>1, <1>7, MoveInv DEF IsFile
<1>8. CASE Inspect(a)
    BY <1>1, <1>8, MoveInv DEF Inspect
<1>9. CASE Unlink(a)
    BY <1>1, <1>9, MoveInv DEF Unlink
<1>10. CASE UnlinkFails(a)
    BY <1>1, <1>10, MoveInv DEF UnlinkFails, Faults
<1>11. CASE GiveUp(a)
    BY <1>1, <1>11, LeaveInv DEF GiveUp, At
<1>12. CASE Release(a)
    BY <1>1, <1>12, MoveInv DEF Release
<1>13. CASE ReleaseFails(a)
    BY <1>1, <1>13, MoveInv DEF ReleaseFails, Faults
<1>14. CASE Discard(a)
    BY <1>1, <1>14, LeaveInv DEF Discard, At
<1> QED BY <1>2, <1>3, <1>4, <1>5, <1>6, <1>7, <1>8, <1>9, <1>10, <1>11, <1>12, <1>13, <1>14 DEF Step

\* A process that starts serves nobody yet, and one that is killed takes its
\* threads with it.
LEMMA ProcessInv == ASSUME Inv, NEW p \in Pids, Launch(p) \/ Clear(p) \/ Die(p) PROVE Inv'
<1>1. CASE Launch(p)
    BY <1>1 DEF Inv, TypeOK, Guarded, Launch, Become, ProcessPcs
<1>2. CASE Clear(p)
  <2>1. process[p] # "up" /\ UNCHANGED <<held, thread>>
      BY <1>2 DEF Clear, ClearList, ClearInspect, ClearUnlink, ClearUnlinkFails
  <2>2. process' \in [Pids -> ProcessPcs] /\ \A q \in Pids : process[q] = "up" => process'[q] = "up"
      BY <1>2 DEF Inv, TypeOK, Clear, ClearList, ClearInspect, ClearUnlink, ClearUnlinkFails, Become, ProcessPcs
  <2>3. file' \in FileRecord \cup {NoFile} /\ faulty' \in SUBSET Pids
      BY <1>2 DEF Inv, TypeOK, Clear, ClearList, ClearInspect, ClearUnlink, ClearUnlinkFails, Faults
  <2> QED BY <2>1, <2>2, <2>3, PidOfActor DEF Inv, TypeOK, Guarded
<1>3. CASE Die(p)
  <2>1. TypeOK'
      BY <1>3 DEF Inv, TypeOK, Die, Become, ProcessPcs, ThreadPcs
  <2>2. \A a \in Actors : thread'[a] # "idle" => thread[a] # "idle" /\ PidOf(a) # p
      BY <1>3 DEF Die
  <2>3. \A q \in Pids \ {p} : process'[q] = process[q] /\ (q \in held => q \in held')
      BY <1>3 DEF Inv, TypeOK, Die, Become
  <2> QED BY <2>1, <2>2, <2>3, PidOfActor DEF Inv, Guarded
<1> QED BY <1>1, <1>2, <1>3

\* Inv is an invariant.
LEMMA AlwaysInv == Spec => []Inv
<1>1. Inv /\ [Next]_vars => Inv'
  <2> SUFFICES ASSUME Inv, [Next]_vars PROVE Inv'
      OBVIOUS
  <2>1. CASE UNCHANGED vars
      BY <2>1 DEF Inv, TypeOK, Guarded, vars
  <2>2. CASE Next
      BY <2>2, EnterInv, StepInv, ProcessInv DEF Next
  <2> QED BY <2>1, <2>2
<1> QED BY InitInv, <1>1, PTL DEF Spec

\* Every variable of the lock has its type: the file is one that a thread has opened, and
\* only processes there are hold or fail (acquire, release, clear_stale_project_locks).
THEOREM TypeCorrect == Spec => []TypeOK
<1>1. Inv => TypeOK
    BY DEF Inv
<1> QED BY <1>1, AlwaysInv, PTL

\* Threads of one process never hold the project together (_held under _guard).
THEOREM ProcessExclusion == Spec => []OnePerProcess
<1>1. Inv => OnePerProcess
    BY DEF Inv, Guarded, OnePerProcess, Holding
<1> QED BY <1>1, AlwaysInv, PTL

-----------------------------------------------------------------------------
AliveSet == {p \in Pids : Alive(p)}
FewAlive == Cardinality(AliveSet) <= MaxAlive

\* No more processes overlap than the bound allows.
LEMMA AlwaysFew == Spec => []FewAlive
<1> USE PidsAssumption, BoundsAssumption
<1>1. Init => FewAlive
  <2>1. Init => AliveSet = {}
      BY DEF Init, AliveSet, Alive
  <2> QED BY <2>1, FS_EmptySet DEF FewAlive
<1>2. Inv /\ FewAlive /\ [Next]_vars => FewAlive'
  <2> SUFFICES ASSUME Inv, FewAlive, [Next]_vars PROVE FewAlive'
      OBVIOUS
  <2>1. IsFiniteSet(AliveSet) /\ IsFiniteSet(AliveSet')
      BY FS_Subset DEF AliveSet
  <2>2. Cardinality(AliveSet) \in Nat /\ Cardinality(AliveSet') \in Nat
      BY <2>1, FS_CardinalityType
  <2>3. CASE AliveSet' \subseteq AliveSet
      BY <2>1, <2>2, <2>3, FS_Subset DEF FewAlive
  <2>4. ASSUME NEW p \in Pids, Launch(p) PROVE FewAlive'
    <3>1. AliveSet' = AliveSet \cup {p} /\ p \notin AliveSet
        BY <2>4 DEF Launch, Become, AliveSet, Alive, Inv, TypeOK
    <3>2. Cardinality(AliveSet') = Cardinality(AliveSet) + 1
        BY <2>1, <3>1, FS_AddElement
    <3>3. Cardinality(AliveSet) < MaxAlive
        BY <2>4 DEF Launch, AliveSet
    <3> QED BY <2>2, <3>2, <3>3 DEF FewAlive
  <2>5. ASSUME NEW p \in Pids, Clear(p) \/ Die(p) PROVE AliveSet' \subseteq AliveSet
      BY <2>5 DEF Clear, ClearList, ClearInspect, ClearUnlink, ClearUnlinkFails, Die, Become,
                  AliveSet, Alive, Inv, TypeOK
  <2>6. ASSUME NEW a \in Actors, Enter(a) \/ Step(a) PROVE UNCHANGED process
      BY <2>6 DEF Enter, Step, Create, Recreate, Open, OpenFails, WriteFails, Abort, Write, IsFile,
                  Inspect, Unlink, UnlinkFails, GiveUp, Release, ReleaseFails, Discard
  <2>7. UNCHANGED process => AliveSet' \subseteq AliveSet
      BY DEF AliveSet, Alive
  <2> QED BY <2>3, <2>4, <2>5, <2>6, <2>7 DEF Next, vars
<1> QED BY <1>1, <1>2, AlwaysInv, PTL DEF Spec

\* While processes never overlap the lock is exclusive, whatever is killed and
\* whatever operation fails: what project_lock_reclaim shows needs two processes.
THEOREM ExclusionAlone == ASSUME MaxAlive = 1 PROVE Spec => []OneHolder
<1>1. Inv /\ FewAlive => OneHolder
  <2> SUFFICES ASSUME Inv, FewAlive, NEW a \in Holding, NEW b \in Holding PROVE a = b
      BY DEF OneHolder
  <2>1. a \in Actors /\ b \in Actors /\ thread[a] # "idle" /\ thread[b] # "idle"
      BY DEF Holding
  <2>2. PidOf(a) \in AliveSet /\ PidOf(b) \in AliveSet
      BY <2>1, PidOfActor DEF Inv, Guarded, AliveSet, Alive
  <2>3. IsFiniteSet(AliveSet)
      BY PidsAssumption, FS_Subset DEF AliveSet
  <2>4. PidOf(a) = PidOf(b)
    <3> SUFFICES ASSUME PidOf(a) # PidOf(b) PROVE FALSE
        OBVIOUS
    <3>1. IsFiniteSet({PidOf(a)}) /\ Cardinality({PidOf(a)}) = 1
        BY FS_Singleton
    <3>2. Cardinality({PidOf(a)} \cup {PidOf(b)}) = 2
        BY <3>1, FS_AddElement
    <3>3. Cardinality({PidOf(a)} \cup {PidOf(b)}) <= Cardinality(AliveSet)
        BY <2>2, <2>3, FS_Subset
    <3>4. Cardinality(AliveSet) \in Nat /\ Cardinality(AliveSet) <= 1
        BY <2>3, FS_CardinalityType DEF FewAlive
    <3> QED BY <3>2, <3>3, <3>4
  <2> QED BY <2>1, <2>4 DEF Inv, Guarded
<1> QED BY <1>1, AlwaysInv, AlwaysFew, PTL

-----------------------------------------------------------------------------
\* A lock file was made by a process that was started.
FileOfStarted == file # NoFile => process[PidOf(file.by)] # "off"
Owned == Inv /\ FileOfStarted /\ FileHasOwner /\ HeldHasOwner

\* The file of another thread, or one of a faulty process, needs nothing from thread a.
LEMMA FileKept ==
    ASSUME Owned, NEW a \in Actors, UNCHANGED process, faulty \subseteq faulty',
           NEW pc \in ThreadPcs, Goto(a, pc),
           file' = file \/ file' = NoFile \/ file' = Written(a),
           file' = NoFile \/ pc \in {"write", "rewrite", "holding"}
             \/ thread[a] \notin {"write", "rewrite", "holding"} \/ PidOf(a) \in faulty'
    PROVE  FileOfStarted' /\ FileHasOwner'
<1>1. file \in FileRecord \cup {NoFile} /\ thread \in [Actors -> ThreadPcs]
    BY DEF Owned, Inv, TypeOK
<1>2. NoFile.by \notin Actors
    BY DEF NoFile, Actors
<1>3. file' = NoFile \/ (file # NoFile /\ file'.by = file.by)
  <2>1. CASE file' = Written(a)
    <3>1. file = NoFile => Written(a) = NoFile
        BY <1>2 DEF Written
    <3>2. file \in FileRecord => Written(a).by = file.by
        BY DEF Written, FileRecord
    <3> QED BY <1>1, <2>1, <3>1, <3>2
  <2> QED BY <2>1
<1>4. CASE file' = NoFile
    BY <1>4 DEF FileOfStarted, FileHasOwner
<1>5. CASE file # NoFile /\ file'.by = file.by /\ file' # NoFile
  <2>1. file.by \in Actors
      BY <1>1, <1>5 DEF FileRecord
  <2>2. thread'[a] = pc /\ \A b \in Actors : b # a => thread'[b] = thread[b]
      BY <1>1 DEF Goto
  <2>3. FileOfStarted'
      BY <1>5 DEF Owned, FileOfStarted
  <2>4. FileHasOwner'
      BY <1>5, <2>1, <2>2 DEF Owned, FileHasOwner, Alive
  <2> QED BY <2>3, <2>4
<1> QED BY <1>3, <1>4, <1>5

\* A thread that goes on keeps its key, and no other thread's key is touched.
LEMMA KeyKept ==
    ASSUME Owned, NEW a \in Actors, NEW pc \in ThreadPcs, Goto(a, pc), faulty \subseteq faulty',
           \/ held' = held /\ (pc # "idle" \/ PidOf(a) \in faulty')
           \/ held' = held \ {PidOf(a)}
    PROVE  HeldHasOwner'
<1> SUFFICES ASSUME NEW p \in held' \ faulty'
             PROVE  \E b \in Actors : PidOf(b) = p /\ thread'[b] # "idle"
    BY DEF HeldHasOwner
<1>1. PICK b \in Actors : PidOf(b) = p /\ thread[b] # "idle"
    BY DEF Owned, HeldHasOwner
<1>2. b # a \/ pc # "idle"
    BY <1>1
<1>3. thread'[b] # "idle"
    BY <1>1, <1>2 DEF Owned, Inv, TypeOK, Goto
<1> QED BY <1>1, <1>3

\* The thread that makes the file is about to write it.
LEMMA OpenOwned ==
    ASSUME Owned, NEW a \in Actors, NEW from \in ThreadPcs \ {"idle"},
           from \notin {"write", "rewrite", "holding"},
           NEW made \in {"write", "rewrite"}, NEW exists \in ThreadPcs \ {"idle"},
           Open(a, from, made, exists)
    PROVE  FileOfStarted' /\ FileHasOwner' /\ HeldHasOwner'
<1>1. thread[a] = from /\ process[PidOf(a)] = "up" /\ UNCHANGED <<process, held, faulty>>
    BY DEF Open, At
<1>2. CASE file = NoFile
  <2>1. file' = NewFile(a) /\ Goto(a, made)
      BY <1>2 DEF Open
  <2>2. made \in ThreadPcs \ {"idle"}
      BY DEF ThreadPcs
  <2>3. HeldHasOwner'
      BY <1>1, <2>1, <2>2, KeyKept
  <2>4. file'.by = a /\ thread'[a] = made
      BY <2>1 DEF NewFile, Goto, Owned, Inv, TypeOK
  <2> QED BY <1>1, <2>3, <2>4 DEF FileOfStarted, FileHasOwner
<1>3. CASE file # NoFile
    BY <1>1, <1>3, FileKept, KeyKept DEF Open
<1> QED BY <1>2, <1>3

\* acquire and release leave neither a file nor a key behind, unless an operation failed.
LEMMA StepOwned ==
    ASSUME Owned, NEW a \in Actors, Step(a)
    PROVE  FileOfStarted' /\ FileHasOwner' /\ HeldHasOwner'
<1> USE FileKept, KeyKept DEF ThreadPcs, At
<1>1. CASE Create(a)
    BY <1>1, OpenOwned DEF Create
<1>2. CASE Recreate(a)
    BY <1>2, OpenOwned DEF Recreate
<1>3. CASE Write(a)
    BY <1>3 DEF Write
<1>4. CASE OpenFails(a)
    BY <1>4 DEF OpenFails, Abort, Faults
<1>5. CASE WriteFails(a)
    BY <1>5 DEF WriteFails, Abort, Faults
<1>6. CASE IsFile(a)
    BY <1>6 DEF IsFile
<1>7. CASE Inspect(a)
    BY <1>7 DEF Inspect
<1>8. CASE Unlink(a)
    BY <1>8 DEF Unlink
<1>9. CASE UnlinkFails(a)
    BY <1>9 DEF UnlinkFails, Faults
<1>10. CASE GiveUp(a)
    BY <1>10 DEF GiveUp
<1>11. CASE Release(a)
    BY <1>11 DEF Release
<1>12. CASE ReleaseFails(a)
    BY <1>12 DEF ReleaseFails, Faults
<1>13. CASE Discard(a)
    BY <1>13 DEF Discard
<1> QED BY <1>1, <1>2, <1>3, <1>4, <1>5, <1>6, <1>7, <1>8, <1>9, <1>10, <1>11, <1>12, <1>13 DEF Step

\* A thread that enters brings its key; the files are as they were.
LEMMA EnterOwned ==
    ASSUME Owned, NEW a \in Actors, Enter(a)
    PROVE  FileOfStarted' /\ FileHasOwner' /\ HeldHasOwner'
<1>1. FileOfStarted' /\ FileHasOwner'
    BY FileKept DEF Enter, At, ThreadPcs
<1>2. HeldHasOwner'
  <2> SUFFICES ASSUME NEW p \in held' \ faulty'
               PROVE  \E b \in Actors : PidOf(b) = p /\ thread'[b] # "idle"
      BY DEF HeldHasOwner
  <2>1. thread'[a] = "create" /\ \A b \in Actors : b # a => thread'[b] = thread[b]
      BY DEF Enter, Goto, Owned, Inv, TypeOK
  <2>2. CASE p = PidOf(a)
      BY <2>1, <2>2
  <2>3. CASE p # PidOf(a)
    <3>1. p \in held \ faulty
        BY <2>3 DEF Enter
    <3> QED BY <2>1, <2>3, <3>1 DEF Owned, HeldHasOwner
  <2> QED BY <2>2, <2>3
<1> QED BY <1>1, <1>2

\* A process that starts owns no file yet; one that dies is not asked for an owner.
LEMMA ProcessOwned ==
    ASSUME Owned, NEW p \in Pids, Launch(p) \/ Clear(p) \/ Die(p)
    PROVE  FileOfStarted' /\ FileHasOwner' /\ HeldHasOwner'
<1>1. /\ file \in FileRecord \cup {NoFile} /\ process \in [Pids -> ProcessPcs]
      /\ thread \in [Actors -> ThreadPcs]
    BY DEF Owned, Inv, TypeOK
<1>2. file # NoFile => file.by \in Actors /\ PidOf(file.by) \in Pids
    BY <1>1, PidOfActor DEF FileRecord
<1>3. CASE Launch(p) \/ Clear(p)
  <2>1. /\ UNCHANGED <<held, thread>> /\ faulty \subseteq faulty'
        /\ file' = file \/ file' = NoFile
      BY <1>3 DEF Launch, Clear, ClearList, ClearInspect, ClearUnlink, ClearUnlinkFails, Faults
  <2>2. /\ process'[p] \notin {"off", "dead"}
        /\ \A q \in Pids : q # p => process'[q] = process[q]
        /\ process[p] # "dead"
      BY <1>1, <1>3 DEF Launch, Clear, ClearList, ClearInspect, ClearUnlink, ClearUnlinkFails, Become
  <2>3. FileOfStarted' /\ FileHasOwner'
      BY <1>2, <2>1, <2>2 DEF Owned, FileOfStarted, FileHasOwner, Alive
  <2>4. HeldHasOwner'
      BY <2>1 DEF Owned, HeldHasOwner
  <2> QED BY <2>3, <2>4
<1>4. CASE Die(p)
  <2>1. /\ UNCHANGED <<file, faulty>> /\ held' = held \ {p}
        /\ process'[p] = "dead" /\ \A q \in Pids : q # p => process'[q] = process[q]
        /\ \A a \in Actors : PidOf(a) # p => thread'[a] = thread[a]
      BY <1>1, <1>4 DEF Die, Become
  <2>2. FileOfStarted' /\ FileHasOwner'
      BY <1>2, <2>1 DEF Owned, FileOfStarted, FileHasOwner, Alive
  <2>3. HeldHasOwner'
      BY <2>1 DEF Owned, HeldHasOwner
  <2> QED BY <2>2, <2>3
<1> QED BY <1>3, <1>4

\* Owned is an invariant.
LEMMA AlwaysOwned == Spec => []Owned
<1>1. Init => FileOfStarted /\ FileHasOwner /\ HeldHasOwner
    BY DEF Init, FileOfStarted, FileHasOwner, HeldHasOwner
<1>2. Inv /\ Inv' /\ Owned /\ [Next]_vars => Owned'
  <2> SUFFICES ASSUME Inv', Owned, [Next]_vars PROVE FileOfStarted' /\ FileHasOwner' /\ HeldHasOwner'
      BY DEF Owned
  <2>1. CASE UNCHANGED vars
      BY <2>1 DEF Owned, FileOfStarted, FileHasOwner, HeldHasOwner, Alive, vars
  <2>2. CASE Next
      BY <2>2, EnterOwned, StepOwned, ProcessOwned DEF Next
  <2> QED BY <2>1, <2>2
<1>3. Init => Owned
    BY <1>1, InitInv DEF Owned
<1> QED BY <1>2, <1>3, AlwaysInv, PTL DEF Spec

\* A lock file of a live process has a thread that holds it or is about to, unless a
\* file operation of that process failed (acquire, release).
THEOREM NoFileForNothing == Spec => []FileHasOwner
<1>1. Owned => FileHasOwner
    BY DEF Owned
<1> QED BY <1>1, AlwaysOwned, PTL

\* A key in _held belongs to a thread at work, unless a file operation failed.
THEOREM NoKeyForNothing == Spec => []HeldHasOwner
<1>1. Owned => HeldHasOwner
    BY DEF Owned
<1> QED BY <1>1, AlwaysOwned, PTL
=============================================================================

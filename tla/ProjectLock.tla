----------------------------- MODULE ProjectLock -----------------------------
(***************************************************************************)
(* ProjectLock (scriptase/engine/scheduler.py): the lock file of one       *)
(* project, shared by every process on an output directory.  Locks of      *)
(* different projects share nothing.                                       *)
(*                                                                         *)
(* Actors: the threads of each process, and each process as it starts      *)
(* (clear_stale_project_locks) and is killed.  Every call to the file      *)
(* system is a step of its own; a thread that refuses the lock is back at  *)
(* "idle".  A process that starts has a pid no process had before it, as   *)
(* is_pid_alive assumes.                                                   *)
(***************************************************************************)
EXTENDS Naturals, FiniteSets

CONSTANTS
    Pids,        \* process ids, one for each process that may ever start
    Threads,     \* threads of one process that may take the lock
    MaxAlive,    \* bound: processes alive at the same time
    MaxFaulty    \* bound: processes in which one file operation fails

ASSUME PidsAssumption == IsFiniteSet(Pids)
ASSUME BoundsAssumption == MaxAlive \in Nat /\ MaxFaulty \in Nat

Actors == Pids \X Threads
PidOf(a) == a[1]

\* The file remembers which open created it, so that a write to a file that was
\* unlinked meanwhile is seen by nobody.
FileRecord == [by : Actors, written : BOOLEAN]
NoFile == [by |-> <<>>, written |-> FALSE]

VARIABLES
    process,    \* per pid
    held,       \* pids whose class-level _held contains the project
    thread,     \* per thread: where it is in acquire and release
    file,       \* the lock file
    faulty      \* pids in which a file operation has failed

vars == <<process, held, thread, file, faulty>>

\* "create" to "write" are the first attempt of acquire, "recreate" and "rewrite"
\* the second, "discard" the end of release.
ThreadPcs == {"idle", "create", "write", "isfile", "inspect", "unlink", "recreate", "rewrite",
              "giveup", "holding", "discard"}
ProcessPcs == {"off", "listing", "inspecting", "unlinking", "up", "dead"}

\* Every variable has its type.
TypeOK ==
    /\ process \in [Pids -> ProcessPcs]
    /\ held \in SUBSET Pids
    /\ thread \in [Actors -> ThreadPcs]
    /\ file \in FileRecord \cup {NoFile}
    /\ faulty \in SUBSET Pids

Init ==
    /\ process = [p \in Pids |-> "off"]
    /\ held = {}
    /\ thread = [a \in Actors |-> "idle"]
    /\ file = NoFile
    /\ faulty = {}

Alive(p) == process[p] \notin {"off", "dead"}

\* Mutant: a file that names nobody is left alone.
StaleIfDead == file.written /\ ~Alive(PidOf(file.by))

\* is_project_lock_stale: absent, corrupt, or owned by a dead pid.
Stale == file = NoFile \/ ~file.written \/ ~Alive(PidOf(file.by))

-----------------------------------------------------------------------------
(* acquire and release, by thread a of a process that is up.                *)

At(a, pc) == process[PidOf(a)] = "up" /\ thread[a] = pc
Goto(a, pc) == thread' = [thread EXCEPT ![a] = pc]

\* Mutant: the in-process set is not consulted.
EnterUnguarded(a) ==
    /\ At(a, "idle")
    /\ held' = held \cup {PidOf(a)}
    /\ Goto(a, "create")
    /\ UNCHANGED <<process, file, faulty>>

\* Under _guard; a key that is held is refused and nothing changes.
Enter(a) ==
    /\ At(a, "idle")
    /\ PidOf(a) \notin held
    /\ held' = held \cup {PidOf(a)}
    /\ Goto(a, "create")
    /\ UNCHANGED <<process, file, faulty>>

\* Mutant: the open remembers the process alone.
NewFileOfPid(a) == [by |-> PidOf(a), written |-> FALSE]
NewFile(a) == [by |-> a, written |-> FALSE]

\* os.open with O_CREAT and O_EXCL: the file exists, and is empty.
Open(a, from, made, exists) ==
    /\ At(a, from)
    /\ IF file = NoFile THEN file' = NewFile(a) /\ Goto(a, made)
                        ELSE Goto(a, exists) /\ UNCHANGED file
    /\ UNCHANGED <<process, held, faulty>>

Create(a)   == Open(a, "create", "write", "isfile")
Recreate(a) == Open(a, "recreate", "rewrite", "giveup")

Written(a) == IF file.by = a THEN [file EXCEPT !.written = TRUE] ELSE file

\* The owner is written into the file that was opened, and synced.
Write(a) ==
    /\ At(a, "write") \/ At(a, "rewrite")
    /\ file' = Written(a)
    /\ Goto(a, "holding")
    /\ UNCHANGED <<process, held, faulty>>

\* The file system refuses an operation of process p.
Faults(p) ==
    /\ p \in faulty \/ Cardinality(faulty) < MaxFaulty
    /\ faulty' = faulty \cup {p}

\* Only the first attempt gives the key back when it raises.
Abort(a, first) ==
    /\ Faults(PidOf(a))
    /\ held' = IF thread[a] = first THEN held \ {PidOf(a)} ELSE held
    /\ Goto(a, "idle")
    /\ UNCHANGED process

OpenFails(a) ==
    /\ At(a, "create") \/ At(a, "recreate")
    /\ Abort(a, "create")
    /\ UNCHANGED file

\* Writing or syncing raises: the file stays, with or without its owner.
WriteFails(a) ==
    /\ At(a, "write") \/ At(a, "rewrite")
    /\ Abort(a, "write")
    /\ file' \in {file, Written(a)}

\* _try_reclaim_stale
IsFile(a) ==
    /\ At(a, "isfile")
    /\ Goto(a, IF file = NoFile THEN "recreate" ELSE "inspect")
    /\ UNCHANGED <<process, held, file, faulty>>

\* Reading and judging the file is one step: whatever changes while it is read,
\* the verdict is about a file that unlink may no longer find.
Inspect(a) ==
    /\ At(a, "inspect")
    /\ Goto(a, IF Stale THEN "unlink" ELSE "giveup")
    /\ UNCHANGED <<process, held, file, faulty>>

\* Whatever is at the path goes.
Unlink(a) ==
    /\ At(a, "unlink")
    /\ file' = NoFile
    /\ Goto(a, "recreate")
    /\ UNCHANGED <<process, held, faulty>>

\* Another process has the file open: the lock is refused.
UnlinkFails(a) ==
    /\ At(a, "unlink")
    /\ Faults(PidOf(a))
    /\ Goto(a, "giveup")
    /\ UNCHANGED <<process, held, file>>

\* Mutant: the refusal keeps the key.
GiveUpKeeping(a) ==
    /\ At(a, "giveup")
    /\ Goto(a, "idle")
    /\ UNCHANGED <<process, held, file, faulty>>

GiveUp(a) ==
    /\ At(a, "giveup")
    /\ held' = held \ {PidOf(a)}
    /\ Goto(a, "idle")
    /\ UNCHANGED <<process, file, faulty>>

\* Mutant: the file is left for the next owner to reclaim.
ReleaseKeeping(a) ==
    /\ At(a, "holding")
    /\ Goto(a, "discard")
    /\ UNCHANGED <<process, held, file, faulty>>

\* Whatever is at the path goes, whoever wrote it.
Release(a) ==
    /\ At(a, "holding")
    /\ file' = NoFile
    /\ Goto(a, "discard")
    /\ UNCHANGED <<process, held, faulty>>

ReleaseFails(a) ==
    /\ At(a, "holding")
    /\ Faults(PidOf(a))
    /\ Goto(a, "discard")
    /\ UNCHANGED <<process, held, file>>

Discard(a) ==
    /\ At(a, "discard")
    /\ held' = held \ {PidOf(a)}
    /\ Goto(a, "idle")
    /\ UNCHANGED <<process, file, faulty>>

Step(a) ==
    \/ Create(a) \/ OpenFails(a) \/ Write(a) \/ WriteFails(a)
    \/ IsFile(a) \/ Inspect(a) \/ Unlink(a) \/ UnlinkFails(a) \/ Recreate(a) \/ GiveUp(a)
    \/ Release(a) \/ ReleaseFails(a) \/ Discard(a)

-----------------------------------------------------------------------------
(* Processes.                                                               *)

Become(p, pc) == process' = [process EXCEPT ![p] = pc]

Launch(p) ==
    /\ process[p] = "off"
    /\ Cardinality({q \in Pids : Alive(q)}) < MaxAlive
    /\ Become(p, "listing")
    /\ UNCHANGED <<held, thread, file, faulty>>

\* clear_stale_project_locks, before any request is served
ClearList(p) ==
    /\ process[p] = "listing"
    /\ Become(p, IF file = NoFile THEN "up" ELSE "inspecting")
    /\ UNCHANGED <<held, thread, file, faulty>>

ClearInspect(p) ==
    /\ process[p] = "inspecting"
    /\ Become(p, IF Stale THEN "unlinking" ELSE "up")
    /\ UNCHANGED <<held, thread, file, faulty>>

ClearUnlink(p) ==
    /\ process[p] = "unlinking"
    /\ file' = NoFile
    /\ Become(p, "up")
    /\ UNCHANGED <<held, thread, faulty>>

\* Logged, and the file is left.
ClearUnlinkFails(p) ==
    /\ process[p] = "unlinking"
    /\ Faults(p)
    /\ Become(p, "up")
    /\ UNCHANGED <<held, thread, file>>

Clear(p) == ClearList(p) \/ ClearInspect(p) \/ ClearUnlink(p) \/ ClearUnlinkFails(p)

\* A kill: memory is gone, the file stays.
Die(p) ==
    /\ Alive(p)
    /\ Become(p, "dead")
    /\ held' = held \ {p}
    /\ thread' = [a \in Actors |-> IF PidOf(a) = p THEN "idle" ELSE thread[a]]
    /\ UNCHANGED <<file, faulty>>

Next ==
    \/ \E a \in Actors : Enter(a) \/ Step(a)
    \/ \E p \in Pids : Launch(p) \/ Clear(p) \/ Die(p)

Spec == Init /\ [][Next]_vars

\* A process that was started gets through its startup.
FairSpec == Spec /\ \A p \in Pids : WF_vars(Clear(p))

-----------------------------------------------------------------------------
(* Properties.                                                              *)

Holding == {a \in Actors : thread[a] = "holding"}

\* Threads of one process never hold the project together, whatever other
\* processes do to the file and whatever operation fails (_held, _guard).
OnePerProcess == \A a, b \in Holding : PidOf(a) = PidOf(b) => a = b

\* A project is never locked for nothing: a lock file of a live process has a
\* thread that holds it or is about to, unless a file operation of that process
\* failed (acquire, release).
FileHasOwner ==
    file # NoFile /\ Alive(PidOf(file.by)) /\ PidOf(file.by) \notin faulty =>
        thread[file.by] \in {"write", "rewrite", "holding"}

\* Nor is it refused inside a process for nothing: a key in _held belongs to a
\* thread at work, unless a file operation failed (every exit of acquire).
HeldHasOwner ==
    \A p \in held \ faulty : \E a \in Actors : PidOf(a) = p /\ thread[a] # "idle"

\* A process that starts clears what a killed one left, even a file the kill kept
\* from naming its owner, unless it cannot unlink it (clear_stale_project_locks).
StartupClears ==
    \A p, q \in Pids :
      /\ process[p] = "listing"
      /\ process[q] = "dead" /\ file # NoFile /\ PidOf(file.by) = q
      ~> process[p] = "dead" \/ p \in faulty \/ file = NoFile \/ PidOf(file.by) # q

-----------------------------------------------------------------------------
(* What the code says of itself and does not keep.                          *)

\* The lock is exclusive among all threads of all processes ("Non-blocking
\* in-process and cross-process lock for one project").
OneHolder == \A a, b \in Holding : a = b
=============================================================================

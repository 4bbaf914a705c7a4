----------------------------- MODULE SafeWrite -----------------------------
(***************************************************************************)
(* safeio.atomic_write_bytes: several calls, each in a process of its own, *)
(* publish their bytes at ONE output path while the rest of the system     *)
(* uses the same name, calls fail or are interrupted half way, and the     *)
(* machine may lose power.                                                 *)
(*                                                                         *)
(* A file is known by the call that wrote it, so the directory entry of    *)
(* the target names either a writer or one of the kinds in Foreign.  Two   *)
(* views of the disk are kept: what a process sees now (entry, data), and  *)
(* what a crash may leave (mayHold, synced).                               *)
(***************************************************************************)
EXTENDS Naturals, FiniteSets

CONSTANTS
  Writers,      \* calls of atomic_write_bytes on this path
  Forced,       \* those called with force=True
  InitDirs,     \* what the parent path may be at the start
  DirFsync,     \* the filesystem implements fsync on a directory
  FaultSets,    \* what may go wrong, in different environments: see FaultKinds
  EnvMayRemove, \* other programs remove entries, not only create them
  MaxEnvMoves,  \* bound on the moves of other programs
  MaxCrashes    \* bound on power losses

\* "os"      a system call of the write fails (ENOSPC, EIO, EACCES ...)
\* "dirsync" the fsync of the directory fails, which the code swallows
\* "unlink"  the removal of the temporary file fails
\* "signal"  KeyboardInterrupt is raised between two steps
FaultKinds == {"os", "dirsync", "unlink", "signal"}

Foreign == {"absent", "file", "symlink", "directory"}
Entries == Writers \cup Foreign
DirKinds == {"absent", "real", "unsafe"}   \* unsafe: a symlink or a file
Contents == {"none", "empty", "partial", "complete"}

ASSUME WritersAssumption == /\ Forced \subseteq Writers
                            /\ Writers \cap Foreign = {}
ASSUME SwitchAssumption == /\ InitDirs \subseteq DirKinds
                           /\ FaultSets \subseteq SUBSET FaultKinds
                           /\ DirFsync \in BOOLEAN
                           /\ EnvMayRemove \in BOOLEAN
ASSUME BoundAssumption == MaxEnvMoves \in Nat /\ MaxCrashes \in Nat

VARIABLES
  pc,        \* the next line each call is to execute
  dir,       \* what the parent path is
  dirSaved,  \* the parent directory existed before any of the calls
  entry,     \* what the target path names
  mayHold,   \* what it may name after a power loss
  temp,      \* the temporary file of the call has a name in the directory
  data,      \* what the call's own file holds
  synced,    \* its contents are on stable storage
  faults,    \* what may go wrong in this environment
  envMoves, crashes

vars == <<pc, dir, dirSaved, entry, mayHold, temp, data, synced,
          faults, envMoves, crashes>>
disk == <<dir, dirSaved, entry, mayHold>>
file == <<temp, data, synced>>
bounds == <<faults, envMoves, crashes>>

\* Control points before the temporary file exists, and while it may exist.
Early == {"ensure", "mkdir", "validate", "mkstemp"}
Late == {"write", "flush", "fsync", "revalidate", "publish", "unlink",
         "syncdir", "cleanup"}
Ended == {"done", "failed", "dead"}

TypeOK ==
  /\ pc \in [Writers -> Early \cup Late \cup Ended]
  /\ dir \in DirKinds
  /\ dirSaved \in BOOLEAN
  /\ entry \in Entries
  /\ mayHold \subseteq Entries
  /\ temp \in [Writers -> BOOLEAN]
  /\ data \in [Writers -> Contents]
  /\ synced \in [Writers -> BOOLEAN]
  /\ faults \subseteq FaultKinds
  /\ envMoves \in 0..MaxEnvMoves
  /\ crashes \in 0..MaxCrashes

Init ==
  /\ pc = [w \in Writers |-> "ensure"]
  /\ dir \in InitDirs
  /\ dirSaved = (dir = "real")
  /\ entry \in IF dir = "real" THEN Foreign ELSE {"absent"}
  /\ mayHold = {entry}
  /\ temp = [w \in Writers |-> FALSE]
  /\ data = [w \in Writers |-> "none"]
  /\ synced = [w \in Writers |-> FALSE]
  /\ faults \in FaultSets
  /\ envMoves = 0
  /\ crashes = 0

At(w, label) == pc[w] = label
Goto(w, label) == pc' = [pc EXCEPT ![w] = label]

\* Operators marked [bug] are what the code could plausibly have been; no
\* specification uses them.  They show that the properties can fail.

-----------------------------------------------------------------------------
(* Preparation: nothing exists yet that a failure would have to undo.      *)

\* ensure_private_dir up to the exists() test.
EnsureDir(w) ==
  /\ At(w, "ensure")
  /\ Goto(w, CASE dir = "unsafe" -> "failed"
               [] dir = "absent" -> "mkdir"
               [] OTHER          -> "validate")
  /\ UNCHANGED <<disk, file, bounds>>

\* mkdir() without exist_ok: the call that loses the race raises.
Mkdir(w) ==
  /\ At(w, "mkdir")
  /\ dir' = "real"
  /\ Goto(w, IF dir = "absent" THEN "validate" ELSE "failed")
  /\ UNCHANGED <<dirSaved, entry, mayHold, file, bounds>>

\* [bug] refuses while another call's temporary file is around.
AcceptableIfAlone(w) == entry = "absent" /\ \A v \in Writers : v # w => ~temp[v]

\* _validate_target accepts the name.
Acceptable(w) ==
  \/ entry = "absent"
  \/ w \in Forced /\ entry \in Writers \cup {"file"}

Validate(w) ==
  /\ At(w, "validate")
  /\ Goto(w, IF Acceptable(w) THEN "mkstemp" ELSE "failed")
  /\ UNCHANGED <<disk, file, bounds>>

-----------------------------------------------------------------------------
(* _write_temporary                                                        *)

Mkstemp(w) ==
  /\ At(w, "mkstemp")
  /\ temp' = [temp EXCEPT ![w] = TRUE]
  /\ data' = [data EXCEPT ![w] = "empty"]
  /\ Goto(w, "write")
  /\ UNCHANGED <<disk, synced, bounds>>

\* stream.write: part of the bytes may still be in the stream's buffer.
Write(w) ==
  /\ At(w, "write")
  /\ data' = [data EXCEPT ![w] = "partial"]
  /\ Goto(w, "flush")
  /\ UNCHANGED <<disk, temp, synced, bounds>>

Flush(w) ==
  /\ At(w, "flush")
  /\ data' = [data EXCEPT ![w] = "complete"]
  /\ Goto(w, "fsync")
  /\ UNCHANGED <<disk, temp, synced, bounds>>

\* [bug] the data are not synchronised before the name is given.
FsyncForgotten(w) ==
  /\ At(w, "fsync")
  /\ Goto(w, "revalidate")
  /\ UNCHANGED <<disk, file, bounds>>

Fsync(w) ==
  /\ At(w, "fsync")
  /\ synced' = [synced EXCEPT ![w] = TRUE]
  /\ Goto(w, "revalidate")
  /\ UNCHANGED <<disk, temp, data, bounds>>

-----------------------------------------------------------------------------
(* Publication                                                             *)

Revalidate(w) ==
  /\ At(w, "revalidate")
  /\ Goto(w, IF Acceptable(w) THEN "publish" ELSE "cleanup")
  /\ UNCHANGED <<disk, file, bounds>>

\* The name now denotes w's file; the old denotation may come back in a crash.
Install(w) ==
  /\ entry' = w
  /\ mayHold' = mayHold \cup {w}
  /\ UNCHANGED <<dir, dirSaved, data, synced, bounds>>

\* os.replace: takes whatever is there, a symlink too, but not a directory.
Replace(w) ==
  /\ At(w, "publish") /\ w \in Forced
  /\ entry # "directory"
  /\ Install(w)
  /\ temp' = [temp EXCEPT ![w] = FALSE]
  /\ Goto(w, "syncdir")

\* [bug] os.rename in place of os.link.
LinkByRename(w) ==
  /\ At(w, "publish") /\ w \notin Forced
  /\ entry # "directory"
  /\ Install(w)
  /\ Goto(w, "unlink")
  /\ UNCHANGED temp

\* os.link: fails when the name denotes anything at all.
Link(w) ==
  /\ At(w, "publish") /\ w \notin Forced
  /\ entry = "absent"
  /\ Install(w)
  /\ Goto(w, "unlink")
  /\ UNCHANGED temp

\* [bug] the refusal is raised outside the try, so finally does not run.
RefusedWithoutFinally(w) ==
  /\ At(w, "publish")
  /\ entry # "absent"
  /\ w \in Forced => entry = "directory"
  /\ Goto(w, "failed")
  /\ UNCHANGED <<disk, file, bounds>>

\* [bug] FileExistsError is taken to mean that the file is already written.
RefusedIsSuccess(w) ==
  /\ At(w, "publish")
  /\ entry # "absent"
  /\ w \in Forced => entry = "directory"
  /\ Goto(w, "unlink")
  /\ UNCHANGED <<disk, file, bounds>>

Refused(w) ==
  /\ At(w, "publish")
  /\ entry # "absent"
  /\ w \in Forced => entry = "directory"
  /\ Goto(w, "cleanup")
  /\ UNCHANGED <<disk, file, bounds>>

UnlinkTemp(w) ==
  /\ At(w, "unlink")
  /\ temp' = [temp EXCEPT ![w] = FALSE]
  /\ Goto(w, "syncdir")
  /\ UNCHANGED <<disk, data, synced, bounds>>

\* [bug] the directory is not synchronised.
SyncDirForgotten(w) ==
  /\ At(w, "syncdir")
  /\ Goto(w, "done")
  /\ UNCHANGED <<disk, file, bounds>>

\* _fsync_directory: an error is swallowed and the call still returns.  The
\* directory's own name in ITS parent is never synchronised.
SyncDir(w) ==
  /\ At(w, "syncdir")
  /\ \/ DirFsync /\ mayHold' = {entry} \cup (IF dirSaved THEN {} ELSE {"absent"})
     \/ (~DirFsync \/ "dirsync" \in faults) /\ UNCHANGED mayHold
  /\ Goto(w, "done")
  /\ UNCHANGED <<dir, dirSaved, entry, file, bounds>>

-----------------------------------------------------------------------------
(* Failure                                                                 *)

\* [bug] the handler removes the target, so that nothing half-written stays.
CleanupOfTarget(w) ==
  /\ At(w, "cleanup")
  /\ temp' = [temp EXCEPT ![w] = FALSE]
  /\ entry' = IF entry = "directory" THEN entry ELSE "absent"
  /\ mayHold' = mayHold \cup {entry'}
  /\ Goto(w, "failed")
  /\ UNCHANGED <<dir, dirSaved, data, synced, bounds>>

\* Both handlers, of _write_temporary and of atomic_write_bytes: unlink the
\* temporary file, ignore that it is gone already, raise.
Cleanup(w) ==
  /\ At(w, "cleanup")
  /\ temp' = [temp EXCEPT ![w] = FALSE]
  /\ Goto(w, "failed")
  /\ UNCHANGED <<disk, data, synced, bounds>>

CleanupFails(w) ==
  /\ At(w, "cleanup") /\ "unlink" \in faults
  /\ Goto(w, "failed")
  /\ UNCHANGED <<disk, file, bounds>>

\* [bug] an error after the temporary file exists reaches no handler we know.
OSFaultEscapes(w) ==
  /\ "os" \in faults
  /\ pc[w] \in Late /\ Goto(w, "raised")
  /\ UNCHANGED <<disk, file, bounds>>

\* Any system call raises; the one that synchronises the directory is SyncDir.
OSFault(w) ==
  /\ "os" \in faults
  /\ \/ pc[w] \in Early /\ Goto(w, "failed")
     \/ pc[w] \in Late \ {"syncdir", "cleanup"} /\ Goto(w, "cleanup")
  /\ UNCHANGED <<disk, file, bounds>>

\* An interrupt runs the handlers, except where none protects the temporary
\* file: before the first try of _write_temporary, after its return and
\* before the try of the caller, and inside a handler.
Signal(w) ==
  /\ "signal" \in faults
  /\ \/ pc[w] \in Early \cup {"write", "revalidate", "cleanup"} /\ Goto(w, "failed")
     \/ pc[w] \in Late \ {"cleanup"} /\ Goto(w, "cleanup")
  /\ UNCHANGED <<disk, file, bounds>>

\* Power loss: a call that had started is gone, names and contents that were
\* not synchronised may be old, and orphaned temporary files may survive.
Crash ==
  /\ crashes < MaxCrashes
  /\ crashes' = crashes + 1
  /\ pc' = [w \in Writers |-> IF pc[w] \in {"ensure"} \cup Ended THEN pc[w] ELSE "dead"]
  /\ entry' \in mayHold
  /\ mayHold' = {entry'} \cup (IF dirSaved THEN {} ELSE {"absent"})
  /\ dir' \in IF dirSaved \/ entry' # "absent" THEN {dir} ELSE {dir, "absent"}
  /\ temp' \in [Writers -> BOOLEAN]
  /\ \A w \in Writers : temp'[w] => temp[w] /\ dir' = "real"
  /\ data' \in [Writers -> Contents]
  /\ \A w \in Writers :
       IF synced[w] \/ data[w] = "none" THEN data'[w] = data[w]
                                        ELSE data'[w] \in {"empty", "partial", data[w]}
  /\ UNCHANGED <<dirSaved, synced, faults, envMoves>>

\* Another program creates or removes what the name denotes.
Environment ==
  /\ dir = "real"
  /\ envMoves < MaxEnvMoves
  /\ envMoves' = envMoves + 1
  /\ \/ entry = "absent" /\ entry' \in Foreign \ {"absent"}
     \/ EnvMayRemove /\ entry # "absent" /\ entry' = "absent"
  /\ mayHold' = mayHold \cup {entry'}
  /\ UNCHANGED <<pc, dir, dirSaved, file, faults, crashes>>

-----------------------------------------------------------------------------
Run(w) == \/ EnsureDir(w) \/ Mkdir(w) \/ Validate(w) \/ Mkstemp(w)
          \/ Write(w) \/ Flush(w) \/ Fsync(w) \/ Revalidate(w)
          \/ Replace(w) \/ Link(w) \/ Refused(w) \/ UnlinkTemp(w)
          \/ SyncDir(w) \/ Cleanup(w)
Fail(w) == CleanupFails(w) \/ OSFault(w) \/ Signal(w)

AllEnded == (\A w \in Writers : pc[w] \in Ended) /\ UNCHANGED vars

Next == \/ \E w \in Writers : Run(w) \/ Fail(w)
        \/ Crash \/ Environment \/ AllEnded

Spec == Init /\ [][Next]_vars
\* The operating system keeps running a process that is not waiting.
FairSpec == Spec /\ \A w \in Writers : WF_vars(Run(w))
-----------------------------------------------------------------------------
(* Properties                                                              *)

\* Whenever the target names a file some call wrote, all of its bytes are
\* there, also after a power loss at any instant: the temporary file is
\* flushed and fsynced before it gets the name.
NeverTorn == entry \in Writers => data[entry] = "complete"

\* A call without force gives the name its file only when the name was free
\* at that very instant, whatever happened since its two checks; no call ever
\* takes the name from a directory.  (A power loss may restore old names.)
TakesName(w) == entry # w /\ entry' = w /\ crashes' = crashes
NoClobber ==
  [][\A w \in Writers : TakesName(w) =>
        entry # "directory" /\ (w \in Forced \/ entry = "absent")]_vars

\* The circumstances in which the code can promise durability: the parent was
\* there before, its fsync works, and nobody else removes the file.
DurabilityHolds == /\ dirSaved /\ DirFsync /\ "dirsync" \notin faults
                   /\ ~EnvMayRemove

\* Once a call has returned, no power loss brings back what the name denoted
\* before it: the name denotes that call's file or a later forced one.
DurableWhenDone ==
  DurabilityHolds =>
    \A w \in Writers : At(w, "done") => mayHold \subseteq {w} \cup Forced

\* The temporary file, which holds the secret bytes under another name, is gone
\* when the call has returned, and when it has raised unless the removal itself
\* failed or an interrupt fell outside the handlers.
TempRemoved ==
  \A w \in Writers :
    /\ At(w, "done") => ~temp[w]
    /\ At(w, "failed") /\ {"unlink", "signal"} \cap faults = {} => ~temp[w]

\* Calls that race for a free name in a usable directory do not all refuse
\* because of each other: unless something else interferes, one of them returns
\* normally.
Interference == crashes > 0 \/ envMoves > 0
SomeoneWins ==
  faults = {} /\ entry = "absent" /\ dir # "unsafe" =>
    <>((\E w \in Writers : At(w, "done")) \/ Interference)

\* A call that raises while nothing fails and nobody interferes has a reason that
\* still stands: the parent is unsafe, the name is taken by something it may not
\* replace, or it lost the race to make the parent, and then another call is on
\* its way or has returned.  So calls never all raise because of each other.
Taken(w) == IF w \in Forced THEN entry \in {"symlink", "directory"} ELSE entry # "absent"
OnItsWay(w) == pc[w] \in {"validate", "mkstemp", "done"} \cup (Late \ {"cleanup"})
RefusedForAReason ==
  faults = {} /\ ~Interference =>
    \A w \in Writers : At(w, "failed") =>
      \/ dir = "unsafe"
      \/ Taken(w)
      \/ ~dirSaved /\ data[w] = "none" /\ \E v \in Writers : OnItsWay(v)

\* The promise of the function, as an abstract machine of one step per write.
\* An entry whose file is torn has no counterpart there.
Outcome(w) ==
  IF pc[w] = "done" THEN "ok"
  ELSE IF pc[w] \in {"unlink", "syncdir"} THEN "published"
  ELSE IF pc[w] \in {"cleanup", "failed", "dead"} THEN "error"
  ELSE "pending"

Publication == INSTANCE AtomicPublish WITH
  entry <- IF NeverTorn THEN entry ELSE "torn",
  result <- [w \in Writers |-> Outcome(w)]

\* Every behaviour of the code is one of the abstract machine: one step gives
\* the name, a call returns only after that step, and nothing else moves it.
ImplementsPublication == Publication!Spec
=============================================================================

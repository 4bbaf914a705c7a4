--------------------------- MODULE CeremonyProofs ---------------------------
(***************************************************************************)
(* Type correctness of Ceremony, and what a published bundle holds, for    *)
(* any number of builders, contents, corruptions, changes and crashes.     *)
(*                                                                         *)
(* OneIntactCopySuffices is not inductive: a bundle is right because every *)
(* step before took the right things from the copies.  The invariant says, *)
(* for each thing the builder holds, from which step on it is known and    *)
(* what it is; what comes from the copies is known while one is intact.    *)
(***************************************************************************)
EXTENDS Ceremony, TLAPS

\* The steps after a given one.
AfterExtract == (Holding \ {"extract"}) \cup {"published"}
AfterSnapshot == (Holding \ {"extract", "bind", "snapshot"}) \cup {"published"}
AfterVerify == {"trees", "name"} \cup Building \cup Assembling \cup {"published"}
AfterTrees == AfterVerify \ {"trees"}
AfterBuild == (Building \ {"build"}) \cup Assembling \cup {"published"}
AfterRelease == {"compare"} \cup Assembling \cup {"published"}
AfterWorld == {"release"} \cup AfterRelease
AfterCompare == Assembling \cup {"published"}
AfterRecord == AfterCompare \ {"record"}
AfterRuntime == AfterRecord \ {"runtime"}
AfterProject == AfterRuntime \ {"project"}
AfterDescribe == AfterProject \ {"describe"}

\* There are two copies, and after the snapshots they have wheels.
StagedInv(b) ==
  /\ pc[b] \in AfterExtract => \A i \in Copies : copy[b][i] \in Staged
  /\ pc[b] \in AfterSnapshot => \A i \in Copies : /\ copy[b][i].runtime \in Wheelhouses
                                                  /\ copy[b][i].build \in Wheelhouses

\* An intact copy is the reviewed one.
IntactInv(b) ==
  pc[b] \in AfterExtract => \A i \in Copies \ touched[b] :
    Tree(copy[b][i]) = [source |-> Reviewed, runtimeLock |-> Reviewed, buildLock |-> Reviewed]

\* What was taken from the copies while one was intact.
TakenInv(b) ==
  touched[b] # Copies =>
    /\ pc[b] \in AfterVerify => /\ records[b].runtime \in Approves[Reviewed]
                                /\ records[b].build \in Approves[Reviewed]
    /\ pc[b] \in AfterTrees => tree[b].source = Reviewed
    /\ pc[b] \in AfterTrees => \A i \in Copies : emitted[b][i] # None =>
         emitted[b][i].source = Reviewed /\ emitted[b][i].build \in Approves[Reviewed]
    /\ pc[b] \in AfterRelease => release[b] = Reviewed

\* The tools that built the wheels, when they are looked at for the last time.
ToolsInv(b) ==
  /\ tools = "approved" =>
       \A i \in Copies : emitted[b][i] # None => emitted[b][i].tools = "approved"
  /\ pc[b] \in AfterWorld => \A i \in Copies : emitted[b][i].tools = "approved"

\* What was assembled from it.
AssembledInv(b) ==
  /\ pc[b] \in Before \cup Staging \cup {"refused"} => \A i \in Copies : emitted[b][i] = None
  /\ pc[b] \in AfterBuild => \A i \in Copies : emitted[b][i] \in Wheels
  /\ pc[b] \in AfterCompare => /\ emitted[b][1] = emitted[b][2]
                               /\ b \notin late => wheel[b][1] = emitted[b][1]
  /\ pc[b] \in AfterRecord => /\ project[b] # Garbage
                              /\ b \notin late => project[b] = emitted[b][1]
  /\ pc[b] \in AfterRuntime => bundle[b].runtime = records[b].runtime
  /\ pc[b] \in AfterProject => bundle[b].wheel = project[b]
  /\ pc[b] \in AfterDescribe => bundle[b].release = release[b] /\ bundle[b].digest = emitted[b][1]
  /\ final = b => pc[b] = "published"

\* What is invariant of one builder, whatever the others do.
Local(b) == /\ StagedInv(b) /\ IntactInv(b) /\ TakenInv(b)
            /\ ToolsInv(b) /\ AssembledInv(b)

IInv == TypeOK /\ \A b \in Builders : Local(b)

\* What a step leaves alone when another builder takes it.
Alone(a) ==
  /\ pc'[a] = pc[a] /\ copy'[a] = copy[a] /\ records'[a] = records[a] /\ tree'[a] = tree[a]
  /\ wheel'[a] = wheel[a] /\ emitted'[a] = emitted[a] /\ release'[a] = release[a]
  /\ project'[a] = project[a] /\ bundle'[a] = bundle[a] /\ touched'[a] = touched[a]
  /\ a \in late' <=> a \in late

\* The steps that only look, and learn nothing that the invariant speaks of.
Look(b) == \/ BindLocks(b) \/ RequireFreeName(b) \/ RecheckLocks(b) \/ RecheckWheelhouses(b)
           \/ RecheckTrees(b) \/ RecheckWorld(b)

USE DEF AfterExtract, AfterSnapshot, AfterVerify, AfterTrees, AfterBuild, AfterWorld,
        AfterRelease, AfterCompare, AfterRecord, AfterRuntime, AfterProject, AfterDescribe,
        Before, Holding, Staging, Building, Assembling, Ended, At

-----------------------------------------------------------------------------
(* The invariant holds of every builder whose part of the state is left    *)
(* alone, and the lock follows the steps of its holder.                    *)

\* A builder that is left alone keeps its part of the invariant, unless it
\* gets the final name.
LEMMA AloneKeeps ==
  ASSUME NEW a \in Builders, Local(a), Alone(a), final' = a => final = a,
         tools' = tools
  PROVE  Local(a)'
<1>1. StagedInv(a)'
  BY DEF Local, StagedInv, Alone
<1>2. IntactInv(a)'
  BY DEF Local, IntactInv, Tree, Alone
<1>3. TakenInv(a)'
  BY DEF Local, TakenInv, Alone
<1>4. AssembledInv(a)'
  BY DEF Local, AssembledInv, Alone
<1>5. ToolsInv(a)'
  BY DEF Local, ToolsInv, Alone
<1>6. QED
  BY <1>1, <1>2, <1>3, <1>4, <1>5 DEF Local

\* A checked step goes on or ends the process, which frees the lock.
LEMMA CheckControl ==
  ASSUME ControlOK, NEW b \in Builders, NEW passes \in BOOLEAN, NEW next,
         Check(b, passes, next), pc[b] \in Holding, next \in Holding
  PROVE  /\ ControlOK'
         /\ pc'[b] \in {next, "failed"} /\ (pc'[b] = next => passes)
         /\ \A a \in Builders \ {b} : pc'[a] = pc[a]
<1>1. CASE passes
  BY <1>1 DEF ControlOK, Check, Holding, Staging, Building, Assembling, Ended
<1>2. CASE ~passes
  BY <1>2, BuildersAssumption DEF ControlOK, Check, Release, Holding, Staging, Building, Assembling, Ended
<1>3. QED
  BY <1>1, <1>2

\* Before the lock, there is nothing to free.
LEMMA CheckBefore ==
  ASSUME ControlOK, NEW b \in Builders, NEW passes \in BOOLEAN, NEW next,
         Check(b, passes, next), pc[b] \in Before, next \in Before
  PROVE  /\ ControlOK'
         /\ pc'[b] \in {next, "failed"}
         /\ \A a \in Builders \ {b} : pc'[a] = pc[a]
<1>1. CASE passes
  BY <1>1 DEF ControlOK, Check, Holding, Staging, Building, Assembling, Ended, Before
<1>2. CASE ~passes
  BY <1>2, BuildersAssumption DEF ControlOK, Check, Release, Holding, Staging, Building, Assembling, Ended, Before
<1>3. QED
  BY <1>1, <1>2

LEMMA LookKeeps ==
  ASSUME IInv, NEW b \in Builders, Look(b)
  PROVE  IInv'
<1>1. ControlOK /\ DataOK /\ WorldOK /\ \A a \in Builders : Local(a)
  BY DEF IInv, TypeOK, ControlOK, DataOK, WorldOK
<1>2. UNCHANGED <<own, final, world, bounds>>
  BY DEF Look, BindLocks, RequireFreeName, RecheckLocks, RecheckWheelhouses, RecheckTrees, RecheckWorld
<1>3. DataOK' /\ WorldOK'
  BY <1>1, <1>2 DEF DataOK, WorldOK, own, staging, outputs, assembly, world, bounds
<1>4. /\ ControlOK' /\ pc[b] \in Holding
      /\ \A a \in Builders \ {b} : pc'[a] = pc[a]
      /\ <<pc[b], pc'[b]>> \in {<<"bind", "snapshot">>, <<"name", "build">>, <<"locks", "wheels">>,
           <<"wheels", "recheck">>, <<"recheck", "world">>, <<"world", "release">>}
         \/ pc'[b] = "failed"
  <2>1. CASE BindLocks(b)
    BY <2>1, <1>1, CheckControl DEF BindLocks
  <2>2. CASE RequireFreeName(b)
    BY <2>2, <1>1, CheckControl DEF RequireFreeName
  <2>3. CASE RecheckLocks(b)
    BY <2>3, <1>1, CheckControl DEF RecheckLocks
  <2>4. CASE RecheckWheelhouses(b)
    BY <2>4, <1>1, CheckControl DEF RecheckWheelhouses
  <2>5. CASE RecheckTrees(b)
    BY <2>5, <1>1, CheckControl DEF RecheckTrees
  <2>6. CASE RecheckWorld(b)
    BY <2>6, <1>1, CheckControl DEF RecheckWorld
  <2>7. QED
    BY <2>1, <2>2, <2>3, <2>4, <2>5, <2>6 DEF Look
<1>5. Local(b)'
  <2>1. StagedInv(b)'
    BY <1>1, <1>2, <1>4 DEF Local, StagedInv, own, staging
  <2>2. IntactInv(b)'
    BY <1>1, <1>2, <1>4 DEF Local, IntactInv, own, staging, Tree
  <2>3. TakenInv(b)'
    BY <1>1, <1>2, <1>4 DEF Local, TakenInv, own, staging, assembly, outputs
  <2>4. AssembledInv(b)'
    BY <1>1, <1>2, <1>4 DEF Local, AssembledInv, own, staging, assembly, outputs
  <2>5. ToolsInv(b)'
    <3>1. pc'[b] = "release" => tools = "approved"
      BY <1>1 DEF Look, BindLocks, RequireFreeName, RecheckLocks, RecheckWheelhouses,
                  RecheckTrees, RecheckWorld, Check, ControlOK
    <3>2. \A i \in Copies : pc[b] = "world" => emitted[b][i] # None
      BY <1>1, ContentsAssumption DEF Local, AssembledInv, Files
    <3>3. QED
      BY <1>1, <1>2, <1>4, <3>1, <3>2 DEF Local, ToolsInv, own, outputs, world
  <2>6. QED
    BY <2>1, <2>2, <2>3, <2>4, <2>5 DEF Local
<1>6. \A a \in Builders \ {b} : Local(a)'
  BY <1>1, <1>2, <1>4, AloneKeeps DEF Alone, own, staging, outputs, assembly, world
<1>7. QED
  BY <1>3, <1>4, <1>5, <1>6 DEF IInv, TypeOK, ControlOK, DataOK, WorldOK

-----------------------------------------------------------------------------
(* A step of one builder, in parts.                                        *)
LEMMA Combine ==
  ASSUME IInv, NEW b \in Builders, ControlOK', DataOK', WorldOK', Local(b)', tools' = tools,
         \A a \in Builders \ {b} : Alone(a) /\ (final' = a => final = a)
  PROVE  IInv'
<1>1. \A a \in Builders \ {b} : Local(a)'
  BY AloneKeeps DEF IInv
<1>2. QED
  BY <1>1 DEF IInv, TypeOK, ControlOK, DataOK, WorldOK

LEMMA Parts == ASSUME IInv PROVE ControlOK /\ DataOK /\ WorldOK /\ \A a \in Builders : Local(a)
  BY DEF IInv, TypeOK, ControlOK, DataOK, WorldOK

\* Up to the lock there is nothing to know.
Arrive(b) == \/ ApproveTools(b) \/ SourceIdentity(b) \/ InspectEnvironment(b)
             \/ AcquireLock(b) \/ Retry(b)

LEMMA ArriveKeeps ==
  ASSUME IInv, NEW b \in Builders, Arrive(b)
  PROVE  IInv'
<1>1. ControlOK /\ DataOK /\ WorldOK /\ Local(b)
  BY Parts
<1>2. UNCHANGED <<own, final, world, bounds>>
  BY DEF Arrive, ApproveTools, SourceIdentity, InspectEnvironment, AcquireLock, Retry
<1>3. DataOK' /\ WorldOK'
  BY <1>1, <1>2 DEF DataOK, WorldOK, own, staging, outputs, assembly, world, bounds
<1>4. /\ ControlOK' /\ pc[b] \in Before \cup {"refused"}
      /\ \A a \in Builders \ {b} : pc'[a] = pc[a]
      /\ pc'[b] \in Before \cup {"extract", "refused", "failed"}
  <2>1. CASE ApproveTools(b)
    BY <2>1, <1>1, CheckBefore DEF ApproveTools
  <2>2. CASE SourceIdentity(b)
    BY <2>2, <1>1, CheckBefore DEF SourceIdentity
  <2>3. CASE InspectEnvironment(b)
    BY <2>3, <1>1, CheckBefore DEF InspectEnvironment
  <2>4. CASE AcquireLock(b)
    BY <2>4, <1>1, BuildersAssumption DEF AcquireLock, ControlOK
  <2>5. CASE Retry(b)
    BY <2>5, <1>1 DEF Retry, ControlOK
  <2>6. QED
    BY <2>1, <2>2, <2>3, <2>4, <2>5 DEF Arrive
<1>5. Local(b)'
  BY <1>1, <1>2, <1>4 DEF Local, StagedInv, IntactInv, TakenInv, AssembledInv,
                          ToolsInv, own, staging, outputs, assembly, world
<1>6. \A a \in Builders \ {b} : Alone(a) /\ (final' = a => final = a)
  BY <1>2, <1>4 DEF Alone, own, staging, outputs, assembly
<1>7. QED
  BY <1>1, <1>3, <1>4, <1>5, <1>6, <1>2, Combine DEF world

\* A builder that stops knows nothing any more.
LEMMA StopKeeps ==
  ASSUME IInv, NEW b \in Builders, Abort(b) \/ Crash(b)
  PROVE  IInv'
<1>1. ControlOK /\ DataOK /\ WorldOK /\ Local(b)
  BY Parts
<1>2. UNCHANGED <<own, final, world, faults, changes>>
  BY DEF Abort, Crash, bounds
<1>3. DataOK'
  BY <1>1, <1>2 DEF DataOK, own, staging, outputs, assembly
<1>4. WorldOK'
  <2>1. crashes' \in 0..MaxCrashes
    <3>1. CASE Abort(b)
      BY <1>1, <3>1 DEF WorldOK, Abort, bounds
    <3>2. CASE Crash(b)
      BY <1>1, <3>2, BoundAssumption DEF WorldOK, Crash
    <3>3. QED
      BY <3>1, <3>2
  <2>2. QED
    BY <1>1, <1>2, <2>1 DEF WorldOK, world
<1>5. /\ ControlOK' /\ pc[b] \in Before \cup Holding
      /\ \A a \in Builders \ {b} : pc'[a] = pc[a]
      /\ pc'[b] \in {"failed", "dead"}
  BY <1>1, BuildersAssumption DEF Abort, Crash, ControlOK, Check, Release
<1>6. Local(b)'
  BY <1>1, <1>2, <1>5 DEF Local, StagedInv, IntactInv, TakenInv, AssembledInv,
                          ToolsInv, own, staging, outputs, assembly, world
<1>7. \A a \in Builders \ {b} : Alone(a) /\ (final' = a => final = a)
  BY <1>2, <1>5 DEF Alone, own, staging, outputs, assembly
<1>8. QED
  BY <1>1, <1>3, <1>4, <1>5, <1>6, <1>7, <1>2, Combine DEF world

\* Both copies start as the reviewed sources.
LEMMA ExtractKeeps ==
  ASSUME IInv, NEW b \in Builders, Extract(b)
  PROVE  IInv'
<1>1. ControlOK /\ DataOK /\ WorldOK /\ Local(b)
  BY Parts
<1>2. /\ ControlOK' /\ pc[b] = "extract" /\ pc'[b] \in {"bind", "failed"}
      /\ \A a \in Builders \ {b} : pc'[a] = pc[a]
  BY <1>1, CheckControl DEF Extract
<1>3. DataOK' /\ WorldOK'
  <2>1. copy' \in [Builders -> [Copies -> Optional(Staged)]]
    BY <1>1, ContentsAssumption DEF Extract, DataOK, Staged, Optional
  <2>2. QED
    BY <1>1, <2>1 DEF Extract, DataOK, WorldOK, own, staging, outputs, assembly, world, bounds
<1>4. Local(b)'
  <2>1. StagedInv(b)'
    BY <1>1, <1>2, ContentsAssumption DEF Extract, DataOK, StagedInv, Staged, Optional
  <2>2. IntactInv(b)'
    BY <1>1, <1>2 DEF Extract, DataOK, IntactInv, Tree
  <2>3. TakenInv(b)'
    BY <1>1, <1>2 DEF Extract, DataOK, Local, TakenInv, own, staging, outputs, assembly
  <2>4. AssembledInv(b)'
    BY <1>1, <1>2 DEF Extract, DataOK, Local, AssembledInv, own, staging, outputs, assembly
  <2>5. ToolsInv(b)'
    BY <1>1, <1>2 DEF Extract, Local, ToolsInv, own, outputs, world
  <2>6. QED
    BY <2>1, <2>2, <2>3, <2>4, <2>5 DEF Local
<1>5. \A a \in Builders \ {b} : Alone(a) /\ (final' = a => final = a)
  BY <1>1, <1>2 DEF Extract, Alone, DataOK, own, staging, outputs, assembly
<1>6. QED
  BY <1>1, <1>2, <1>3, <1>4, <1>5, Combine DEF Extract, world

\* A snapshot adds wheels to a copy.
LEMMA SnapshotKeeps ==
  ASSUME IInv, NEW b \in Builders, Snapshot(b)
  PROVE  IInv'
<1>1. ControlOK /\ DataOK /\ WorldOK /\ Local(b)
  BY Parts
<1>2. /\ ControlOK' /\ pc[b] = "snapshot" /\ pc'[b] \in {"verify", "failed"}
      /\ \A a \in Builders \ {b} : pc'[a] = pc[a]
  BY <1>1, CheckControl DEF Snapshot
<1>3. PICK runtime \in [Copies -> Supplied], build \in [Copies -> Supplied] :
        copy' = [copy EXCEPT ![b] = [i \in Copies |->
                   [copy[b][i] EXCEPT !.runtime = runtime[i], !.build = build[i]]]]
  BY DEF Snapshot
<1>4. \A i \in Copies : copy[b][i] \in Staged
  BY <1>1, <1>2 DEF Local, StagedInv
<1>5. \A i \in Copies :
        copy'[b][i] = [copy[b][i] EXCEPT !.runtime = runtime[i], !.build = build[i]]
  BY <1>1, <1>3 DEF DataOK
<1>6. \A i \in Copies : /\ copy'[b][i] \in Staged /\ Tree(copy'[b][i]) = Tree(copy[b][i])
                         /\ copy'[b][i].runtime \in Wheelhouses
                         /\ copy'[b][i].build \in Wheelhouses
  <2>1. TAKE i \in Copies
  <2>2. runtime[i] \in Wheelhouses /\ build[i] \in Wheelhouses
    BY ContentsAssumption
  <2>3. copy'[b][i] = [source |-> copy[b][i].source, runtimeLock |-> copy[b][i].runtimeLock,
                       buildLock |-> copy[b][i].buildLock, runtime |-> runtime[i],
                       build |-> build[i]]
    BY <1>4, <1>5 DEF Staged
  <2>4. /\ copy[b][i].source \in Sources /\ copy[b][i].runtimeLock \in Sources
        /\ copy[b][i].buildLock \in Sources
    BY <1>4 DEF Staged
  <2>5. QED
    BY <2>2, <2>3, <2>4 DEF Staged, Optional, Tree
<1>7. DataOK' /\ WorldOK'
  <2>1. copy' \in [Builders -> [Copies -> Optional(Staged)]]
    BY <1>1, <1>3, <1>5, <1>6 DEF DataOK, Optional
  <2>2. QED
    BY <1>1, <2>1 DEF Snapshot, DataOK, WorldOK, outputs, assembly, world, bounds
<1>8. Local(b)'
  <2>1. StagedInv(b)'
    BY <1>6 DEF StagedInv
  <2>2. IntactInv(b)'
    BY <1>1, <1>2, <1>6 DEF Snapshot, Local, IntactInv
  <2>3. TakenInv(b)'
    BY <1>1, <1>2 DEF Snapshot, Local, TakenInv, outputs, assembly
  <2>4. AssembledInv(b)'
    BY <1>1, <1>2 DEF Snapshot, Local, AssembledInv, outputs, assembly
  <2>5. ToolsInv(b)'
    BY <1>1, <1>2 DEF Snapshot, Local, ToolsInv, outputs, world
  <2>6. QED
    BY <2>1, <2>2, <2>3, <2>4, <2>5 DEF Local
<1>9. \A a \in Builders \ {b} : Alone(a) /\ (final' = a => final = a)
  BY <1>1, <1>2 DEF Snapshot, Alone, DataOK, outputs, assembly
<1>10. QED
  BY <1>1, <1>2, <1>7, <1>8, <1>9, Combine DEF Snapshot, world

\* The inventory of both copies is that of the intact one.
LEMMA VerifyWheelhousesKeeps ==
  ASSUME IInv, NEW b \in Builders, VerifyWheelhouses(b)
  PROVE  IInv'
<1>1. ControlOK /\ DataOK /\ WorldOK /\ Local(b)
  BY Parts
<1>2. /\ ControlOK' /\ pc[b] = "verify" /\ pc'[b] \in {"trees", "failed"}
      /\ \A a \in Builders \ {b} : pc'[a] = pc[a]
  BY <1>1, CheckControl DEF VerifyWheelhouses
<1>3. touched[b] # Copies /\ pc'[b] = "trees" => /\ records'[b].runtime \in Approves[Reviewed]
                                                  /\ records'[b].build \in Approves[Reviewed]
  <2>1. SUFFICES ASSUME touched[b] # Copies, pc'[b] = "trees"
                 PROVE  /\ records'[b].runtime \in Approves[Reviewed]
                        /\ records'[b].build \in Approves[Reviewed]
    OBVIOUS
  <2>2. PICK i \in Copies : i \notin touched[b]
    BY <1>1, <2>1 DEF DataOK
  <2>3. Verified(copy[b][i]) /\ Inventory(copy[b][1]) = Inventory(copy[b][2])
    BY <1>1, <2>1 DEF VerifyWheelhouses, Check, ControlOK
  <2>4. copy[b][i].runtimeLock = Reviewed /\ copy[b][i].buildLock = Reviewed
    BY <1>1, <1>2, <2>2 DEF Local, IntactInv, Tree
  <2>5. records'[b] = Inventory(copy[b][i])
    BY <1>1, <2>3 DEF VerifyWheelhouses, DataOK, Copies
  <2>6. QED
    BY <2>3, <2>4, <2>5 DEF Verified, Inventory
<1>4. DataOK' /\ WorldOK'
  <2>1. copy[b][1].runtime \in Wheelhouses /\ copy[b][1].build \in Wheelhouses
    BY <1>1, <1>2 DEF Local, StagedInv, Copies
  <2>2. records' \in [Builders -> Optional([runtime : Wheelhouses, build : Wheelhouses])]
    BY <1>1, <2>1 DEF VerifyWheelhouses, DataOK, Inventory, Optional
  <2>3. QED
    BY <1>1, <2>2 DEF VerifyWheelhouses, DataOK, WorldOK, own, staging, outputs, assembly, world, bounds
<1>5. Local(b)'
  <2>1. StagedInv(b)'
    BY <1>1, <1>2 DEF VerifyWheelhouses, Local, StagedInv, own, staging
  <2>2. IntactInv(b)'
    BY <1>1, <1>2 DEF VerifyWheelhouses, Local, IntactInv, Tree, own, staging
  <2>3. TakenInv(b)'
    BY <1>1, <1>2, <1>3 DEF VerifyWheelhouses, DataOK, Local, TakenInv, own, staging, outputs, assembly
  <2>4. AssembledInv(b)'
    BY <1>1, <1>2, <1>3 DEF VerifyWheelhouses, DataOK, Local, AssembledInv, own, staging, outputs, assembly
  <2>5. ToolsInv(b)'
    BY <1>1, <1>2 DEF VerifyWheelhouses, Local, ToolsInv, own, outputs, world
  <2>6. QED
    BY <2>1, <2>2, <2>3, <2>4, <2>5 DEF Local
<1>6. \A a \in Builders \ {b} : Alone(a) /\ (final' = a => final = a)
  BY <1>1, <1>2 DEF VerifyWheelhouses, Alone, DataOK, own, staging, outputs, assembly
<1>7. QED
  BY <1>1, <1>2, <1>4, <1>5, <1>6, Combine DEF VerifyWheelhouses, world

\* So is the digest of the trees.
LEMMA CompareTreesKeeps ==
  ASSUME IInv, NEW b \in Builders, CompareTrees(b)
  PROVE  IInv'
<1>1. ControlOK /\ DataOK /\ WorldOK /\ Local(b)
  BY Parts
<1>2. /\ ControlOK' /\ pc[b] = "trees" /\ pc'[b] \in {"name", "failed"}
      /\ \A a \in Builders \ {b} : pc'[a] = pc[a]
  BY <1>1, CheckControl DEF CompareTrees
<1>3. touched[b] # Copies /\ pc'[b] = "name" => tree'[b].source = Reviewed
  <2>1. SUFFICES ASSUME touched[b] # Copies, pc'[b] = "name"
                 PROVE  tree'[b].source = Reviewed
    OBVIOUS
  <2>2. PICK i \in Copies : i \notin touched[b]
    BY <1>1, <2>1 DEF DataOK
  <2>3. Tree(copy[b][1]) = Tree(copy[b][2])
    BY <1>1, <2>1 DEF CompareTrees, Check, ControlOK
  <2>4. tree'[b] = Tree(copy[b][i])
    BY <1>1, <2>3 DEF CompareTrees, DataOK, Copies
  <2>5. QED
    BY <1>1, <1>2, <2>2, <2>4 DEF Local, IntactInv
<1>4. DataOK' /\ WorldOK'
  <2>1. copy[b][1] \in Staged
    BY <1>1, <1>2 DEF Local, StagedInv, Copies
  <2>2. Tree(copy[b][1]) \in [source : Sources, runtimeLock : Sources, buildLock : Sources]
    BY <2>1 DEF Staged, Tree
  <2>3. tree' \in [Builders -> Optional([source : Sources, runtimeLock : Sources,
                                         buildLock : Sources])]
    BY <1>1, <2>2 DEF CompareTrees, DataOK, Optional
  <2>4. QED
    BY <1>1, <2>3 DEF CompareTrees, DataOK, WorldOK, own, staging, outputs, assembly, world, bounds
<1>5. Local(b)'
  <2>1. StagedInv(b)'
    BY <1>1, <1>2 DEF CompareTrees, Local, StagedInv, own, staging
  <2>2. IntactInv(b)'
    BY <1>1, <1>2 DEF CompareTrees, Local, IntactInv, Tree, own, staging
  <2>3. TakenInv(b)'
    BY <1>1, <1>2, <1>3 DEF CompareTrees, DataOK, Local, TakenInv, AssembledInv,
       own, staging, outputs, assembly
  <2>4. AssembledInv(b)'
    BY <1>1, <1>2, <1>3 DEF CompareTrees, DataOK, Local, AssembledInv, own, staging, outputs, assembly
  <2>5. ToolsInv(b)'
    BY <1>1, <1>2 DEF CompareTrees, Local, ToolsInv, own, outputs, world
  <2>6. QED
    BY <2>1, <2>2, <2>3, <2>4, <2>5 DEF Local
<1>6. \A a \in Builders \ {b} : Alone(a) /\ (final' = a => final = a)
  BY <1>1, <1>2 DEF CompareTrees, Alone, DataOK, own, staging, outputs, assembly
<1>7. QED
  BY <1>1, <1>2, <1>4, <1>5, <1>6, Combine DEF CompareTrees, world

\* So are the installer and the documents.
LEMMA ReadReleaseFilesKeeps ==
  ASSUME IInv, NEW b \in Builders, ReadReleaseFiles(b)
  PROVE  IInv'
<1>1. ControlOK /\ DataOK /\ WorldOK /\ Local(b)
  BY Parts
<1>2. /\ ControlOK' /\ pc[b] = "release" /\ pc'[b] \in {"compare", "failed"}
      /\ \A a \in Builders \ {b} : pc'[a] = pc[a]
  BY <1>1, CheckControl DEF ReadReleaseFiles
<1>3. touched[b] # Copies /\ pc'[b] = "compare" => release'[b] = Reviewed
  <2>1. SUFFICES ASSUME touched[b] # Copies, pc'[b] = "compare"
                 PROVE  release'[b] = Reviewed
    OBVIOUS
  <2>2. PICK i \in Copies : i \notin touched[b]
    BY <1>1, <2>1 DEF DataOK
  <2>3. copy[b][1].source = copy[b][2].source
    BY <1>1, <2>1 DEF ReadReleaseFiles, Check, ControlOK
  <2>4. release'[b] = copy[b][i].source
    BY <1>1, <2>3 DEF ReadReleaseFiles, DataOK, Copies
  <2>5. QED
    BY <1>1, <1>2, <2>2, <2>4 DEF Local, IntactInv, Tree
<1>4. DataOK' /\ WorldOK'
  <2>1. copy[b][1].source \in Sources
    BY <1>1, <1>2 DEF Local, StagedInv, Copies, Staged
  <2>2. release' \in [Builders -> Optional(Sources)]
    BY <1>1, <2>1 DEF ReadReleaseFiles, DataOK, Optional
  <2>3. QED
    BY <1>1, <2>2 DEF ReadReleaseFiles, DataOK, WorldOK, own, staging, outputs, assembly, world, bounds
<1>5. Local(b)'
  <2>1. StagedInv(b)'
    BY <1>1, <1>2 DEF ReadReleaseFiles, Local, StagedInv, own, staging
  <2>2. IntactInv(b)'
    BY <1>1, <1>2 DEF ReadReleaseFiles, Local, IntactInv, Tree, own, staging
  <2>3. TakenInv(b)'
    BY <1>1, <1>2, <1>3 DEF ReadReleaseFiles, DataOK, Local, TakenInv, own, staging, outputs, assembly
  <2>4. AssembledInv(b)'
    BY <1>1, <1>2, <1>3 DEF ReadReleaseFiles, DataOK, Local, AssembledInv, own, staging, outputs, assembly
  <2>5. ToolsInv(b)'
    BY <1>1, <1>2 DEF ReadReleaseFiles, Local, ToolsInv, own, outputs, world
  <2>6. QED
    BY <2>1, <2>2, <2>3, <2>4, <2>5 DEF Local
<1>6. \A a \in Builders \ {b} : Alone(a) /\ (final' = a => final = a)
  BY <1>1, <1>2 DEF ReadReleaseFiles, Alone, DataOK, own, staging, outputs, assembly
<1>7. QED
  BY <1>1, <1>2, <1>4, <1>5, <1>6, Combine DEF ReadReleaseFiles, world

\* The wheels are what the containers reported.
LEMMA CompareWheelsKeeps ==
  ASSUME IInv, NEW b \in Builders, CompareWheels(b)
  PROVE  IInv'
<1>1. ControlOK /\ DataOK /\ WorldOK /\ Local(b)
  BY Parts
<1>2. /\ ControlOK' /\ pc[b] = "compare" /\ pc'[b] \in {"record", "failed"}
      /\ \A a \in Builders \ {b} : pc'[a] = pc[a]
  BY <1>1, CheckControl DEF CompareWheels
<1>3. pc'[b] = "record" => /\ \A i \in Copies : wheel[b][i] = emitted[b][i]
                           /\ wheel[b][1] = wheel[b][2]
  BY <1>1 DEF CompareWheels, Check, ControlOK
<1>4. DataOK' /\ WorldOK'
  BY <1>1 DEF CompareWheels, DataOK, WorldOK, own, staging, outputs, assembly, world, bounds
<1>5. Local(b)'
  <2>1. StagedInv(b)'
    BY <1>1, <1>2 DEF CompareWheels, Local, StagedInv, own, staging
  <2>2. IntactInv(b)'
    BY <1>1, <1>2 DEF CompareWheels, Local, IntactInv, Tree, own, staging
  <2>3. TakenInv(b)'
    BY <1>1, <1>2, <1>3 DEF CompareWheels, DataOK, Local, TakenInv, own, staging, outputs, assembly
  <2>4. AssembledInv(b)'
    <3>1. UNCHANGED <<emitted, wheel, late, project, bundle, records, release, final>>
      BY DEF CompareWheels, own, staging, outputs, assembly
    <3>2. AssembledInv(b)
      BY <1>1 DEF Local
    <3>3. CASE pc'[b] = "failed"
      BY <1>2, <3>1, <3>2, <3>3 DEF AssembledInv
    <3>4. CASE pc'[b] = "record"
      <4>1. wheel'[b][1] = emitted'[b][1] /\ emitted'[b][1] = emitted'[b][2]
        BY <1>3, <3>1, <3>4 DEF Copies
      <4> QED
        BY <1>2, <3>1, <3>2, <3>4, <4>1 DEF AssembledInv
    <3>5. QED
      BY <1>2, <3>3, <3>4
  <2>5. ToolsInv(b)'
    BY <1>1, <1>2 DEF CompareWheels, Local, ToolsInv, own, outputs, world
  <2>6. QED
    BY <2>1, <2>2, <2>3, <2>4, <2>5 DEF Local
<1>6. \A a \in Builders \ {b} : Alone(a) /\ (final' = a => final = a)
  BY <1>1, <1>2 DEF CompareWheels, Alone, DataOK, own, staging, outputs, assembly
<1>7. QED
  BY <1>1, <1>2, <1>4, <1>5, <1>6, Combine DEF CompareWheels, world

\* The wheel that is recorded is the one that was compared.
LEMMA InspectWheelKeeps ==
  ASSUME IInv, NEW b \in Builders, InspectWheel(b)
  PROVE  IInv'
<1>1. ControlOK /\ DataOK /\ WorldOK /\ Local(b)
  BY Parts
<1>2. /\ ControlOK' /\ pc[b] = "record" /\ pc'[b] \in {"runtime", "failed"}
      /\ \A a \in Builders \ {b} : pc'[a] = pc[a]
  BY <1>1, CheckControl DEF InspectWheel
<1>3. DataOK' /\ WorldOK'
  <2>1. wheel[b][1] \in Optional(Files)
    BY <1>1 DEF DataOK, Copies
  <2>2. project' \in [Builders -> Optional(Files)]
    BY <1>1, <2>1 DEF InspectWheel, DataOK
  <2>3. QED
    BY <1>1, <2>2 DEF InspectWheel, DataOK, WorldOK, own, staging, outputs, assembly, world, bounds
<1>4. Local(b)'
  <2>1. StagedInv(b)'
    BY <1>1, <1>2 DEF InspectWheel, Local, StagedInv, own, staging
  <2>2. IntactInv(b)'
    BY <1>1, <1>2 DEF InspectWheel, Local, IntactInv, Tree, own, staging
  <2>3. TakenInv(b)'
    BY <1>1, <1>2 DEF InspectWheel, DataOK, Local, TakenInv, own, staging, outputs, assembly
  <2>4. AssembledInv(b)'
    <3>1. /\ project'[b] = wheel[b][1] /\ late' = late
          /\ pc'[b] = "runtime" => wheel[b][1] # Garbage
      BY <1>1, <1>2 DEF InspectWheel, DataOK, Check, ControlOK
    <3>2. QED
      BY <1>1, <1>2, <3>1 DEF InspectWheel, Local, AssembledInv, own, staging, outputs, assembly
  <2>5. ToolsInv(b)'
    BY <1>1, <1>2 DEF InspectWheel, Local, ToolsInv, own, outputs, world
  <2>6. QED
    BY <2>1, <2>2, <2>3, <2>4, <2>5 DEF Local
<1>5. \A a \in Builders \ {b} : Alone(a) /\ (final' = a => final = a)
  BY <1>1, <1>2 DEF InspectWheel, Alone, DataOK, own, staging, outputs, assembly
<1>6. QED
  BY <1>1, <1>2, <1>3, <1>4, <1>5, Combine DEF InspectWheel, world

\* The wheels that are copied are those of the inventory.
LEMMA BundleRuntimeKeeps ==
  ASSUME IInv, NEW b \in Builders, BundleRuntime(b)
  PROVE  IInv'
<1>1. ControlOK /\ DataOK /\ WorldOK /\ Local(b)
  BY Parts
<1>2. /\ ControlOK' /\ pc[b] = "runtime" /\ pc'[b] \in {"project", "failed"}
      /\ \A a \in Builders \ {b} : pc'[a] = pc[a]
  BY <1>1, CheckControl DEF BundleRuntime
<1>3. pc'[b] = "project" => bundle'[b].runtime = records[b].runtime
  BY <1>1 DEF BundleRuntime, Check, ControlOK, DataOK
<1>4. DataOK' /\ WorldOK'
  <2>1. copy[b][1].runtime \in Wheelhouses
    BY <1>1, <1>2 DEF Local, StagedInv, Copies
  <2>2. bundle[b] \in
         [runtime : Optional(Wheelhouses), wheel : Optional(Files), release : Optional(Sources),
          lock : Optional(Sources), digest : Optional(Wheels)]
    BY <1>1 DEF DataOK
  <2>3. bundle'[b] \in
         [runtime : Optional(Wheelhouses), wheel : Optional(Files), release : Optional(Sources),
          lock : Optional(Sources), digest : Optional(Wheels)]
    BY <1>1, <2>1, <2>2 DEF BundleRuntime, DataOK, Optional
  <2>4. bundle' \in [Builders ->
         [runtime : Optional(Wheelhouses), wheel : Optional(Files), release : Optional(Sources),
          lock : Optional(Sources), digest : Optional(Wheels)]]
    BY <1>1, <2>3 DEF BundleRuntime, DataOK
  <2>5. QED
    BY <1>1, <2>4 DEF BundleRuntime, DataOK, WorldOK, own, staging, outputs, assembly, world, bounds
<1>5. Local(b)'
  <2>1. StagedInv(b)'
    BY <1>1, <1>2 DEF BundleRuntime, Local, StagedInv, own, staging
  <2>2. IntactInv(b)'
    BY <1>1, <1>2 DEF BundleRuntime, Local, IntactInv, Tree, own, staging
  <2>3. TakenInv(b)'
    BY <1>1, <1>2, <1>3 DEF BundleRuntime, DataOK, Local, TakenInv, own, staging, outputs, assembly
  <2>4. AssembledInv(b)'
    BY <1>1, <1>2, <1>3 DEF BundleRuntime, DataOK, Local, AssembledInv, own, staging, outputs, assembly
  <2>5. ToolsInv(b)'
    BY <1>1, <1>2 DEF BundleRuntime, Local, ToolsInv, own, outputs, world
  <2>6. QED
    BY <2>1, <2>2, <2>3, <2>4, <2>5 DEF Local
<1>6. \A a \in Builders \ {b} : Alone(a) /\ (final' = a => final = a)
  BY <1>1, <1>2 DEF BundleRuntime, Alone, DataOK, own, staging, outputs, assembly
<1>7. QED
  BY <1>1, <1>2, <1>4, <1>5, <1>6, Combine DEF BundleRuntime, world

\* The project wheel is copied from where it was compared.
LEMMA BundleProjectKeeps ==
  ASSUME IInv, NEW b \in Builders, BundleProject(b)
  PROVE  IInv'
<1>1. ControlOK /\ DataOK /\ WorldOK /\ Local(b)
  BY Parts
<1>2. /\ ControlOK' /\ pc[b] = "project" /\ pc'[b] \in {"describe", "failed"}
      /\ \A a \in Builders \ {b} : pc'[a] = pc[a]
  BY <1>1, CheckControl DEF BundleProject
<1>3. DataOK' /\ WorldOK'
  <2>1. wheel[b][1] \in Optional(Files)
    BY <1>1 DEF DataOK, Copies
  <2>2. bundle[b] \in
         [runtime : Optional(Wheelhouses), wheel : Optional(Files), release : Optional(Sources),
          lock : Optional(Sources), digest : Optional(Wheels)]
    BY <1>1 DEF DataOK
  <2>3. bundle'[b] \in
         [runtime : Optional(Wheelhouses), wheel : Optional(Files), release : Optional(Sources),
          lock : Optional(Sources), digest : Optional(Wheels)]
    BY <1>1, <2>1, <2>2 DEF BundleProject, DataOK
  <2>4. bundle' \in [Builders ->
         [runtime : Optional(Wheelhouses), wheel : Optional(Files), release : Optional(Sources),
          lock : Optional(Sources), digest : Optional(Wheels)]]
    BY <1>1, <2>3 DEF BundleProject, DataOK
  <2>5. QED
    BY <1>1, <2>4 DEF BundleProject, DataOK, WorldOK, own, staging, outputs, assembly, world, bounds
<1>4. Local(b)'
  <2>1. StagedInv(b)'
    BY <1>1, <1>2 DEF BundleProject, Local, StagedInv, own, staging
  <2>2. IntactInv(b)'
    BY <1>1, <1>2 DEF BundleProject, Local, IntactInv, Tree, own, staging
  <2>3. TakenInv(b)'
    BY <1>1, <1>2 DEF BundleProject, DataOK, Local, TakenInv, own, staging, outputs, assembly
  <2>4. AssembledInv(b)'
    <3>1. /\ bundle'[b] = [bundle[b] EXCEPT !.wheel = wheel[b][1]] /\ late' = late
          /\ pc'[b] = "describe" => wheel[b][1] = project[b]
      BY <1>1, <1>2 DEF BundleProject, DataOK, Check, ControlOK
    <3>2. bundle'[b].wheel = wheel[b][1] /\ bundle'[b].runtime = bundle[b].runtime
      BY <1>1, <3>1 DEF DataOK
    <3>3. QED
      BY <1>1, <1>2, <3>1, <3>2 DEF BundleProject, Local, AssembledInv, own, staging, outputs,
                                   assembly
  <2>5. ToolsInv(b)'
    BY <1>1, <1>2 DEF BundleProject, Local, ToolsInv, own, outputs, world
  <2>6. QED
    BY <2>1, <2>2, <2>3, <2>4, <2>5 DEF Local
<1>5. \A a \in Builders \ {b} : Alone(a) /\ (final' = a => final = a)
  BY <1>1, <1>2 DEF BundleProject, Alone, DataOK, own, staging, outputs, assembly
<1>6. QED
  BY <1>1, <1>2, <1>3, <1>4, <1>5, Combine DEF BundleProject, world

\* The digest is that of the wheel.
LEMMA DescribeKeeps ==
  ASSUME IInv, NEW b \in Builders, Describe(b)
  PROVE  IInv'
<1>1. ControlOK /\ DataOK /\ WorldOK /\ Local(b)
  BY Parts
<1>2. /\ ControlOK' /\ pc[b] = "describe" /\ pc'[b] \in {"publish", "failed"}
      /\ \A a \in Builders \ {b} : pc'[a] = pc[a]
  BY <1>1, CheckControl DEF Describe
<1>3. DataOK' /\ WorldOK'
  <2>1. /\ copy[b][1].runtimeLock \in Sources /\ emitted[b][1] \in Optional(Wheels)
        /\ release[b] \in Optional(Sources)
    BY <1>1, <1>2 DEF DataOK, Local, StagedInv, Copies, Staged
  <2>2. bundle[b] \in
         [runtime : Optional(Wheelhouses), wheel : Optional(Files), release : Optional(Sources),
          lock : Optional(Sources), digest : Optional(Wheels)]
    BY <1>1 DEF DataOK
  <2>3. bundle'[b] \in
         [runtime : Optional(Wheelhouses), wheel : Optional(Files), release : Optional(Sources),
          lock : Optional(Sources), digest : Optional(Wheels)]
    BY <1>1, <2>1, <2>2 DEF Describe, DataOK, Optional
  <2>4. bundle' \in [Builders ->
         [runtime : Optional(Wheelhouses), wheel : Optional(Files), release : Optional(Sources),
          lock : Optional(Sources), digest : Optional(Wheels)]]
    BY <1>1, <2>3 DEF Describe, DataOK
  <2>5. QED
    BY <1>1, <2>4 DEF Describe, DataOK, WorldOK, own, staging, outputs, assembly, world, bounds
<1>4. Local(b)'
  <2>1. StagedInv(b)'
    BY <1>1, <1>2 DEF Describe, Local, StagedInv, own, staging
  <2>2. IntactInv(b)'
    BY <1>1, <1>2 DEF Describe, Local, IntactInv, Tree, own, staging
  <2>3. TakenInv(b)'
    BY <1>1, <1>2 DEF Describe, DataOK, Local, TakenInv, own, staging, outputs, assembly
  <2>4. AssembledInv(b)'
    BY <1>1, <1>2 DEF Describe, DataOK, Local, AssembledInv, own, staging, outputs, assembly
  <2>5. ToolsInv(b)'
    BY <1>1, <1>2 DEF Describe, Local, ToolsInv, own, outputs, world
  <2>6. QED
    BY <2>1, <2>2, <2>3, <2>4, <2>5 DEF Local
<1>5. \A a \in Builders \ {b} : Alone(a) /\ (final' = a => final = a)
  BY <1>1, <1>2 DEF Describe, Alone, DataOK, own, staging, outputs, assembly
<1>6. QED
  BY <1>1, <1>2, <1>3, <1>4, <1>5, Combine DEF Describe, world

-----------------------------------------------------------------------------
\* A container builds from a copy whose digest is the one of the two trees.
LEMMA BuildOnceKeeps ==
  ASSUME IInv, NEW b \in Builders, BuildOnce(b)
  PROVE  IInv'
<1>1. ControlOK /\ DataOK /\ WorldOK /\ Local(b)
  BY Parts
<1> DEFINE i == IF emitted[b][1] = None THEN 1 ELSE 2
<1>2. /\ pc[b] = "build" /\ i \in Copies
      /\ UNCHANGED <<staging, assembly, touched, late, final, world, bounds>>
  BY DEF BuildOnce, Copies
<1>3. CASE /\ ~ContainerAccepts(b, copy[b][i])
           /\ Check(b, FALSE, "locks") /\ UNCHANGED outputs
  <2>1. /\ ControlOK' /\ pc'[b] = "failed"
        /\ \A a \in Builders \ {b} : pc'[a] = pc[a]
    BY <1>1, <1>2, <1>3, CheckControl DEF Check, ControlOK
  <2>2. DataOK' /\ WorldOK'
    BY <1>1, <1>2, <1>3 DEF DataOK, WorldOK, staging, outputs, assembly, world, bounds
  <2>3. Local(b)'
    BY <1>1, <1>2, <1>3, <2>1 DEF Local, StagedInv, IntactInv, TakenInv, ToolsInv, AssembledInv,
                                  staging, outputs, assembly, world
  <2>4. \A a \in Builders \ {b} : Alone(a) /\ (final' = a => final = a)
    BY <1>2, <1>3, <2>1 DEF Alone, staging, outputs, assembly
  <2>5. QED
    BY <1>1, <1>2, <2>1, <2>2, <2>3, <2>4, Combine DEF world
<1>4. CASE /\ ContainerAccepts(b, copy[b][i])
           /\ \E v \in Variants :
                LET built == [source |-> copy[b][i].source, build |-> copy[b][i].build,
                              tools |-> tools, variant |-> v]
                IN  /\ wheel' = [wheel EXCEPT ![b][i] = built]
                    /\ emitted' = [emitted EXCEPT ![b][i] = built]
           /\ Check(b, TRUE, IF i = 1 THEN "build" ELSE "locks")
  <2>1. PICK built \in [source : {copy[b][i].source}, build : {copy[b][i].build},
                        tools : {tools}, variant : Variants] :
          /\ wheel' = [wheel EXCEPT ![b][i] = built]
          /\ emitted' = [emitted EXCEPT ![b][i] = built]
    BY <1>4
  <2> HIDE DEF i
  <2>2. built \in Wheels
    <3>1. copy[b][i].source \in Sources /\ copy[b][i].build \in Wheelhouses
      BY <1>1, <1>2 DEF Local, StagedInv, Staged
    <3>2. QED
      BY <1>1, <3>1 DEF Wheels, WorldOK
  <2>3. /\ wheel' \in [Builders -> [Copies -> Optional(Files)]]
        /\ emitted' \in [Builders -> [Copies -> Optional(Wheels)]]
    BY <1>1, <1>2, <2>1, <2>2 DEF DataOK, Optional, Files
  <2>4. /\ emitted'[b] = [emitted[b] EXCEPT ![i] = built]
        /\ wheel'[b] = [wheel[b] EXCEPT ![i] = built]
        /\ \A a \in Builders \ {b} : emitted'[a] = emitted[a] /\ wheel'[a] = wheel[a]
    BY <1>1, <2>1 DEF DataOK
  <2>5. /\ \A j \in Copies : emitted'[b][j] = IF j = i THEN built ELSE emitted[b][j]
        /\ emitted'[b][i] = built
    BY <1>1, <1>2, <2>4 DEF DataOK
  <2>6. /\ ControlOK' /\ pc'[b] \in {"build", "locks"}
        /\ \A a \in Builders \ {b} : pc'[a] = pc[a]
    BY <1>1, <1>2, <1>4, CheckControl DEF Check, ControlOK
  <2>7. pc'[b] = "locks" => i = 2 /\ emitted[b][1] # None
    BY <1>1, <1>2, <1>4 DEF Check, ControlOK, i
  <2>8. DataOK' /\ WorldOK'
    BY <1>1, <1>2, <2>3 DEF DataOK, WorldOK, staging, assembly, world, bounds
  <2>9. Local(b)'
    <3>1. StagedInv(b)'
      BY <1>1, <1>2, <2>6 DEF Local, StagedInv, staging
    <3>2. IntactInv(b)'
      BY <1>1, <1>2, <2>6 DEF Local, IntactInv, Tree, staging
    <3>3. TakenInv(b)'
      <4>1. touched[b] # Copies => built.source = Reviewed /\ built.build \in Approves[Reviewed]
        BY <1>1, <1>2, <1>4 DEF Local, TakenInv, ContainerAccepts, Verified, Tree, i
      <4>2. QED
        BY <1>1, <1>2, <2>5, <2>6, <4>1 DEF Local, TakenInv, staging, assembly
    <3>4. ToolsInv(b)'
      BY <1>1, <1>2, <2>5, <2>6 DEF Local, ToolsInv, world
    <3>5. AssembledInv(b)'
      <4>1. pc'[b] = "locks" => \A j \in Copies : emitted'[b][j] \in Wheels
        BY <1>1, <2>2, <2>5, <2>7 DEF DataOK, Optional, Copies
      <4>2. final # b
        BY <1>1, <1>2 DEF Local, AssembledInv
      <4>3. QED
        BY <1>1, <1>2, <2>6, <4>1, <4>2 DEF Local, AssembledInv
    <3>6. QED
      BY <3>1, <3>2, <3>3, <3>4, <3>5 DEF Local
  <2>10. \A a \in Builders \ {b} : Alone(a) /\ (final' = a => final = a)
    BY <1>2, <2>4, <2>6 DEF Alone, staging, assembly
  <2>11. QED
    BY <1>1, <1>2, <2>6, <2>8, <2>9, <2>10, Combine DEF world
<1>5. QED
  BY <1>3, <1>4 DEF BuildOnce

\* What is published was complete.
LEMMA PublishKeeps ==
  ASSUME IInv, NEW b \in Builders, Publish(b)
  PROVE  IInv'
<1>1. ControlOK /\ DataOK /\ WorldOK /\ Local(b)
  BY Parts
<1>2. pc[b] = "publish" /\ UNCHANGED <<own, world, bounds>>
  BY DEF Publish
<1>3. /\ ControlOK' /\ pc'[b] \in {"published", "failed"}
      /\ \A a \in Builders \ {b} : pc'[a] = pc[a]
  BY <1>1, BuildersAssumption DEF Publish, Release, ControlOK
<1>4. /\ final' \in Builders \cup {"absent", "other"}
      /\ pc'[b] = "failed" => final' = final
      /\ \A a \in Builders \ {b} : final' = a => final = a
  BY <1>1 DEF Publish, WorldOK, ControlOK
<1>5. DataOK' /\ WorldOK'
  BY <1>1, <1>2, <1>4 DEF DataOK, WorldOK, own, staging, outputs, assembly, world, bounds
<1>6. Local(b)'
  <2>1. StagedInv(b)'
    BY <1>1, <1>2, <1>3 DEF Local, StagedInv, own, staging
  <2>2. IntactInv(b)'
    BY <1>1, <1>2, <1>3 DEF Local, IntactInv, Tree, own, staging
  <2>3. TakenInv(b)'
    BY <1>1, <1>2, <1>3 DEF Local, TakenInv, own, staging, outputs, assembly
  <2>4. ToolsInv(b)'
    BY <1>1, <1>2, <1>3 DEF Local, ToolsInv, own, outputs, world
  <2>5. AssembledInv(b)'
    BY <1>1, <1>2, <1>3, <1>4 DEF Local, AssembledInv, own, staging, outputs, assembly
  <2>6. QED
    BY <2>1, <2>2, <2>3, <2>4, <2>5 DEF Local
<1>7. \A a \in Builders \ {b} : Alone(a)
  BY <1>2, <1>3 DEF Alone, own, staging, outputs, assembly
<1>8. QED
  BY <1>1, <1>2, <1>3, <1>4, <1>5, <1>6, <1>7, Combine DEF world

-----------------------------------------------------------------------------
\* A corrupted copy is one that is not intact; what was taken stays.
LEMMA CorruptKeeps ==
  ASSUME IInv, NEW b \in Builders, NEW i \in Copies, Corrupt(b, i)
  PROVE  IInv'
<1>1. ControlOK /\ DataOK /\ WorldOK /\ Local(b)
  BY Parts
<1>2. /\ pc[b] \in Holding /\ copy[b][i] # None
      /\ touched' = [touched EXCEPT ![b] = @ \cup {i}]
      /\ UNCHANGED <<pc, records, tree, outputs, assembly, late, lock, final, world, changes, crashes>>
  BY DEF Corrupt
<1>3. copy[b][i] \in Staged
  BY <1>1, <1>2 DEF DataOK, Optional
<1>4. PICK c \in Staged : /\ copy' = [copy EXCEPT ![b][i] = c]
                          /\ copy[b][i].runtime \in Wheelhouses => c.runtime \in Wheelhouses
                          /\ copy[b][i].build \in Wheelhouses => c.build \in Wheelhouses
  <2>1. CASE \E f \in {"source", "runtimeLock", "buildLock"}, x \in Sources :
               copy' = [copy EXCEPT ![b][i] = [@ EXCEPT ![f] = x]]
    <3>1. PICK f \in {"source", "runtimeLock", "buildLock"}, x \in Sources :
            copy' = [copy EXCEPT ![b][i] = [@ EXCEPT ![f] = x]]
      BY <2>1
    <3> DEFINE c == [copy[b][i] EXCEPT ![f] = x]
    <3>2. c \in Staged /\ c.runtime = copy[b][i].runtime /\ c.build = copy[b][i].build
      <4>1. CASE f = "source"
        BY <1>3, <4>1 DEF Staged
      <4>2. CASE f = "runtimeLock"
        BY <1>3, <4>2 DEF Staged
      <4>3. CASE f = "buildLock"
        BY <1>3, <4>3 DEF Staged
      <4>4. QED
        BY <4>1, <4>2, <4>3
    <3>3. copy' = [copy EXCEPT ![b][i] = c]
      BY <3>1
    <3>4. QED
      BY <3>2, <3>3
  <2>2. CASE \E f \in {"runtime", "build"}, x \in Wheelhouses :
               copy' = [copy EXCEPT ![b][i] = [@ EXCEPT ![f] = x]]
    <3>1. PICK f \in {"runtime", "build"}, x \in Wheelhouses :
            copy' = [copy EXCEPT ![b][i] = [@ EXCEPT ![f] = x]]
      BY <2>2
    <3> DEFINE c == [copy[b][i] EXCEPT ![f] = x]
    <3>2. /\ c \in Staged
          /\ copy[b][i].runtime \in Wheelhouses => c.runtime \in Wheelhouses
          /\ copy[b][i].build \in Wheelhouses => c.build \in Wheelhouses
      <4>1. CASE f = "runtime"
        BY <1>3, <4>1 DEF Staged, Optional
      <4>2. CASE f = "build"
        BY <1>3, <4>2 DEF Staged, Optional
      <4>3. QED
        BY <4>1, <4>2
    <3>3. copy' = [copy EXCEPT ![b][i] = c]
      BY <3>1
    <3>4. QED
      BY <3>2, <3>3
  <2>3. QED
    BY <2>1, <2>2 DEF Corrupt
<1>5. /\ copy' \in [Builders -> [Copies -> Optional(Staged)]]
      /\ \A j \in Copies : copy'[b][j] = IF j = i THEN c ELSE copy[b][j]
      /\ touched'[b] = touched[b] \cup {i} /\ touched' \in [Builders -> SUBSET Copies]
  BY <1>1, <1>2, <1>4 DEF DataOK, Optional
<1>6. ControlOK'
  BY <1>1, <1>2 DEF ControlOK
<1>7. DataOK'
  BY <1>1, <1>2, <1>5 DEF DataOK, outputs, assembly
<1>8. WorldOK'
  <2>1. faults' \in 0..MaxFaults
    BY <1>1, BoundAssumption DEF Corrupt, WorldOK
  <2>2. QED
    BY <1>1, <1>2, <2>1 DEF WorldOK, world
<1>9. Local(b)'
  <2>1. StagedInv(b)'
    BY <1>1, <1>2, <1>4, <1>5 DEF Local, StagedInv
  <2>2. IntactInv(b)'
    BY <1>1, <1>2, <1>5 DEF Local, IntactInv, Tree
  <2>3. TakenInv(b)'
    BY <1>1, <1>2, <1>5 DEF Local, TakenInv, DataOK, outputs, assembly
  <2>4. ToolsInv(b)'
    BY <1>1, <1>2 DEF Local, ToolsInv, outputs, world
  <2>5. AssembledInv(b)'
    BY <1>1, <1>2 DEF Local, AssembledInv, outputs, assembly
  <2>6. QED
    BY <2>1, <2>2, <2>3, <2>4, <2>5 DEF Local
<1>10. \A a \in Builders \ {b} : Alone(a) /\ (final' = a => final = a)
  BY <1>1, <1>2, <1>4 DEF Alone, DataOK, outputs, assembly
<1>11. QED
  BY <1>2, <1>6, <1>7, <1>8, <1>9, <1>10, Combine DEF world

\* An exported wheel changes: before it is compared nothing was taken from it,
\* and a change of the first one after that is late.
LEMMA CorruptWheelKeeps ==
  ASSUME IInv, NEW b \in Builders, NEW i \in Copies, CorruptWheel(b, i)
  PROVE  IInv'
<1>1. ControlOK /\ DataOK /\ WorldOK /\ Local(b)
  BY Parts
<1>2. /\ pc[b] \in Building \cup Assembling
      /\ touched' = [touched EXCEPT ![b] = @ \cup {i}]
      /\ late' = IF i = 1 /\ pc[b] \in Assembling THEN late \cup {b} ELSE late
      /\ UNCHANGED <<pc, staging, emitted, assembly, lock, final, world, changes, crashes>>
  BY DEF CorruptWheel
<1>3. PICK x \in Files : wheel' = [wheel EXCEPT ![b][i] = x]
  BY DEF CorruptWheel, Files
<1>4. /\ touched'[b] = touched[b] \cup {i} /\ touched' \in [Builders -> SUBSET Copies]
      /\ wheel' \in [Builders -> [Copies -> Optional(Files)]]
      /\ late' \subseteq Builders
  BY <1>1, <1>2, <1>3 DEF DataOK, Optional
<1>5. ControlOK'
  BY <1>1, <1>2 DEF ControlOK
<1>6. DataOK'
  BY <1>1, <1>2, <1>4 DEF DataOK, staging, assembly
<1>7. WorldOK'
  <2>1. faults' \in 0..MaxFaults
    BY <1>1, BoundAssumption DEF CorruptWheel, WorldOK
  <2>2. QED
    BY <1>1, <1>2, <2>1 DEF WorldOK, world
<1>8. Local(b)'
  <2>1. StagedInv(b)'
    BY <1>1, <1>2 DEF Local, StagedInv, staging
  <2>2. IntactInv(b)'
    BY <1>1, <1>2, <1>4 DEF Local, IntactInv, Tree, staging
  <2>3. TakenInv(b)'
    BY <1>1, <1>2, <1>4 DEF Local, TakenInv, DataOK, staging, assembly
  <2>4. ToolsInv(b)'
    BY <1>1, <1>2 DEF Local, ToolsInv, world
  <2>5. AssembledInv(b)'
    <3>1. b \notin late' => b \notin late /\ (pc[b] \in AfterCompare => i # 1)
      BY <1>2
    <3>2. i # 1 => wheel'[b][1] = wheel[b][1]
      BY <1>1, <1>3 DEF DataOK, Copies
    <3>3. QED
      BY <1>1, <1>2, <3>1, <3>2 DEF Local, AssembledInv, staging, assembly
  <2>6. QED
    BY <2>1, <2>2, <2>3, <2>4, <2>5 DEF Local
<1>9. \A a \in Builders \ {b} : Alone(a) /\ (final' = a => final = a)
  BY <1>1, <1>2, <1>3 DEF Alone, DataOK, staging, assembly
<1>10. QED
  BY <1>2, <1>5, <1>6, <1>7, <1>8, <1>9, Combine DEF world

\* The tools are approved only if they always were.
LEMMA ChangeKeeps ==
  ASSUME IInv, Change
  PROVE  IInv'
<1>1. ControlOK /\ DataOK /\ WorldOK /\ \A a \in Builders : Local(a)
  BY Parts
<1>2. /\ UNCHANGED <<pc, own, lock, faults, crashes>>
      /\ tools' \in {tools, "other"} /\ head' \in {head, "other"}
      /\ final' \in {final, "other"}
  BY DEF Change, world
<1>3. ControlOK' /\ DataOK'
  BY <1>1, <1>2 DEF ControlOK, DataOK, own, staging, outputs, assembly
<1>4. WorldOK'
  <2>1. changes' \in 0..MaxChanges
    BY <1>1, BoundAssumption DEF Change, WorldOK
  <2>2. QED
    BY <1>1, <1>2, <2>1 DEF WorldOK
<1>5. ASSUME NEW a \in Builders
      PROVE  Local(a)'
  <2>1. Local(a) /\ Alone(a) /\ (final' = a => final = a)
    BY <1>1, <1>2, BuildersAssumption DEF Alone, own, staging, outputs, assembly
  <2>2. ToolsInv(a)'
    BY <1>2, <2>1 DEF Local, ToolsInv, Alone
  <2>3. StagedInv(a)' /\ IntactInv(a)' /\ TakenInv(a)' /\ AssembledInv(a)'
    BY <2>1 DEF Local, StagedInv, IntactInv, Tree, TakenInv, AssembledInv, Alone
  <2>4. QED
    BY <2>2, <2>3 DEF Local
<1>6. QED
  BY <1>3, <1>4, <1>5 DEF IInv, TypeOK, ControlOK, DataOK, WorldOK

-----------------------------------------------------------------------------
\* The inductive invariant of the ceremony.
LEMMA Invariance == Spec => []IInv
<1>1. Init => IInv
  <2>1. SUFFICES ASSUME Init PROVE IInv
    OBVIOUS
  <2>2. ControlOK
    BY <2>1, BuildersAssumption DEF Init, ControlOK
  <2>3. DataOK
    <3>1. NoBundle \in
            [runtime : Optional(Wheelhouses), wheel : Optional(Files),
             release : Optional(Sources), lock : Optional(Sources), digest : Optional(Wheels)]
      BY DEF NoBundle, Optional
    <3>2. QED
      BY <2>1, <3>1 DEF Init, DataOK, Optional
  <2>4. WorldOK
    BY <2>1, BoundAssumption DEF Init, WorldOK
  <2>5. \A b \in Builders : Local(b)
    BY <2>1, BuildersAssumption DEF Init, Local, StagedInv, IntactInv, TakenInv, ToolsInv,
                                    AssembledInv
  <2>6. QED
    BY <2>2, <2>3, <2>4, <2>5 DEF IInv, TypeOK, ControlOK, DataOK, WorldOK
<1>2. IInv /\ [Next]_vars => IInv'
  <2>1. SUFFICES ASSUME IInv, [Next]_vars PROVE IInv'
    OBVIOUS
  <2>2. ASSUME NEW b \in Builders, Step(b)
        PROVE  IInv'
    BY <2>1, <2>2, ArriveKeeps, LookKeeps, ExtractKeeps, SnapshotKeeps, VerifyWheelhousesKeeps,
       CompareTreesKeeps, BuildOnceKeeps, ReadReleaseFilesKeeps, CompareWheelsKeeps,
       InspectWheelKeeps, BundleRuntimeKeeps, BundleProjectKeeps, DescribeKeeps, PublishKeeps
       DEF Step, Arrive, Look
  <2>3. ASSUME NEW b \in Builders, Abort(b) \/ Crash(b)
        PROVE  IInv'
    BY <2>1, <2>3, StopKeeps
  <2>4. ASSUME NEW b \in Builders, NEW i \in Copies, Corrupt(b, i) \/ CorruptWheel(b, i)
        PROVE  IInv'
    BY <2>1, <2>4, CorruptKeeps, CorruptWheelKeeps
  <2>5. CASE Change
    BY <2>1, <2>5, ChangeKeeps
  <2>6. CASE UNCHANGED vars
    <3>1. TypeOK'
      BY <2>1, <2>6 DEF IInv, TypeOK, ControlOK, DataOK, WorldOK, vars, own, staging, outputs, assembly, world, bounds
    <3>2. \A a \in Builders : Alone(a) /\ (final' = a => final = a) /\ tools' = tools
      BY <2>6 DEF Alone, vars, own, staging, outputs, assembly, world
    <3>3. \A a \in Builders : Local(a)'
      BY <2>1, <3>2, AloneKeeps DEF IInv
    <3>4. QED
      BY <3>1, <3>3 DEF IInv
  <2>7. QED
    BY <2>1, <2>2, <2>3, <2>4, <2>5, <2>6 DEF Next, AllEnded
<1>3. QED
  BY <1>1, <1>2, PTL DEF Spec

\* Every variable has its type, and the output parent is locked by exactly the
\* builder at work below it.
THEOREM TypeCorrect == Spec => []TypeOK
<1>1. IInv => TypeOK
  BY DEF IInv
<1>2. QED
  BY <1>1, Invariance, PTL

\* One intact copy is enough for a bundle of reviewed contents, for any number
\* of corruptions at any moments.
THEOREM OneIntactCorrect == Spec => []OneIntactCopySuffices
<1>1. IInv => OneIntactCopySuffices
  <2>1. SUFFICES ASSUME IInv, NEW b \in Builders, final = b, touched[b] # Copies
                 PROVE  /\ bundle[b].release = Reviewed
                        /\ bundle[b].runtime \in Approves[Reviewed]
                        /\ bundle[b].digest.source = Reviewed
                        /\ bundle[b].digest.build \in Approves[Reviewed]
                        /\ bundle[b].digest = emitted[b][1] /\ bundle[b].digest = emitted[b][2]
                        /\ b \notin late => bundle[b].wheel = bundle[b].digest
    BY DEF OneIntactCopySuffices
  <2>2. pc[b] = "published" /\ TakenInv(b) /\ AssembledInv(b)
    BY <2>1 DEF IInv, Local, AssembledInv
  <2>3. \A i \in Copies : emitted[b][i] # None
    BY <2>2, ContentsAssumption DEF AssembledInv, Files
  <2>4. QED
    BY <2>1, <2>2, <2>3 DEF TakenInv, AssembledInv, Copies
<1>2. QED
  BY <1>1, Invariance, PTL

\* The provenance names the wheel that was built twice, and what is bundled in
\* its place can only have come after the comparison.
THEOREM ProvenanceCorrect == Spec => []ProvenanceTells
<1>1. IInv => ProvenanceTells
  BY DEF IInv, Local, AssembledInv, ProvenanceTells
<1>2. QED
  BY <1>1, Invariance, PTL

\* A published wheel was built by approved tools, however often they change.
THEOREM ToolsCorrect == Spec => []BuiltByApprovedTools
<1>1. IInv => BuiltByApprovedTools
  BY DEF IInv, Local, AssembledInv, ToolsInv, BuiltByApprovedTools
<1>2. QED
  BY <1>1, Invariance, PTL

\* Neither a builder nor another program's change takes over a name in use.
THEOREM NeverReplacesCorrect == Spec => NeverReplaces
<1>1. [Next]_vars => [final # "absent" => UNCHANGED final]_vars
  <2>1. SUFFICES ASSUME Next, final # "absent" PROVE UNCHANGED final
    BY DEF vars
  <2>2. ASSUME NEW b \in Builders, Step(b) PROVE UNCHANGED final
    BY <2>1, <2>2 DEF Step, ApproveTools, SourceIdentity, InspectEnvironment, AcquireLock, Extract,
       BindLocks, Snapshot, VerifyWheelhouses, CompareTrees, RequireFreeName, BuildOnce,
       RecheckLocks, RecheckWheelhouses, RecheckTrees, RecheckWorld, ReadReleaseFiles,
       CompareWheels, InspectWheel, BundleRuntime, BundleProject, Describe, Publish, Retry
  <2>3. QED
    BY <2>1, <2>2 DEF Next, Abort, Crash, Corrupt, CorruptWheel, Change, AllEnded, vars
<1>2. QED
  BY <1>1, PTL DEF Spec, NeverReplaces

-----------------------------------------------------------------------------
(* Without a disturbance.  What the steps look at again is what the steps   *)
(* before took down, so that no check fails but that of the name.           *)

Calm == Uneventful /\ Reproducible /\ tools = "approved" /\ final # "other"

\* The copies are the reviewed sources with wheels the operator supplied, the
\* records are those of the copies, and the wheels are as the containers left
\* them and come from just these inputs.
Plain(b) ==
  /\ touched[b] = {}
  /\ pc[b] \in AfterSnapshot => \A i \in Copies : copy[b][i].runtime \in Supplied
                                                  /\ copy[b][i].build \in Supplied
  /\ pc[b] \in AfterVerify => records[b] = Inventory(copy[b][1])
  /\ pc[b] \in AfterTrees => tree[b] = Tree(copy[b][1])
  /\ \A i \in Copies : emitted[b][i] # None =>
       /\ wheel[b][i] = emitted[b][i] /\ emitted[b][i] \in Wheels
       /\ emitted[b][i].source = Reviewed /\ emitted[b][i].build \in Supplied
       /\ emitted[b][i].tools = "approved"
  /\ pc[b] \in AfterRecord => project[b] = wheel[b][1]
  /\ pc[b] = "failed" => \E a \in Builders : pc[a] = "published"

CalmInv == Calm => head = "approved" /\ \A b \in Builders : Plain(b)

\* The two copies, from their snapshots on, and the two wheels agree.
LEMMA CopiesAgree ==
  ASSUME IInv, Calm, NEW b \in Builders, Plain(b), pc[b] \in AfterExtract
  PROVE  /\ \A i \in Copies : /\ Tree(copy[b][i]) = Tree(copy[b][1])
                              /\ copy[b][i].source = Reviewed
                              /\ copy[b][i].runtimeLock = Reviewed
                              /\ copy[b][i].buildLock = Reviewed
         /\ pc[b] \in AfterSnapshot => \A i \in Copies :
              Verified(copy[b][i]) /\ Inventory(copy[b][i]) = Inventory(copy[b][1])
<1>1. IntactInv(b) /\ touched[b] = {} /\ 1 \in Copies
  BY DEF IInv, Local, Plain, Copies
<1>2. \A i \in Copies :
        Tree(copy[b][i]) = [source |-> Reviewed, runtimeLock |-> Reviewed, buildLock |-> Reviewed]
  BY <1>1 DEF IntactInv
<1>3. \A i \in Copies : /\ copy[b][i].source = Reviewed
                        /\ copy[b][i].runtimeLock = Reviewed
                        /\ copy[b][i].buildLock = Reviewed
  BY <1>2 DEF Tree
<1>4. ASSUME pc[b] \in AfterSnapshot, NEW i \in Copies
      PROVE  Verified(copy[b][i]) /\ Inventory(copy[b][i]) = Inventory(copy[b][1])
  <2>1. /\ copy[b][i].runtime \in Supplied /\ copy[b][i].build \in Supplied
        /\ copy[b][1].runtime \in Supplied /\ copy[b][1].build \in Supplied
    BY <1>1, <1>4 DEF Plain
  <2>2. /\ copy[b][i].runtime = copy[b][1].runtime /\ copy[b][i].build = copy[b][1].build
        /\ Supplied \subseteq Approves[Reviewed]
    BY <2>1 DEF Calm, Reproducible
  <2> QED
    BY <1>3, <2>1, <2>2 DEF Verified, Inventory
<1> QED
  BY <1>1, <1>2, <1>3, <1>4

LEMMA WheelsAgree ==
  ASSUME IInv, Calm, NEW b \in Builders, Plain(b), pc[b] \in AfterBuild
  PROVE  /\ \A i \in Copies : wheel[b][i] = emitted[b][i]
         /\ wheel[b][1] = wheel[b][2] /\ wheel[b][1] \in Wheels
<1>1. \A i \in Copies : emitted[b][i] \in Wheels
  BY DEF IInv, Local, AssembledInv
<1>2. \A i \in Copies : /\ wheel[b][i] = emitted[b][i]
                        /\ emitted[b][i].source = Reviewed /\ emitted[b][i].build \in Supplied
                        /\ emitted[b][i].tools = "approved"
  BY <1>1, ContentsAssumption DEF Plain, Files
<1>3. 1 \in Copies /\ 2 \in Copies
  BY DEF Copies
<1>4. /\ emitted[b][1].source = emitted[b][2].source /\ emitted[b][1].build = emitted[b][2].build
      /\ emitted[b][1].tools = emitted[b][2].tools
      /\ emitted[b][1].variant = emitted[b][2].variant
  BY <1>1, <1>2, <1>3 DEF Calm, Reproducible, Wheels
<1>5. emitted[b][1] = emitted[b][2]
  BY <1>1, <1>3, <1>4 DEF Wheels
<1> QED
  BY <1>1, <1>2, <1>3, <1>5

\* No check fails of itself.
LEMMA NoCheckFails ==
  ASSUME IInv, Calm, head = "approved", NEW b \in Builders, Plain(b), Step(b)
  PROVE  pc'[b] = "failed" => final # "absent"
<1>1. ControlOK /\ Local(b)
  BY Parts
<1>2. \A i \in Copies : pc[b] \in AfterExtract =>
        /\ copy[b][i].runtimeLock = Reviewed /\ copy[b][i].buildLock = Reviewed
        /\ copy[b][i].source = Reviewed /\ Tree(copy[b][i]) = Tree(copy[b][1])
        /\ pc[b] \in AfterSnapshot =>
             Verified(copy[b][i]) /\ Inventory(copy[b][i]) = Inventory(copy[b][1])
  BY CopiesAgree
<1>3. 1 \in Copies /\ 2 \in Copies
  BY DEF Copies
<1>4. ASSUME NEW passes \in BOOLEAN, NEW next, next # "failed", Check(b, passes, next), passes
      PROVE  pc'[b] # "failed"
  BY <1>1, <1>4 DEF Check, ControlOK
<1>5. CASE ApproveTools(b)
  BY <1>4, <1>5 DEF ApproveTools, Calm
<1>6. CASE SourceIdentity(b)
  BY <1>4, <1>6 DEF SourceIdentity
<1>7. CASE InspectEnvironment(b)
  BY <1>4, <1>7 DEF InspectEnvironment, Calm
<1>8. CASE AcquireLock(b)
  BY <1>1, <1>8 DEF AcquireLock, ControlOK
<1>9. CASE Extract(b)
  BY <1>4, <1>9 DEF Extract
<1>10. CASE BindLocks(b)
  BY <1>2, <1>4, <1>10 DEF BindLocks
<1>11. CASE Snapshot(b)
  BY <1>4, <1>11 DEF Snapshot
<1>12. CASE VerifyWheelhouses(b)
  BY <1>2, <1>3, <1>4, <1>12 DEF VerifyWheelhouses
<1>13. CASE CompareTrees(b)
  BY <1>2, <1>3, <1>4, <1>13 DEF CompareTrees
<1>14. CASE RequireFreeName(b)
  BY <1>4, <1>14 DEF RequireFreeName
<1>15. CASE BuildOnce(b)
  <2>1. pc[b] = "build"
    BY <1>15 DEF BuildOnce
  <2>2. \A i \in Copies : ContainerAccepts(b, copy[b][i])
    BY <1>2, <2>1 DEF ContainerAccepts, Plain
  <2> DEFINE i == IF emitted[b][1] = None THEN 1 ELSE 2
  <2>3. Check(b, TRUE, IF i = 1 THEN "build" ELSE "locks")
    BY <1>3, <1>15, <2>2 DEF BuildOnce
  <2> QED
    BY <1>4, <2>3
<1>16. CASE RecheckLocks(b)
  BY <1>2, <1>4, <1>16 DEF RecheckLocks
<1>17. CASE RecheckWheelhouses(b)
  BY <1>2, <1>4, <1>17 DEF RecheckWheelhouses, Plain
<1>18. CASE RecheckTrees(b)
  BY <1>2, <1>4, <1>18 DEF RecheckTrees, Plain
<1>19. CASE RecheckWorld(b)
  BY <1>4, <1>19 DEF RecheckWorld, Calm
<1>20. CASE ReadReleaseFiles(b)
  BY <1>2, <1>3, <1>4, <1>20 DEF ReadReleaseFiles
<1>21. CASE CompareWheels(b)
  BY <1>4, <1>21, WheelsAgree DEF CompareWheels
<1>22. CASE InspectWheel(b)
  BY <1>4, <1>22, WheelsAgree, ContentsAssumption DEF InspectWheel
<1>23. CASE BundleRuntime(b)
  <2>1. /\ copy[b][1].runtime \in Approves[copy[b][1].runtimeLock]
        /\ records[b] = Inventory(copy[b][1])
    BY <1>2, <1>3, <1>23 DEF BundleRuntime, Plain, Verified
  <2>2. copy[b][1].runtime = records[b].runtime
    BY <2>1 DEF Inventory
  <2> QED
    BY <1>4, <1>23, <2>1, <2>2 DEF BundleRuntime
<1>24. CASE BundleProject(b)
  BY <1>4, <1>24 DEF BundleProject, Plain
<1>25. CASE Describe(b)
  BY <1>4, <1>25 DEF Describe
<1>26. CASE Publish(b)
  BY <1>1, <1>26 DEF Publish, ControlOK
<1>27. CASE Retry(b)
  BY <1>1, <1>27 DEF Retry, ControlOK
<1> QED
  BY <1>5, <1>6, <1>7, <1>8, <1>9, <1>10, <1>11, <1>12, <1>13, <1>14, <1>15, <1>16, <1>17,
     <1>18, <1>19, <1>20, <1>21, <1>22, <1>23, <1>24, <1>25, <1>26, <1>27 DEF Step

\* A calm ceremony was calm, and nothing but the builders moved.
LEMMA CalmStep ==
  ASSUME IInv, [Next]_vars, Calm'
  PROVE  /\ Calm /\ UNCHANGED world
         /\ UNCHANGED vars \/ \E b \in Builders : Step(b) \/ Crash(b)
<1>1. /\ ~MayFail /\ faults' = 0 /\ changes' = 0 /\ Reproducible
      /\ tools' = "approved" /\ final' # "other" /\ WorldOK
  BY DEF Calm, Uneventful, Reproducible, IInv, TypeOK, WorldOK
<1>2. \A b \in Builders : ~Abort(b)
  BY <1>1 DEF Abort
<1>3. \A b \in Builders, i \in Copies : ~Corrupt(b, i) /\ ~CorruptWheel(b, i)
  BY <1>1 DEF Corrupt, CorruptWheel, WorldOK
<1>4. ~Change
  BY <1>1 DEF Change, WorldOK
<1>5. UNCHANGED vars \/ \E b \in Builders : Step(b) \/ Crash(b)
  BY <1>2, <1>3, <1>4 DEF Next, AllEnded
<1>6. ASSUME NEW b \in Builders, Step(b)
      PROVE  UNCHANGED <<world, bounds>> /\ (final = "other" => final' = "other")
  BY <1>6 DEF Step, ApproveTools, SourceIdentity, InspectEnvironment, AcquireLock, Extract,
     BindLocks, Snapshot, VerifyWheelhouses, CompareTrees, RequireFreeName, BuildOnce,
     RecheckLocks, RecheckWheelhouses, RecheckTrees, RecheckWorld, ReadReleaseFiles,
     CompareWheels, InspectWheel, BundleRuntime, BundleProject, Describe, Publish, Retry
<1>7. ASSUME NEW b \in Builders, Crash(b) PROVE UNCHANGED <<world, faults, changes, final>>
  BY <1>7 DEF Crash
<1>8. UNCHANGED <<world, faults, changes>> /\ (final = "other" => final' = "other")
  BY <1>5, <1>6, <1>7 DEF vars, bounds
<1> QED
  BY <1>1, <1>5, <1>8 DEF Calm, Uneventful, world

\* A step of one builder is no step of another, and who has published stays so.
LEMMA StepAlone ==
  ASSUME IInv, NEW b \in Builders, Step(b), NEW a \in Builders, a # b
  PROVE  Alone(a)
<1>1. ControlOK /\ DataOK
  BY Parts
<1>2. pc'[a] = pc[a]
  BY <1>1 DEF ControlOK, Step, Check, ApproveTools, SourceIdentity, InspectEnvironment, AcquireLock,
     Extract, BindLocks, Snapshot, VerifyWheelhouses, CompareTrees, RequireFreeName, BuildOnce,
     RecheckLocks, RecheckWheelhouses, RecheckTrees, RecheckWorld, ReadReleaseFiles,
     CompareWheels, InspectWheel, BundleRuntime, BundleProject, Describe, Publish, Retry
<1>3. copy'[a] = copy[a] /\ records'[a] = records[a] /\ tree'[a] = tree[a]
  BY <1>1 DEF DataOK, own, staging, Step, ApproveTools, SourceIdentity, InspectEnvironment,
     AcquireLock,
     Extract, BindLocks, Snapshot, VerifyWheelhouses, CompareTrees, RequireFreeName, BuildOnce,
     RecheckLocks, RecheckWheelhouses, RecheckTrees, RecheckWorld, ReadReleaseFiles,
     CompareWheels, InspectWheel, BundleRuntime, BundleProject, Describe, Publish, Retry
<1>4. wheel'[a] = wheel[a] /\ emitted'[a] = emitted[a]
  BY <1>1 DEF DataOK, own, outputs, Step, ApproveTools, SourceIdentity, InspectEnvironment,
     AcquireLock,
     Extract, BindLocks, Snapshot, VerifyWheelhouses, CompareTrees, RequireFreeName, BuildOnce,
     RecheckLocks, RecheckWheelhouses, RecheckTrees, RecheckWorld, ReadReleaseFiles,
     CompareWheels, InspectWheel, BundleRuntime, BundleProject, Describe, Publish, Retry
<1>5. release'[a] = release[a] /\ project'[a] = project[a] /\ bundle'[a] = bundle[a]
  BY <1>1 DEF DataOK, own, assembly, Step, ApproveTools, SourceIdentity, InspectEnvironment,
     AcquireLock,
     Extract, BindLocks, Snapshot, VerifyWheelhouses, CompareTrees, RequireFreeName, BuildOnce,
     RecheckLocks, RecheckWheelhouses, RecheckTrees, RecheckWorld, ReadReleaseFiles,
     CompareWheels, InspectWheel, BundleRuntime, BundleProject, Describe, Publish, Retry
<1>6. UNCHANGED <<touched, late>>
  BY DEF own, Step, ApproveTools, SourceIdentity, InspectEnvironment, AcquireLock,
     Extract, BindLocks, Snapshot, VerifyWheelhouses, CompareTrees, RequireFreeName, BuildOnce,
     RecheckLocks, RecheckWheelhouses, RecheckTrees, RecheckWorld, ReadReleaseFiles,
     CompareWheels, InspectWheel, BundleRuntime, BundleProject, Describe, Publish, Retry
<1> QED
  BY <1>2, <1>3, <1>4, <1>5, <1>6 DEF Alone

LEMMA PublishedStays ==
  ASSUME IInv, NEW b \in Builders, Step(b) \/ Crash(b), NEW a \in Builders, pc[a] = "published"
  PROVE  pc'[a] = "published"
<1>1. ControlOK
  BY Parts
<1>2. pc[b] # "published"
  BY DEF Step, Crash, ApproveTools, SourceIdentity, InspectEnvironment, AcquireLock,
     Extract, BindLocks, Snapshot, VerifyWheelhouses, CompareTrees, RequireFreeName, BuildOnce,
     RecheckLocks, RecheckWheelhouses, RecheckTrees, RecheckWorld, ReadReleaseFiles,
     CompareWheels, InspectWheel, BundleRuntime, BundleProject, Describe, Publish, Retry
<1>3. CASE Step(b)
  BY <1>2, <1>3, StepAlone DEF Alone
<1>4. CASE Crash(b)
  BY <1>1, <1>2, <1>4 DEF Crash, ControlOK
<1> QED
  BY <1>3, <1>4

\* What is plain stays plain when others step.
LEMMA AlonePlain ==
  ASSUME NEW a \in Builders, Plain(a), Alone(a),
         \A c \in Builders : pc[c] = "published" => pc'[c] = "published"
  PROVE  Plain(a)'
BY DEF Plain, Alone, Inventory, Tree

\* The steps that learn nothing.
LEMMA IdlePlain ==
  ASSUME IInv, NEW b \in Builders, Plain(b), Arrive(b) \/ Look(b) \/ Describe(b) \/ Publish(b)
                                             \/ CompareWheels(b) \/ ReadReleaseFiles(b)
                                             \/ BundleRuntime(b) \/ BundleProject(b),
         pc'[b] # "failed"
  PROVE  Plain(b)'
<1>1. ControlOK /\ Local(b)
  BY Parts
<1>2. UNCHANGED <<copy, records, tree, wheel, emitted, project, touched>>
  BY DEF Arrive, Look, ApproveTools, SourceIdentity, InspectEnvironment, AcquireLock, Retry,
     BindLocks, RequireFreeName, RecheckLocks, RecheckWheelhouses, RecheckTrees, RecheckWorld,
     ReadReleaseFiles, CompareWheels, BundleRuntime, BundleProject, Describe, Publish,
     own, staging, outputs, assembly
<1>3. /\ pc'[b] \in AfterSnapshot => pc[b] \in AfterSnapshot
      /\ pc'[b] \in AfterVerify => pc[b] \in AfterVerify
      /\ pc'[b] \in AfterTrees => pc[b] \in AfterTrees
      /\ pc'[b] \in AfterRecord => pc[b] \in AfterRecord
  BY <1>1 DEF ControlOK, Check, Arrive, Look, ApproveTools, SourceIdentity, InspectEnvironment,
     AcquireLock, Retry,
     BindLocks, RequireFreeName, RecheckLocks, RecheckWheelhouses, RecheckTrees, RecheckWorld,
     ReadReleaseFiles, CompareWheels, BundleRuntime, BundleProject, Describe, Publish
<1> QED
  BY <1>2, <1>3 DEF Plain, Inventory, Tree

\* The steps that put something down.
LEMMA WorkPlain ==
  ASSUME IInv, Calm, NEW b \in Builders, Plain(b), pc'[b] # "failed",
         Extract(b) \/ Snapshot(b) \/ VerifyWheelhouses(b) \/ CompareTrees(b) \/ InspectWheel(b)
  PROVE  Plain(b)'
<1>1. ControlOK /\ DataOK /\ Local(b)
  BY Parts
<1>2. UNCHANGED <<wheel, emitted, touched>>
  BY DEF Extract, Snapshot, VerifyWheelhouses, CompareTrees, InspectWheel, outputs, staging
<1>3. CASE Extract(b)
  <2>1. pc'[b] = "bind"
    BY <1>1, <1>3 DEF Extract, Check, ControlOK
  <2> QED
    BY <1>2, <2>1 DEF Plain
<1>4. CASE Snapshot(b)
  <2>1. pc[b] = "snapshot" /\ pc'[b] = "verify"
    BY <1>1, <1>4 DEF Snapshot, Check, ControlOK
  <2>2. PICK runtime \in [Copies -> Supplied], build \in [Copies -> Supplied] :
          copy' = [copy EXCEPT ![b] = [i \in Copies |->
                     [copy[b][i] EXCEPT !.runtime = runtime[i], !.build = build[i]]]]
    BY <1>4 DEF Snapshot
  <2>3. \A i \in Copies :
          copy'[b][i] = [copy[b][i] EXCEPT !.runtime = runtime[i], !.build = build[i]]
    BY <1>1, <2>2 DEF DataOK
  <2>4. \A i \in Copies : copy[b][i] \in Staged
    BY <1>1, <2>1 DEF Local, StagedInv
  <2>5. \A i \in Copies : copy'[b][i].runtime \in Supplied /\ copy'[b][i].build \in Supplied
    BY <2>3, <2>4 DEF Staged
  <2> QED
    BY <1>2, <2>1, <2>5 DEF Plain
<1>5. CASE VerifyWheelhouses(b)
  <2>1. pc[b] = "verify" /\ pc'[b] = "trees" /\ UNCHANGED copy
    BY <1>1, <1>5 DEF VerifyWheelhouses, Check, ControlOK
  <2>2. records'[b] = Inventory(copy[b][1])
    BY <1>1, <1>5 DEF VerifyWheelhouses, DataOK
  <2> QED
    BY <1>2, <2>1, <2>2 DEF Plain, Inventory
<1>6. CASE CompareTrees(b)
  <2>1. pc[b] = "trees" /\ pc'[b] = "name" /\ UNCHANGED <<copy, records>>
    BY <1>1, <1>6 DEF CompareTrees, Check, ControlOK
  <2>2. tree'[b] = Tree(copy[b][1])
    BY <1>1, <1>6 DEF CompareTrees, DataOK
  <2> QED
    BY <1>2, <2>1, <2>2 DEF Plain, Inventory, Tree
<1>7. CASE InspectWheel(b)
  <2>1. pc[b] = "record" /\ pc'[b] = "runtime" /\ UNCHANGED staging
    BY <1>1, <1>7 DEF InspectWheel, Check, ControlOK
  <2>2. project'[b] = wheel[b][1]
    BY <1>1, <1>7 DEF InspectWheel, DataOK
  <2> QED
    BY <1>2, <2>1, <2>2 DEF Plain, Inventory, Tree, staging
<1> QED
  BY <1>3, <1>4, <1>5, <1>6, <1>7

LEMMA BuildPlain ==
  ASSUME IInv, Calm, NEW b \in Builders, Plain(b), pc'[b] # "failed", BuildOnce(b)
  PROVE  Plain(b)'
<1>1. ControlOK /\ DataOK /\ WorldOK /\ Local(b)
  BY Parts
<1> DEFINE i == IF emitted[b][1] = None THEN 1 ELSE 2
<1>2. /\ pc[b] = "build" /\ i \in Copies
      /\ UNCHANGED <<staging, assembly, touched>>
  BY DEF BuildOnce, Copies
<1>3. ~Check(b, FALSE, "locks")
  BY <1>1 DEF Check, ControlOK
<1>4. /\ Check(b, TRUE, IF i = 1 THEN "build" ELSE "locks")
      /\ \E v \in Variants :
           LET built == [source |-> copy[b][i].source, build |-> copy[b][i].build,
                         tools |-> tools, variant |-> v]
           IN  /\ wheel' = [wheel EXCEPT ![b][i] = built]
               /\ emitted' = [emitted EXCEPT ![b][i] = built]
  BY <1>3 DEF BuildOnce
<1>5. PICK built \in [source : {copy[b][i].source}, build : {copy[b][i].build},
                      tools : {tools}, variant : Variants] :
        /\ wheel' = [wheel EXCEPT ![b][i] = built]
        /\ emitted' = [emitted EXCEPT ![b][i] = built]
  BY <1>4
<1>6. pc'[b] \in {"build", "locks"}
  BY <1>1, <1>2, <1>4 DEF Check, ControlOK
<1> HIDE DEF i
<1>7. /\ built.source = Reviewed /\ built.build \in Supplied /\ built.tools = "approved"
      /\ built \in Wheels
  <2>1. copy[b][i].source = Reviewed
    BY <1>2, CopiesAgree
  <2>2. copy[b][i].build \in Supplied
    BY <1>2 DEF Plain
  <2>3. tools = "approved"
    BY DEF Calm
  <2> QED
    BY <2>1, <2>2, <2>3, ContentsAssumption DEF Wheels
<1>8. \A j \in Copies : /\ emitted'[b][j] = IF j = i THEN built ELSE emitted[b][j]
                        /\ wheel'[b][j] = IF j = i THEN built ELSE wheel[b][j]
  BY <1>1, <1>2, <1>5 DEF DataOK
<1> QED
  BY <1>2, <1>6, <1>7, <1>8 DEF Plain, Inventory, Tree, staging

LEMMA PlainStep ==
  ASSUME IInv, Calm, head = "approved", NEW b \in Builders, Step(b),
         \A a \in Builders : Plain(a)
  PROVE  \A a \in Builders : Plain(a)'
<1>1. \A a \in Builders : pc[a] = "published" => pc'[a] = "published"
  BY PublishedStays
<1>2. ASSUME NEW a \in Builders \ {b} PROVE Plain(a)'
  BY <1>1, StepAlone, AlonePlain
<1>3. ASSUME pc'[b] # "failed" PROVE Plain(b)'
  BY <1>3, IdlePlain, WorkPlain, BuildPlain DEF Step, Arrive, Look
<1>4. ASSUME pc'[b] = "failed" PROVE Plain(b)'
  <2>1. final # "absent" /\ final # "other" /\ WorldOK
    BY <1>4, NoCheckFails, Parts DEF Calm
  <2>2. final \in Builders /\ pc[final] = "published"
    BY <2>1 DEF WorldOK, IInv, Local, AssembledInv
  <2>3. pc'[final] = "published"
    BY <1>1, <2>2
  <2>4. UNCHANGED touched
    BY DEF own, Step, ApproveTools, SourceIdentity, InspectEnvironment, AcquireLock,
       Extract, BindLocks, Snapshot, VerifyWheelhouses, CompareTrees, RequireFreeName, BuildOnce,
       RecheckLocks, RecheckWheelhouses, RecheckTrees, RecheckWorld, ReadReleaseFiles,
       CompareWheels, InspectWheel, BundleRuntime, BundleProject, Describe, Publish, Retry
  <2>5. UNCHANGED <<wheel, emitted>>
    <3>1. ~BuildOnce(b) => UNCHANGED <<wheel, emitted>>
      BY DEF own, outputs, Step, ApproveTools, SourceIdentity, InspectEnvironment, AcquireLock,
       Extract, BindLocks, Snapshot, VerifyWheelhouses, CompareTrees, RequireFreeName,
       RecheckLocks, RecheckWheelhouses, RecheckTrees, RecheckWorld, ReadReleaseFiles,
       CompareWheels, InspectWheel, BundleRuntime, BundleProject, Describe, Publish, Retry
    <3>2. BuildOnce(b) => UNCHANGED <<wheel, emitted>>
      BY <1>4, Parts DEF BuildOnce, Check, ControlOK, outputs
    <3> QED
      BY <3>1, <3>2
  <2> QED
    BY <1>4, <2>2, <2>3, <2>4, <2>5 DEF Plain
<1> QED
  BY <1>2, <1>3, <1>4

LEMMA CrashPlain ==
  ASSUME IInv, NEW b \in Builders, Crash(b), \A a \in Builders : Plain(a)
  PROVE  \A a \in Builders : Plain(a)'
<1>1. \A a \in Builders : pc[a] = "published" => pc'[a] = "published"
  BY PublishedStays
<1>2. ControlOK
  BY Parts
<1>3. UNCHANGED own /\ pc'[b] = "dead" /\ \A a \in Builders \ {b} : pc'[a] = pc[a]
  BY <1>2 DEF Crash, ControlOK
<1>4. ASSUME NEW a \in Builders \ {b} PROVE Plain(a)'
  BY <1>1, <1>3, AlonePlain DEF Alone, own, staging, outputs, assembly
<1>5. Plain(b)'
  BY <1>3 DEF Plain, own, staging, outputs, assembly
<1> QED
  BY <1>4, <1>5

LEMMA CalmInvStep == ASSUME IInv, CalmInv, [Next]_vars PROVE CalmInv'
<1> SUFFICES ASSUME Calm' PROVE head' = "approved" /\ \A a \in Builders : Plain(a)'
  BY DEF CalmInv
<1>1. /\ Calm /\ UNCHANGED world
      /\ UNCHANGED vars \/ \E b \in Builders : Step(b) \/ Crash(b)
  BY CalmStep
<1>2. head = "approved" /\ \A a \in Builders : Plain(a)
  BY <1>1 DEF CalmInv
<1>3. head' = "approved"
  BY <1>1, <1>2 DEF world
<1>4. CASE UNCHANGED vars
  <2>1. \A a \in Builders : Plain(a)'
    BY <1>2, <1>4, AlonePlain DEF Alone, vars, own, staging, outputs, assembly
  <2> QED
    BY <1>3, <2>1
<1> QED
  BY <1>1, <1>2, <1>3, <1>4, PlainStep, CrashPlain

\* On an approved host that nobody changes, with one approved wheelhouse and a
\* reproducible build, no check of the sequence stops a ceremony: for any number
\* of builders and kills, one that failed has been beaten to the name.
THEOREM FailsOnlyBeatenCorrect == Spec => []FailsOnlyBeaten
<1>1. Init => CalmInv
  BY DEF Init, CalmInv, Plain
<1>2. CalmInv => FailsOnlyBeaten
  BY DEF CalmInv, Calm, Plain, FailsOnlyBeaten
<1> QED
  BY <1>1, <1>2, CalmInvStep, Invariance, PTL DEF Spec
=============================================================================

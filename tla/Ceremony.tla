------------------------------ MODULE Ceremony ------------------------------
(***************************************************************************)
(* The two-build release ceremony, scripts/build-offline-bundle.py: check  *)
(* the tools and the reviewed commit, take the lock of the output parent,  *)
(* stage two independent copies of the sources and the wheels, build each  *)
(* in a container of its own (scripts/container-build-wheel.py), check     *)
(* everything again, compare the two wheels, assemble the bundle and give  *)
(* it its name.                                                            *)
(*                                                                         *)
(* A file or directory is known by its contents and a digest is ideal, so  *)
(* that comparing digests is comparing contents.  A step of the model      *)
(* reads a staged item at most once; corruptions of different items        *)
(* commute, so nothing is lost by reading the items of a step together.    *)
(* The arguments are those the operator approved; what the program looks   *)
(* at once and never again (account, platform, names and tags of wheels)   *)
(* is one more reason to fail.                                             *)
(***************************************************************************)
EXTENDS Naturals

CONSTANTS
  Builders,    \* invocations with the same output parent
  Sources,     \* contents of a source tree or of a hash lock
  Reviewed,    \* those of the approved commit
  Wheelhouses, \* contents of a directory of wheels
  Approves,    \* the wheelhouses that a lock of some contents approves
  Supplied,    \* what the operator's wheelhouses may hold when they are read
  Variants,    \* what the bytes of a wheel depend on besides its inputs
  Garbage,     \* a wheel file that cannot be inspected
  Bent,        \* one that can, but that no build has written
  Nobody, None,
  MayFail,     \* commands and system calls fail, or are interrupted
  MaxFaults,   \* bound on corruptions of staged files
  MaxChanges,  \* bound on changes of the host and the output parent
  MaxCrashes   \* bound on builders killed

Copies == {1, 2}
Wheels == [source : Sources, build : Wheelhouses, tools : {"approved", "other"},
           variant : Variants]
Files == Wheels \cup {Garbage, Bent}
Optional(S) == S \cup {None}
Staged == [source : Sources, runtimeLock : Sources, buildLock : Sources,
           runtime : Optional(Wheelhouses), build : Optional(Wheelhouses)]

ASSUME ContentsAssumption ==
  /\ Reviewed \in Sources /\ Supplied \subseteq Wheelhouses
  /\ Approves \in [Sources -> SUBSET Wheelhouses]
  /\ None \notin Sources \cup Wheelhouses \cup Files \cup Staged
  /\ Garbage \notin Wheels /\ Bent \notin Wheels /\ Garbage # Bent
ASSUME BuildersAssumption == /\ {"absent", "other"} \cap Builders = {}
                             /\ Nobody \notin Builders
ASSUME BoundAssumption == /\ MaxFaults \in Nat /\ MaxChanges \in Nat
                          /\ MaxCrashes \in Nat /\ MayFail \in BOOLEAN

VARIABLES
  pc,         \* where each builder is
  copy,       \* the two staged copies, below its temporary directory
  records,    \* its inventory of the verified wheelhouses
  tree,       \* its digest of the two source trees
  wheel,      \* the wheel files exported by the two containers
  emitted,    \* the digests that the containers reported
  release,    \* the installer and documents it has read
  project,    \* its record of the project wheel
  bundle,     \* what it has put into the bundle
  lock,       \* who holds the flock of the output parent
  final,      \* whose bundle bears the final name
  head,       \* the checked-out repository: at the approved commit and clean?
  tools,      \* the executables, configuration and image of the host
  touched,    \* history: the copies of each builder that were corrupted
  late,       \* history: builders whose first wheel changed after it was compared
  faults, changes, crashes

staging == <<copy, records, tree>>
outputs == <<wheel, emitted>>
assembly == <<release, project, bundle>>
world == <<head, tools>>
bounds == <<faults, changes, crashes>>
own == <<staging, outputs, assembly, touched, late>>
vars == <<pc, own, lock, final, world, bounds>>

Before == {"tools", "source", "inspect", "lock"}
Staging == {"extract", "bind", "snapshot", "verify", "trees", "name"}
Building == {"build", "locks", "wheels", "recheck", "world", "release", "compare"}
Assembling == {"record", "runtime", "project", "describe", "publish"}
Holding == Staging \cup Building \cup Assembling
Ended == {"published", "failed", "dead"}

NoBundle == [runtime |-> None, wheel |-> None, release |-> None, lock |-> None, digest |-> None]

Tree(c) == [source |-> c.source, runtimeLock |-> c.runtimeLock, buildLock |-> c.buildLock]

Init ==
  /\ pc = [b \in Builders |-> "tools"]
  /\ copy = [b \in Builders |-> [i \in Copies |-> None]]
  /\ records = [b \in Builders |-> None] /\ tree = [b \in Builders |-> None]
  /\ wheel = [b \in Builders |-> [i \in Copies |-> None]]
  /\ emitted = [b \in Builders |-> [i \in Copies |-> None]]
  /\ release = [b \in Builders |-> None] /\ project = [b \in Builders |-> None]
  /\ bundle = [b \in Builders |-> NoBundle]
  /\ lock = Nobody /\ final \in {"absent", "other"}
  /\ head = "approved" /\ tools \in {"approved", "other"}
  /\ touched = [b \in Builders |-> {}] /\ late = {}
  /\ faults = 0 /\ changes = 0 /\ crashes = 0

-----------------------------------------------------------------------------
At(b, label) == pc[b] = label
Release(b) == lock' = IF lock = b THEN Nobody ELSE lock

\* Go on to the next step, or fail, which ends the process.
Check(b, passes, next) ==
  /\ pc' = [pc EXCEPT ![b] = IF passes THEN next ELSE "failed"]
  /\ IF passes THEN UNCHANGED lock ELSE Release(b)

\* Operators marked [bug] are what the code could plausibly have been; no
\* specification uses them.  They show that the properties can fail.

\* Git and Python are the approved executables.
ApproveTools(b) ==
  /\ At(b, "tools")
  /\ Check(b, tools = "approved", "source")
  /\ UNCHANGED <<own, final, world, bounds>>

SourceIdentity(b) ==
  /\ At(b, "source")
  /\ Check(b, head = "approved", "inspect")
  /\ UNCHANGED <<own, final, world, bounds>>

\* Podman, its helpers, configuration, storage and the build image.
InspectEnvironment(b) ==
  /\ At(b, "inspect")
  /\ Check(b, tools = "approved", "lock")
  /\ UNCHANGED <<own, final, world, bounds>>

\* [bug] the lock is a file created exclusively: nobody frees it for the dead.
AcquireLockFile(b) ==
  /\ At(b, "lock")
  /\ IF lock = Nobody /\ \A a \in Builders : ~At(a, "dead")
     THEN lock' = b /\ pc' = [pc EXCEPT ![b] = "extract"]
     ELSE pc' = [pc EXCEPT ![b] = "refused"] /\ UNCHANGED lock
  /\ UNCHANGED <<own, final, world, bounds>>

\* [bug] a shared lock.
AcquireLockShared(b) ==
  /\ At(b, "lock")
  /\ lock' = b /\ pc' = [pc EXCEPT ![b] = "extract"]
  /\ UNCHANGED <<own, final, world, bounds>>

\* flock without waiting; the kernel frees it when the process ends.
AcquireLock(b) ==
  /\ At(b, "lock")
  /\ IF lock = Nobody
     THEN lock' = b /\ pc' = [pc EXCEPT ![b] = "extract"]
     ELSE pc' = [pc EXCEPT ![b] = "refused"] /\ UNCHANGED lock
  /\ UNCHANGED <<own, final, world, bounds>>

\* Two archives of the approved commit, which git finds by its hash; the
\* directories of the wheels do not exist yet.
Extract(b) ==
  /\ At(b, "extract")
  /\ copy' = [copy EXCEPT ![b] = [i \in Copies |->
       [source |-> Reviewed, runtimeLock |-> Reviewed, buildLock |-> Reviewed,
        runtime |-> None, build |-> None]]]
  /\ Check(b, TRUE, "bind")
  /\ UNCHANGED <<records, tree, outputs, assembly, touched, late, final, world, bounds>>

\* _bind_archived_lock, for both locks.
BindLocks(b) ==
  /\ At(b, "bind")
  /\ Check(b, \A i \in Copies : copy[b][i].runtimeLock = Reviewed
                                /\ copy[b][i].buildLock = Reviewed, "snapshot")
  /\ UNCHANGED <<own, final, world, bounds>>

\* The operator's wheelhouses are read twice, and may change in between.
Snapshot(b) ==
  /\ At(b, "snapshot")
  /\ \E runtime, build \in [Copies -> Supplied] :
       copy' = [copy EXCEPT ![b] = [i \in Copies |->
                  [@[i] EXCEPT !.runtime = runtime[i], !.build = build[i]]]]
  /\ Check(b, TRUE, "verify")
  /\ UNCHANGED <<records, tree, outputs, assembly, touched, late, final, world, bounds>>

\* verify_wheelhouse, of one copy.
Verified(c) == c.runtime \in Approves[c.runtimeLock] /\ c.build \in Approves[c.buildLock]
Inventory(c) == [runtime |-> c.runtime, build |-> c.build]

VerifyWheelhouses(b) ==
  /\ At(b, "verify")
  /\ Check(b, /\ \A i \in Copies : Verified(copy[b][i])
              /\ Inventory(copy[b][1]) = Inventory(copy[b][2]), "trees")
  /\ records' = [records EXCEPT ![b] = Inventory(copy[b][1])]
  /\ UNCHANGED <<copy, tree, outputs, assembly, touched, late, final, world, bounds>>

CompareTrees(b) ==
  /\ At(b, "trees")
  /\ tree' = [tree EXCEPT ![b] = Tree(copy[b][1])]
  /\ Check(b, Tree(copy[b][1]) = Tree(copy[b][2]), "name")
  /\ UNCHANGED <<copy, records, outputs, assembly, touched, late, final, world, bounds>>

\* [bug] the name is taken when it is looked at, by an empty directory.
RequireFreeNameReserves(b) ==
  /\ At(b, "name")
  /\ final' = IF final = "absent" THEN b ELSE final
  /\ Check(b, final = "absent", "build")
  /\ UNCHANGED <<own, world, bounds>>

RequireFreeName(b) ==
  /\ At(b, "name")
  /\ Check(b, final = "absent", "build")
  /\ UNCHANGED <<own, final, world, bounds>>

-----------------------------------------------------------------------------
\* The container makes private copies of its inputs and checks those.
ContainerAccepts(b, c) ==
  /\ Tree(c) = tree[b]
  /\ c.runtimeLock = Reviewed /\ c.buildLock = Reviewed
  /\ Verified(c)

\* _build_once: the first copy, then the second.
BuildOnce(b) ==
  /\ At(b, "build")
  /\ LET i == IF emitted[b][1] = None THEN 1 ELSE 2 IN
     \/ /\ ContainerAccepts(b, copy[b][i])
        /\ \E v \in Variants :
             LET built == [source |-> copy[b][i].source, build |-> copy[b][i].build,
                           tools |-> tools, variant |-> v]
             IN  /\ wheel' = [wheel EXCEPT ![b][i] = built]
                 /\ emitted' = [emitted EXCEPT ![b][i] = built]
        /\ Check(b, TRUE, IF i = 1 THEN "build" ELSE "locks")
     \/ /\ ~ContainerAccepts(b, copy[b][i])
        /\ Check(b, FALSE, "locks")
        /\ UNCHANGED outputs
  /\ UNCHANGED <<staging, assembly, touched, late, final, world, bounds>>

RecheckLocks(b) ==
  /\ At(b, "locks")
  /\ Check(b, \A i \in Copies : copy[b][i].runtimeLock = Reviewed
                                /\ copy[b][i].buildLock = Reviewed, "wheels")
  /\ UNCHANGED <<own, final, world, bounds>>

RecheckWheelhouses(b) ==
  /\ At(b, "wheels")
  /\ Check(b, \A i \in Copies : /\ Verified(copy[b][i])
                                /\ Inventory(copy[b][i]) = records[b], "recheck")
  /\ UNCHANGED <<own, final, world, bounds>>

RecheckTrees(b) ==
  /\ At(b, "recheck")
  /\ Check(b, \A i \in Copies : Tree(copy[b][i]) = tree[b], "world")
  /\ UNCHANGED <<own, final, world, bounds>>

\* [bug] only the repository is looked at again.
RecheckSourceOnly(b) ==
  /\ At(b, "world")
  /\ Check(b, head = "approved", "release")
  /\ UNCHANGED <<own, final, world, bounds>>

\* _source_identity and _assert_build_environment_unchanged, once more.
RecheckWorld(b) ==
  /\ At(b, "world")
  /\ Check(b, head = "approved" /\ tools = "approved", "release")
  /\ UNCHANGED <<own, final, world, bounds>>

\* [bug] the files are taken from the first copy.
ReadReleaseFilesOne(b) ==
  /\ At(b, "release")
  /\ release' = [release EXCEPT ![b] = copy[b][1].source]
  /\ Check(b, TRUE, "compare")
  /\ UNCHANGED <<staging, outputs, project, bundle, touched, late, final, world, bounds>>

\* _verified_archived_files: the bytes are kept, not the path.
ReadReleaseFiles(b) ==
  /\ At(b, "release")
  /\ release' = [release EXCEPT ![b] = copy[b][1].source]
  /\ Check(b, copy[b][1].source = copy[b][2].source, "compare")
  /\ UNCHANGED <<staging, outputs, project, bundle, touched, late, final, world, bounds>>

CompareWheels(b) ==
  /\ At(b, "compare")
  /\ Check(b, /\ \A i \in Copies : wheel[b][i] = emitted[b][i]
              /\ wheel[b][1] = wheel[b][2], "record")
  /\ UNCHANGED <<own, final, world, bounds>>

-----------------------------------------------------------------------------
\* The wheel file is read again, from here on only the first.
InspectWheel(b) ==
  /\ At(b, "record")
  /\ project' = [project EXCEPT ![b] = wheel[b][1]]
  /\ Check(b, wheel[b][1] # Garbage, "runtime")
  /\ UNCHANGED <<staging, outputs, release, bundle, touched, late, final, world, bounds>>

BundleRuntime(b) ==
  /\ At(b, "runtime")
  /\ bundle' = [bundle EXCEPT ![b].runtime = copy[b][1].runtime]
  /\ Check(b, /\ copy[b][1].runtime \in Approves[copy[b][1].runtimeLock]
              /\ copy[b][1].runtime = records[b].runtime, "project")
  /\ UNCHANGED <<staging, outputs, release, project, touched, late, final, world, bounds>>

\* [bug] the copy is not compared with the record.
BundleProjectUnchecked(b) ==
  /\ At(b, "project")
  /\ bundle' = [bundle EXCEPT ![b].wheel = wheel[b][1]]
  /\ Check(b, TRUE, "describe")
  /\ UNCHANGED <<staging, outputs, release, project, touched, late, final, world, bounds>>

BundleProject(b) ==
  /\ At(b, "project")
  /\ bundle' = [bundle EXCEPT ![b].wheel = wheel[b][1]]
  /\ Check(b, wheel[b][1] = project[b], "describe")
  /\ UNCHANGED <<staging, outputs, release, project, touched, late, final, world, bounds>>

\* Installer, documents and provenance: the digest of the wheel bytes that
\* were compared, which the containers emitted, and one of the lock as it is.
Describe(b) ==
  /\ At(b, "describe")
  /\ bundle' = [bundle EXCEPT ![b].release = release[b],
                              ![b].lock = copy[b][1].runtimeLock,
                              ![b].digest = emitted[b][1]]
  /\ Check(b, TRUE, "publish")
  /\ UNCHANGED <<staging, outputs, release, project, touched, late, final, world, bounds>>

\* [bug] a plain rename: the name was looked at before the builds.
PublishByRename(b) ==
  /\ At(b, "publish")
  /\ final' = b /\ pc' = [pc EXCEPT ![b] = "published"] /\ Release(b)
  /\ UNCHANGED <<own, world, bounds>>

\* renameat2 without replacement.
Publish(b) ==
  /\ At(b, "publish")
  /\ \/ final = "absent" /\ final' = b /\ pc' = [pc EXCEPT ![b] = "published"]
     \/ final # "absent" /\ pc' = [pc EXCEPT ![b] = "failed"] /\ UNCHANGED final
  /\ Release(b)
  /\ UNCHANGED <<own, world, bounds>>

-----------------------------------------------------------------------------
\* A command fails, or a signal arrives: the temporary directory is removed.
Abort(b) ==
  /\ MayFail /\ pc[b] \in Before \cup Holding
  /\ Check(b, FALSE, "failed")
  /\ UNCHANGED <<own, final, world, bounds>>

\* The builder is killed, and its temporary directory stays.
Crash(b) ==
  /\ crashes < MaxCrashes /\ crashes' = crashes + 1
  /\ pc[b] \in Before \cup Holding
  /\ pc' = [pc EXCEPT ![b] = "dead"] /\ Release(b)
  /\ UNCHANGED <<own, final, world, faults, changes>>

\* An operator whose ceremony was refused by the lock tries again.
Retry(b) ==
  /\ At(b, "refused")
  /\ pc' = [pc EXCEPT ![b] = "tools"]
  /\ UNCHANGED <<own, lock, final, world, bounds>>

\* A staged input changes on the disk, at any time.
Corrupt(b, i) ==
  /\ faults < MaxFaults /\ faults' = faults + 1
  /\ pc[b] \in Holding /\ copy[b][i] # None
  /\ touched' = [touched EXCEPT ![b] = @ \cup {i}]
  /\ \/ \E f \in {"source", "runtimeLock", "buildLock"}, x \in Sources :
          copy' = [copy EXCEPT ![b][i] = [@ EXCEPT ![f] = x]]
     \/ /\ copy[b][i].runtime # None
        /\ \E f \in {"runtime", "build"}, x \in Wheelhouses :
             copy' = [copy EXCEPT ![b][i] = [@ EXCEPT ![f] = x]]
  /\ UNCHANGED <<pc, records, tree, outputs, assembly, late, lock, final, world, changes, crashes>>

\* An exported wheel changes, at any time.
CorruptWheel(b, i) ==
  /\ faults < MaxFaults /\ faults' = faults + 1
  /\ pc[b] \in Building \cup Assembling /\ wheel[b][i] # None
  /\ touched' = [touched EXCEPT ![b] = @ \cup {i}]
  /\ late' = IF i = 1 /\ pc[b] \in Assembling THEN late \cup {b} ELSE late
  /\ \E x \in {Garbage, Bent} : wheel' = [wheel EXCEPT ![b][i] = x]
  /\ UNCHANGED <<pc, staging, emitted, assembly, lock, final, world, changes, crashes>>

\* The host or the repository changes for good, or another program takes the
\* final name.
Change ==
  /\ changes < MaxChanges /\ changes' = changes + 1
  /\ \/ tools' = "other" /\ UNCHANGED <<head, final>>
     \/ head' = "other" /\ UNCHANGED <<tools, final>>
     \/ final = "absent" /\ final' = "other" /\ UNCHANGED world
  /\ UNCHANGED <<pc, own, lock, faults, crashes>>

Step(b) ==
  \/ ApproveTools(b) \/ SourceIdentity(b) \/ InspectEnvironment(b) \/ AcquireLock(b)
  \/ Extract(b) \/ BindLocks(b) \/ Snapshot(b) \/ VerifyWheelhouses(b) \/ CompareTrees(b)
  \/ RequireFreeName(b) \/ BuildOnce(b) \/ RecheckLocks(b) \/ RecheckWheelhouses(b)
  \/ RecheckTrees(b) \/ RecheckWorld(b) \/ ReadReleaseFiles(b) \/ CompareWheels(b)
  \/ InspectWheel(b) \/ BundleRuntime(b) \/ BundleProject(b) \/ Describe(b)
  \/ Publish(b) \/ Retry(b)

AllEnded == (\A b \in Builders : pc[b] \in Ended) /\ UNCHANGED vars

Next == \/ \E b \in Builders : Step(b) \/ Abort(b) \/ Crash(b)
        \/ \E b \in Builders, i \in Copies : Corrupt(b, i) \/ CorruptWheel(b, i)
        \/ Change \/ AllEnded

Spec == Init /\ [][Next]_vars

\* The steps of a running builder, and an operator who does not give up.
FairSpec == Spec /\ \A b \in Builders : WF_vars(Step(b))

-----------------------------------------------------------------------------
(* Properties                                                              *)

\* The flock is held by exactly the builder that is at work below it.
ControlOK ==
  /\ pc \in [Builders -> Before \cup Holding \cup Ended \cup {"refused"}]
  /\ lock \in Builders \cup {Nobody}
  /\ \A b \in Builders : pc[b] \in Holding <=> lock = b

\* What a builder takes, holds and assembles.
DataOK ==
  /\ copy \in [Builders -> [Copies -> Optional(Staged)]]
  /\ records \in [Builders -> Optional([runtime : Wheelhouses, build : Wheelhouses])]
  /\ tree \in [Builders -> Optional([source : Sources, runtimeLock : Sources,
                                     buildLock : Sources])]
  /\ wheel \in [Builders -> [Copies -> Optional(Files)]]
  /\ emitted \in [Builders -> [Copies -> Optional(Wheels)]]
  /\ release \in [Builders -> Optional(Sources)]
  /\ project \in [Builders -> Optional(Files)]
  /\ bundle \in [Builders ->
       [runtime : Optional(Wheelhouses), wheel : Optional(Files), release : Optional(Sources),
        lock : Optional(Sources), digest : Optional(Wheels)]]
  /\ touched \in [Builders -> SUBSET Copies] /\ late \subseteq Builders

WorldOK ==
  /\ final \in Builders \cup {"absent", "other"}
  /\ head \in {"approved", "other"} /\ tools \in {"approved", "other"}
  /\ faults \in 0..MaxFaults /\ changes \in 0..MaxChanges /\ crashes \in 0..MaxCrashes

\* Types; and the output parent is locked exactly while a builder is at work
\* below it.
TypeOK == ControlOK /\ DataOK /\ WorldOK

\* As long as one of the two copies stays intact, whatever happens to the
\* other and whenever, a published bundle holds the reviewed installer, wheels
\* that the reviewed lock approves, and a provenance that names the project
\* wheel which both containers built from the reviewed source.  It also holds
\* that wheel, unless its file changed after it was compared.
OneIntactCopySuffices ==
  \A b \in Builders : final = b /\ touched[b] # Copies =>
    /\ bundle[b].release = Reviewed
    /\ bundle[b].runtime \in Approves[Reviewed]
    /\ bundle[b].digest.source = Reviewed /\ bundle[b].digest.build \in Approves[Reviewed]
    /\ bundle[b].digest = emitted[b][1] /\ bundle[b].digest = emitted[b][2]
    /\ b \notin late => bundle[b].wheel = bundle[b].digest

\* Even then the provenance tells: whatever changes, and in both copies, a
\* published wheel that differs from the digest in the provenance has changed
\* after it was compared, and the record of it that the bundle was described
\* from is that of the wheel it holds, so that it installs.
ProvenanceTells ==
  \A b \in Builders : final = b =>
    /\ bundle[b].digest = emitted[b][1] /\ emitted[b][1] = emitted[b][2]
    /\ bundle[b].wheel # bundle[b].digest => b \in late
    /\ bundle[b].wheel = project[b] /\ bundle[b].wheel # Garbage

\* What is published was built by approved tools in an approved image, both
\* times, although they may be changed (for good) at any moment.
BuiltByApprovedTools ==
  \A b \in Builders : final = b => \A i \in Copies : emitted[b][i].tools = "approved"

\* A final name in use is never taken over, whenever it came into use.
NeverReplaces == [][final # "absent" => UNCHANGED final]_vars

\* A ceremony raises no error that it brings about itself.  Where the operator
\* supplies one approved wheelhouse and the build is reproducible, on an approved
\* host that nobody changes, no check of the whole sequence stops a ceremony but
\* the name that another one has got by publishing, whoever was killed meanwhile.
Uneventful == ~MayFail /\ faults = 0 /\ changes = 0
Reproducible == /\ Supplied \subseteq Approves[Reviewed]
                /\ \A v, w \in Supplied : v = w
                /\ \A v, w \in Variants : v = w
FailsOnlyBeaten ==
  Uneventful /\ Reproducible /\ tools = "approved" /\ final # "other" =>
    \A b \in Builders : At(b, "failed") => \E a \in Builders : At(a, "published")

\* A killed ceremony does not stand in the way of the next one: on an approved
\* host that nobody changes, with the name free, some ceremony publishes.
NotBlockedByCrash ==
  final = "absent" /\ tools = "approved" => <>(final \in Builders \/ changes > 0)
=============================================================================

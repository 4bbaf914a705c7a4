--------------------------- MODULE OfflineInstall ----------------------------
(***************************************************************************)
(* release/install-offline.sh, as it is shipped in a bundle: it compares   *)
(* the directory it lies in with its SHA256SUMS, makes a virtual           *)
(* environment at a new path and lets pip install the wheels there.        *)
(* Several installers may use one bundle directory and one target; a       *)
(* directory may hold a partial or mixed transfer, and may be written over *)
(* while an installer runs.  The script stops at the first command that    *)
(* fails and never cleans up; an operator removes what it left and starts  *)
(* it again.                                                               *)
(*                                                                         *)
(* A file is known by the release that it belongs to.  The requirements of *)
(* a release list the digests of its wheels.                               *)
(***************************************************************************)
EXTENDS Naturals, Sequences, FiniteSets

CONSTANTS
  Installers,  \* runs of the script
  Bundles,     \* bundle directories
  BundleOf, TargetOf,  \* the bundle each lies in, the target it is given
  Targets,
  Releases,
  Listed,      \* the release whose SHA256SUMS a bundle directory holds
  Requirements,\* the name of the requirements file
  Packages,    \* the names of the wheels, one for each package
  Spare,       \* names that no release ships
  Overlooked,  \* those that end in SHA256SUMS, in whatever directory
  MaxWrong,    \* bound on the files of each bundle that a transfer got wrong
  Order,       \* the names that SHA256SUMS lists, in its order
  Supported,   \* installers run by a suitable python on a suitable machine
  InitTargets, \* what a target path may name at the start
  MaxChanges,  \* bound on changes of files in the bundles
  MaxStops     \* bound on commands that fail although they should not

Shipped == {Order[k] : k \in DOMAIN Order}
Names == Shipped \cup Spare
\* "special" is neither a regular file nor a symlink, but a FIFO or a socket.
Contents == Releases \cup {"other", "absent", "symlink", "special"}

ASSUME NamesAssumption ==
  /\ Order \in Seq(Shipped) /\ \A k, l \in DOMAIN Order : Order[k] = Order[l] => k = l
  /\ Packages \subseteq Shipped /\ Packages # {} /\ Requirements \in Shipped \ Packages
  /\ Spare \cap Shipped = {} /\ Overlooked \subseteq Spare
ASSUME InstallersAssumption ==
  /\ BundleOf \in [Installers -> Bundles] /\ TargetOf \in [Installers -> Targets]
  /\ Listed \in [Bundles -> Releases] /\ Supported \subseteq Installers
  /\ Releases \cap {"other", "absent", "symlink", "special", "none"} = {}
  /\ InitTargets \subseteq {"absent", "foreign"}
ASSUME BoundAssumption == /\ MaxChanges \in Nat /\ MaxStops \in Nat
                          /\ MaxWrong \in [Bundles -> Nat]

VARIABLES
  pc,      \* what each installer does next
  pos,     \* the line of SHA256SUMS it checks next
  bundle,  \* what each name in each bundle directory holds
  there,   \* what each target path names
  env,     \* what is installed in the environment at each target
  reqs,    \* the release whose requirements pip has read
  todo,    \* the wheels pip has collected and not yet installed
  made,    \* history: the installers that set up the present target
  late,    \* history: installers whose requirements changed after their check
  changes, stops

vars == <<pc, pos, bundle, there, env, reqs, todo, made, late, changes, stops>>
mine == <<pos, reqs, todo>>
site == <<there, env, made>>
world == <<bundle, late, changes, stops>>

Working == {"symlinks", "inventory", "checksums", "venv", "requirements", "wheels",
            "install", "version"}

TypeOK ==
  /\ pc \in [Installers -> Working \cup {"start", "ok", "failed"}]
  /\ pos \in [Installers -> 1..(Len(Order) + 1)]
  /\ bundle \in [Bundles -> [Names -> Contents]]
  /\ there \in [Targets -> {"absent", "foreign", "environment"}]
  /\ env \in [Targets -> [Packages -> Releases \cup {"other", "none"}]]
  /\ reqs \in [Installers -> Releases \cup {"other", "none"}]
  /\ todo \in [Installers -> SUBSET (Packages \X (Releases \cup {"other"}))]
  /\ made \in [Targets -> SUBSET Installers]
  /\ late \subseteq Installers
  /\ changes \in 0..MaxChanges /\ stops \in 0..MaxStops

Nothing == [p \in Packages |-> "none"]

\* What was published under these checksums, and the files that differ from it.
Published(b) == [n \in Names |-> IF n \in Shipped THEN Listed[b] ELSE "absent"]
Differ(files, b) == {n \in Names : files[n] # Published(b)[n]}
Wrong(b) == Differ(bundle[b], b)

\* A directory after its transfer.
Transferred(b) ==
  {files \in [Names -> Contents] : Cardinality(Differ(files, b)) <= MaxWrong[b]}

Init ==
  /\ pc = [i \in Installers |-> "start"]
  /\ pos = [i \in Installers |-> 1]
  /\ bundle \in [Bundles -> UNION {Transferred(b) : b \in Bundles}]
  /\ \A b \in Bundles : bundle[b] \in Transferred(b)
  /\ there \in [Targets -> InitTargets]
  /\ env = [t \in Targets |-> Nothing]
  /\ reqs = [i \in Installers |-> "none"]
  /\ todo = [i \in Installers |-> {}]
  /\ made = [t \in Targets |-> {}]
  /\ late = {}
  /\ changes = 0 /\ stops = 0

At(i, label) == pc[i] = label
Goto(i, label) == pc' = [pc EXCEPT ![i] = label]
File(i, n) == bundle[BundleOf[i]][n]
Release(i) == Listed[BundleOf[i]]
Env(i) == env[TargetOf[i]]

\* Operators marked [bug] are what the script could plausibly have been; no
\* specification uses them.  They show that the properties can fail.

-----------------------------------------------------------------------------
(* Before anything is made.                                                *)

\* The platform, then the target: neither a file nor a dangling symlink.
Start(i) ==
  /\ At(i, "start")
  /\ Goto(i, IF i \in Supported /\ there[TargetOf[i]] = "absent"
             THEN "symlinks" ELSE "failed")
  /\ UNCHANGED <<mine, site, world>>

LookForSymlinks(i) ==
  /\ At(i, "symlinks")
  /\ Goto(i, IF \E n \in Names : File(i, n) = "symlink" THEN "failed" ELSE "inventory")
  /\ UNCHANGED <<mine, site, world>>

\* find . -type f ! -name SHA256SUMS: neither what is no regular file nor, at any
\* depth, what bears the name of the list itself.
Present(i) ==
  {n \in Names \ Overlooked : File(i, n) \notin {"absent", "symlink", "special"}}

\* [bug] only missing files are noticed.
InventoryOfListed(i) ==
  /\ At(i, "inventory")
  /\ Goto(i, IF Shipped \subseteq Present(i) THEN "checksums" ELSE "failed")
  /\ UNCHANGED <<mine, site, world>>

\* [bug] SHA256SUMS, which does not list itself, is compared with what it lists.
InventoryWithSums(i) ==
  /\ At(i, "inventory")
  /\ Goto(i, IF Present(i) \cup {"SHA256SUMS"} = Shipped THEN "checksums" ELSE "failed")
  /\ UNCHANGED <<mine, site, world>>

Inventory(i) ==
  /\ At(i, "inventory")
  /\ Goto(i, IF Present(i) = Shipped THEN "checksums" ELSE "failed")
  /\ UNCHANGED <<mine, site, world>>

\* [bug] the loop over SHA256SUMS does not notice its end.
ChecksumWithoutEnd(i) ==
  /\ At(i, "checksums")
  /\ pos' = [pos EXCEPT ![i] = @ + 1]
  /\ IF pos[i] \in DOMAIN Order /\ File(i, Order[pos[i]]) # Release(i)
     THEN Goto(i, "failed") ELSE UNCHANGED pc
  /\ UNCHANGED <<reqs, todo, site, world>>

\* sha256sum -c, one file after the other.
Checksum(i) ==
  /\ At(i, "checksums")
  /\ IF File(i, Order[pos[i]]) = Release(i)
     THEN /\ pos' = [pos EXCEPT ![i] = @ + 1]
          /\ Goto(i, IF pos[i] = Len(Order) THEN "venv" ELSE "checksums")
     ELSE Goto(i, "failed") /\ UNCHANGED pos
  /\ UNCHANGED <<reqs, todo, site, world>>

-----------------------------------------------------------------------------
(* The installation.                                                       *)

\* venv takes a directory that exists by now, and keeps what is in it.
MakeEnvironment(i) ==
  /\ At(i, "venv")
  /\ there' = [there EXCEPT ![TargetOf[i]] = "environment"]
  /\ made' = [made EXCEPT ![TargetOf[i]] = @ \cup {i}]
  /\ Goto(i, "requirements")
  /\ UNCHANGED <<env, mine, world>>

\* pip install -r: the requirements are read once.
ReadRequirements(i) ==
  /\ At(i, "requirements")
  /\ IF File(i, Requirements) \in Releases \cup {"other"}
     THEN reqs' = [reqs EXCEPT ![i] = File(i, Requirements)] /\ Goto(i, "wheels")
     ELSE Goto(i, "failed") /\ UNCHANGED reqs
  /\ UNCHANGED <<pos, todo, site, world>>

Wheels(i) == {<<p, File(i, p)>> : p \in Packages}

\* [bug] without --require-hashes, pip takes whatever lies in wheels/.
CollectAnyWheels(i) ==
  /\ At(i, "wheels")
  /\ IF \A p \in Packages : File(i, p) \in Releases \cup {"other"}
     THEN todo' = [todo EXCEPT ![i] = Wheels(i)] /\ Goto(i, "install")
     ELSE Goto(i, "failed") /\ UNCHANGED todo
  /\ UNCHANGED <<pos, reqs, site, world>>

\* --no-index --require-hashes: every wheel is the one that is listed.
CollectWheels(i) ==
  /\ At(i, "wheels")
  /\ IF \A p \in Packages : File(i, p) = reqs[i]
     THEN todo' = [todo EXCEPT ![i] = Wheels(i)] /\ Goto(i, "install")
     ELSE Goto(i, "failed") /\ UNCHANGED todo
  /\ UNCHANGED <<pos, reqs, site, world>>

\* One wheel after the other, over whatever is there.
InstallWheel(i) ==
  /\ At(i, "install")
  /\ \E wheel \in todo[i] :
       /\ env' = [env EXCEPT ![TargetOf[i]][wheel[1]] = wheel[2]]
       /\ todo' = [todo EXCEPT ![i] = @ \ {wheel}]
       /\ Goto(i, IF todo[i] = {wheel} THEN "version" ELSE "install")
  /\ UNCHANGED <<pos, reqs, there, made, world>>

\* shard-core --version runs if its packages are there, of whatever release.
ShowVersion(i) ==
  /\ At(i, "version")
  /\ Goto(i, IF \A p \in Packages : Env(i)[p] # "none" THEN "ok" ELSE "failed")
  /\ UNCHANGED <<mine, site, world>>

-----------------------------------------------------------------------------
(* Failure, the operator and the bundle.                                   *)

\* Any command fails, or the script is killed: set -e, and no cleanup.
Stop(i) ==
  /\ stops < MaxStops /\ stops' = stops + 1
  /\ pc[i] \in Working
  /\ Goto(i, "failed")
  /\ UNCHANGED <<mine, site, bundle, late, changes>>

\* The operator starts a script again that failed.
Retry(i) ==
  /\ At(i, "failed")
  /\ Goto(i, "start")
  /\ pos' = [pos EXCEPT ![i] = 1]
  /\ reqs' = [reqs EXCEPT ![i] = "none"]
  /\ todo' = [todo EXCEPT ![i] = {}]
  /\ late' = late \ {i}
  /\ UNCHANGED <<site, bundle, changes, stops>>

\* He removes an environment that nobody works on and that was not finished.
RemoveTarget(t) ==
  /\ there[t] = "environment"
  /\ \A i \in Installers : TargetOf[i] = t => pc[i] \notin Working \cup {"ok"}
  /\ there' = [there EXCEPT ![t] = "absent"]
  /\ env' = [env EXCEPT ![t] = Nothing]
  /\ made' = [made EXCEPT ![t] = {}]
  /\ UNCHANGED <<pc, mine, world>>

\* The installer has found the file to be as listed.
Checked(i, n) == \E k \in DOMAIN Order : k < pos[i] /\ Order[k] = n

\* A regular file of a bundle is replaced by that of another release, lost or
\* added, or the whole directory is exchanged.
Change(b) ==
  /\ changes < MaxChanges /\ changes' = changes + 1
  /\ \E names \in {Shipped} \cup {{n} : n \in Names},
          c \in Releases \cup {"other", "absent"} :
       /\ bundle' = [bundle EXCEPT ![b] = [n \in Names |-> IF n \in names THEN c ELSE @[n]]]
       /\ late' = late \cup {i \in Installers : /\ BundleOf[i] = b
                                                /\ Requirements \in names
                                                /\ Checked(i, Requirements)}
  /\ UNCHANGED <<pc, mine, site, stops>>

Run(i) == \/ Start(i) \/ LookForSymlinks(i) \/ Inventory(i) \/ Checksum(i)
          \/ MakeEnvironment(i) \/ ReadRequirements(i) \/ CollectWheels(i)
          \/ InstallWheel(i) \/ ShowVersion(i)

AllInstalled == (\A i \in Installers : At(i, "ok")) /\ UNCHANGED vars

Next == \/ \E i \in Installers : Run(i) \/ Stop(i) \/ Retry(i)
        \/ \E t \in Targets : RemoveTarget(t)
        \/ \E b \in Bundles : Change(b)
        \/ AllInstalled

Spec == Init /\ [][Next]_vars
\* The machine runs the scripts, and the operator does not give up.
FairSpec ==
  /\ Spec
  /\ \A i \in Installers : WF_vars(Run(i)) /\ WF_vars(Retry(i))
  /\ \A t \in Targets : WF_vars(RemoveTarget(t))
-----------------------------------------------------------------------------
(* Properties                                                              *)

\* An installation that was reported is never a mix, of releases or of an
\* earlier failed attempt and this one, however the bundle changed meanwhile:
\* it is what one requirements file lists, and that of the bundle's SHA256SUMS
\* unless the file changed after it was checked.  Two installers that both
\* looked before either made the target are not kept apart.
NeverMixed ==
  \A i \in Installers : At(i, "ok") /\ made[TargetOf[i]] = {i} =>
    /\ \A p \in Packages : Env(i)[p] = reqs[i]
    /\ i \notin late => reqs[i] = Release(i)

\* What is added to a bundle and the inventory cannot see.
Unseen(b) == {n \in Spare : \/ bundle[b][n] = "special"
                            \/ n \in Overlooked /\ bundle[b][n] # "symlink"}

\* What is installed comes from a bundle in which every published file is there
\* and as published, to the last document, and nothing was added but what the
\* inventory cannot see, unless the bundle was changed while a script ran.
InstalledFromPublished ==
  \A i \in Installers : At(i, "ok") /\ changes = 0 =>
    Wrong(BundleOf[i]) \subseteq Unseen(BundleOf[i])

\* "Do not install if any file is missing, extra, or has a mismatched digest. The
\* installer repeats these checks" (release/VERIFY.md): no file was added.
NothingExtra ==
  \A i \in Installers : At(i, "ok") /\ changes = 0 =>
    \A n \in Spare : File(i, n) \notin Releases \cup {"other"}

\* A published bundle can be installed at a new path in spite of failed
\* attempts: what they leave is refused, and removing it is all it takes.
EventuallyInstalled ==
  (\E i \in Supported : Wrong(BundleOf[i]) = {} /\ there[TargetOf[i]] = "absent")
  => <>(changes > 0 \/ \E i \in Installers : At(i, "ok"))
=============================================================================

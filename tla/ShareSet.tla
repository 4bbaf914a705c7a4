------------------------------ MODULE ShareSet ------------------------------
(***************************************************************************)
(* Writing a share set: cli._do_protect (protect, fordefi split),          *)
(* cli._do_slip39_split and wizard._wizard_split.  A run makes all shares  *)
(* in memory, looks at every destination, publishes the files one by one,  *)
(* the manifest last, and the wizard reads them back.  Runs share the      *)
(* directory with each other and with other programs, and any of them may  *)
(* stop half way; nothing is ever rolled back.                             *)
(*                                                                         *)
(* Each file is published by safeio.atomic_write_bytes, which SafeWrite    *)
(* shows to be one atomic step.  What a power loss may do to a file that   *)
(* was published depends on its directory: the entry is safe when the      *)
(* filesystem synchronises directories, and the directory itself only when *)
(* it is older than the runs, since nobody synchronises its parent.        *)
(*                                                                         *)
(* A path a run wrote holds the run's share (or manifest) for that path:   *)
(* it is enough to record whose file it is.                                *)
(***************************************************************************)
EXTENDS Labels, FiniteSets

CONSTANTS
  Runs,        \* invocations that write a share set
  Paths,       \* the file names they may use
  Wizards,     \* the runs of the wizard; the others are commands
  Forced,      \* commands given --force (the wizard has no such option)
  Slip39,      \* runs that write SLIP-39 word lists; the others SHRD shards
  Threshold, Shares,  \* k and n of each run
  Secret,      \* the secret each run splits
  GivenLabels, \* the labels each run is given, sanitised
  ManifestAt,  \* where it writes its manifest: one path or none
  Earlier,     \* runs that ended normally long before the others began
  Directories,
  Directory,   \* the directory of each path
  SyncedDirs,  \* those whose filesystem implements fsync on a directory
  InitOld,     \* which of them may have been on the disk before the runs
  MaxRecoveryCombinations,
  MaxFaults,   \* bound on I/O errors and interrupts
  MaxMeddling, \* bound on the moves of other programs
  MaxCrashes   \* bound on power losses

\* The destinations of each run in the order it writes them.  A share is written
\* below the name that its label makes.
Dest == [r \in Runs |-> NormalizeLabels(GivenLabels[r], Shares[r]) \o ManifestAt[r]]
Size(r) == Len(Dest[r])
\* The destinations after the shares: the manifest, or nothing.
Manifest(r) == {Dest[r][i] : i \in (Shares[r] + 1)..Size(r)}
SharePath(r, i) == Dest[r][i]
SharePaths(r) == {SharePath(r, i) : i \in 1..Shares[r]}
\* The directory that the run is told to write its shares to.
ShareDir(r) == Directory[Dest[r][1]]

ASSUME RunsAssumption ==
  /\ Wizards \subseteq Runs /\ Forced \subseteq Runs \ Wizards
  /\ Slip39 \subseteq Runs /\ Earlier \subseteq Runs
  /\ Runs \cap {"absent", "foreign", "unsafe"} = {}
ASSUME ShapeAssumption ==
  \A r \in Runs : /\ Shares[r] \in Nat /\ Threshold[r] \in 2..Shares[r]
                  /\ Dest[r] \in Seq(Paths)
                  /\ Size(r) \in Shares[r]..(Shares[r] + 1)
                  /\ r \in Wizards \cup Slip39 => Size(r) = Shares[r]
                  /\ \A i \in 1..Shares[r] : Directory[Dest[r][i]] = ShareDir(r)
ASSUME DirectoriesAssumption ==
  /\ Directory \in [Paths -> Directories] /\ SyncedDirs \subseteq Directories
  /\ InitOld \subseteq SUBSET Directories
ASSUME EarlierAssumption ==
  /\ \A r \in Earlier : \A i, j \in 1..Size(r) : i # j => Dest[r][i] # Dest[r][j]
  /\ \A r, s \in Earlier : r # s => \A i \in 1..Size(r), j \in 1..Size(s) :
                                       Dest[r][i] # Dest[s][j]
ASSUME BoundAssumption == /\ MaxMeddling \in Nat /\ MaxCrashes \in Nat
                          /\ MaxRecoveryCombinations \in Nat /\ MaxFaults \in Nat

VARIABLES
  pc,       \* where each run is
  pos,      \* the destination it handles next
  holder,   \* whose file each path names; "unsafe" is a symlink or directory
  mayHold,  \* what it may name after a power loss, if its directory is there
  old,      \* the directories that were on the disk before the runs
  got,      \* what the wizard has read back, by position
  wrote,    \* history: positions each run has published
  spoiled,  \* history: the run's files changed by others before it read them
  struck,   \* history: the runs that had begun before a power loss
  faults, meddling, crashes

vars == <<pc, pos, holder, mayHold, old, got, wrote, spoiled, struck,
          faults, meddling, crashes>>
disk == <<holder, mayHold, old>>
history == <<wrote, spoiled, struck>>
bounds == <<faults, meddling, crashes>>

Running == {"start", "preflight", "write", "read"}
Ended == {"ok", "verified", "unverified", "failed", "dead"}
Holders == Runs \cup {"absent", "foreign", "unsafe"}

TypeOK ==
  /\ pc \in [Runs -> Running \cup Ended]
  /\ pos \in [Runs -> Nat]
  /\ \A r \in Runs :
       \/ pos[r] \in 1..Size(r)
       \/ r \in Wizards /\ pos[r] = Size(r) + 1 /\ pc[r] \notin {"start", "preflight", "write"}
  /\ holder \in [Paths -> Holders]
  /\ mayHold \in [Paths -> SUBSET Holders]
  /\ old \subseteq Directories /\ struck \subseteq Runs
  /\ got \in [Runs -> Seq(Holders)]
  /\ \A r \in Runs : wrote[r] \subseteq 1..Size(r) /\ spoiled[r] \subseteq Paths
  /\ DOMAIN wrote = Runs /\ DOMAIN spoiled = Runs
  /\ faults \in 0..MaxFaults /\ meddling \in 0..MaxMeddling
  /\ crashes \in 0..MaxCrashes

\* The files of the earlier runs, and anything elsewhere.  What is there has long
\* been written to the disk, in directories that may be new themselves.
Init ==
  /\ pc = [r \in Runs |-> IF r \in Earlier THEN "ok" ELSE "start"]
  /\ pos = [r \in Runs |-> 1]
  /\ holder \in [Paths -> Earlier \cup {"absent", "foreign", "unsafe"}]
  /\ \A p \in Paths, r \in Earlier :
       holder[p] = r <=> \E i \in 1..Size(r) : Dest[r][i] = p
  /\ mayHold = [p \in Paths |-> {holder[p]}]
  /\ old \in InitOld
  /\ \A r \in Earlier : \A i \in 1..Size(r) : Directory[Dest[r][i]] \in old
  /\ got = [r \in Runs |-> <<>>]
  /\ wrote = [r \in Runs |-> IF r \in Earlier THEN 1..Size(r) ELSE {}]
  /\ spoiled = [r \in Runs |-> {}]
  /\ struck = {}
  /\ faults = 0 /\ meddling = 0 /\ crashes = 0

At(r, label) == pc[r] = label
Goto(r, label) == pc' = [pc EXCEPT ![r] = label]

\* Operators marked [bug] are what the code could plausibly have been; no
\* specification uses them.  They show that the properties can fail.
Here(r) == Dest[r][pos[r]]

\* The next destination, or, after the last, the next phase from its first.
Advance(r, last, next) ==
  /\ pos' = [pos EXCEPT ![r] = IF @ = last THEN 1 ELSE @ + 1]
  /\ Goto(r, IF pos[r] = last THEN next ELSE pc[r])

\* What safeio._validate_target accepts.
Acceptable(r, p) == \/ holder[p] = "absent"
                    \/ r \in Forced /\ holder[p] # "unsafe"

\* A wizard's file at p is no longer what the wizard wrote, and unread.
Spoil(p) ==
  spoiled' = [r \in Runs |->
    IF \E i \in wrote[r] : /\ Dest[r][i] = p
                           /\ \/ At(r, "write")
                              \/ At(r, "read") /\ pos[r] <= i
    THEN spoiled[r] \cup {p} ELSE spoiled[r]]

\* verify_complete_set tries every k of n shards, up to a limit.
WithinLimit(k, n) ==
  Cardinality({s \in SUBSET (1..n) : Cardinality(s) = k}) <= MaxRecoveryCombinations

-----------------------------------------------------------------------------
\* [bug] labels that name one file twice go unnoticed.
SelfTestAnyLabels(r) ==
  /\ At(r, "start")
  /\ Goto(r, IF r \notin Slip39 => WithinLimit(Threshold[r], Shares[r])
             THEN "preflight" ELSE "failed")
  /\ UNCHANGED <<pos, disk, got, history, bounds>>

\* SHRD shards are tried in every threshold subset before anything touches the
\* disk, if there are not too many (the wizard tries SLIP-39 lists too, without
\* a limit).  Labels that name one file twice are refused.
SelfTest(r) ==
  /\ At(r, "start")
  /\ Goto(r, IF /\ r \notin Slip39 => WithinLimit(Threshold[r], Shares[r])
                /\ \A i, j \in 1..Size(r) : i # j => Dest[r][i] # Dest[r][j]
             THEN "preflight" ELSE "failed")
  /\ UNCHANGED <<pos, disk, got, history, bounds>>

\* [bug] only the first destination is looked at.
PreflightFirst(r) ==
  /\ At(r, "preflight")
  /\ Goto(r, IF Acceptable(r, Here(r)) THEN "write" ELSE "failed")
  /\ UNCHANGED <<pos, disk, got, history, bounds>>

\* [bug] with force, the old files are removed first.
PreflightRemoves(r) ==
  /\ At(r, "preflight")
  /\ IF Acceptable(r, Here(r))
     THEN /\ Advance(r, Size(r), "write")
          /\ holder' = [holder EXCEPT ![Here(r)] = "absent"]
          /\ mayHold' = [mayHold EXCEPT ![Here(r)] = @ \cup {"absent"}]
     ELSE Goto(r, "failed") /\ UNCHANGED <<pos, holder, mayHold>>
  /\ UNCHANGED <<old, got, history, bounds>>

\* preflight_output_paths: one destination after the other.
Preflight(r) ==
  /\ At(r, "preflight")
  /\ IF Acceptable(r, Here(r))
     THEN Advance(r, Size(r), "write")
     ELSE Goto(r, "failed") /\ UNCHANGED pos
  /\ UNCHANGED <<disk, got, history, bounds>>

\* What the link or the replacement accepts.  A symlink that appears after the
\* last check is itself replaced (a directory is not: WriteRefused).
Available(r, p) == holder[p] = "absent" \/ r \in Forced

\* The fsync of a directory saves all its entries.
Publish(r, synced) ==
  /\ holder' = [holder EXCEPT ![Here(r)] = r]
  /\ mayHold' = [p \in Paths |->
       IF synced /\ Directory[p] = Directory[Here(r)] THEN {holder'[p]}
                                                     ELSE mayHold[p] \cup {holder'[p]}]
  /\ wrote' = [wrote EXCEPT ![r] = @ \cup {pos[r]}]
  /\ Spoil(Here(r))
  /\ UNCHANGED <<old, got, struck>>

\* [bug] the directory is not synchronised.
WriteFileUnsynced(r) ==
  /\ At(r, "write")
  /\ Available(r, Here(r))
  /\ Publish(r, FALSE)
  /\ Advance(r, Size(r), IF r \in Wizards THEN "read" ELSE "ok")
  /\ UNCHANGED bounds

\* _fsync_directory swallows the error of a filesystem that cannot do it.
WriteFile(r) ==
  /\ At(r, "write")
  /\ Available(r, Here(r))
  /\ Publish(r, Directory[Here(r)] \in SyncedDirs)
  /\ Advance(r, Size(r), IF r \in Wizards THEN "read" ELSE "ok")
  /\ UNCHANGED bounds

\* [bug] a file that exists is left alone and the next one is written.
WriteRefusedSkips(r) ==
  /\ At(r, "write")
  /\ ~Acceptable(r, Here(r))
  /\ Advance(r, Size(r), IF r \in Wizards THEN "read" ELSE "ok")
  /\ UNCHANGED <<disk, got, history, bounds>>

\* [bug] the same, without looking whether it was the last.
WriteRefusedRunsOn(r) ==
  /\ At(r, "write")
  /\ ~Acceptable(r, Here(r))
  /\ pos' = [pos EXCEPT ![r] = @ + 1]
  /\ UNCHANGED <<pc, disk, got, history, bounds>>

WriteRefused(r) ==
  /\ At(r, "write")
  /\ ~Acceptable(r, Here(r))
  /\ Goto(r, "failed")
  /\ UNCHANGED <<pos, disk, got, history, bounds>>

\* An I/O error or an interrupt: the file may have been published or not, and
\* its directory not synchronised.
WriteFault(r) ==
  /\ faults < MaxFaults /\ faults' = faults + 1
  /\ At(r, "write")
  /\ Goto(r, "failed")
  /\ \/ UNCHANGED <<disk, got, history>>
     \/ Available(r, Here(r)) /\ Publish(r, FALSE)
  /\ UNCHANGED <<pos, meddling, crashes>>

\* wizard._payload: any file that can be read is taken, through a symlink too.
ReadBack(r) ==
  /\ At(r, "read") /\ Len(got[r]) < Shares[r]
  /\ \/ /\ holder[Here(r)] \in {"absent", "unsafe"}
        /\ Goto(r, "unverified")
        /\ UNCHANGED <<pos, got>>
     \/ /\ holder[Here(r)] # "absent"
        /\ got' = [got EXCEPT ![r] = Append(@, holder[Here(r)])]
        /\ pos' = [pos EXCEPT ![r] = @ + 1]
        /\ UNCHANGED pc
  /\ UNCHANGED <<disk, history, bounds>>

\* _verify_share_payloads with an ideal cipher: the payloads are distinct
\* shares of one run in the same format, any of the wizard's threshold subsets
\* is enough for them (SLIP-39 asks for the exact number), and they give the
\* secret at hand.
Recovers(r, payloads) ==
  \E s \in Runs :
    /\ \A i \in 1..Shares[r] : payloads[i] = s /\ Dest[r][i] \in SharePaths(s)
    /\ Secret[s] = Secret[r]
    /\ s \in Slip39 <=> r \in Slip39
    /\ IF r \in Slip39 THEN Threshold[s] = Threshold[r]
                       ELSE /\ Threshold[s] <= Threshold[r]
                            /\ WithinLimit(Threshold[s], Shares[r])

\* [bug] the payloads still in memory are verified, not those read back.
VerifyMemory(r) ==
  /\ At(r, "read") /\ Len(got[r]) = Shares[r]
  /\ Goto(r, "verified")
  /\ UNCHANGED <<pos, disk, got, history, bounds>>

VerifyReadBack(r) ==
  /\ At(r, "read") /\ Len(got[r]) = Shares[r]
  /\ Goto(r, IF Recovers(r, got[r]) THEN "verified" ELSE "unverified")
  /\ UNCHANGED <<pos, disk, got, history, bounds>>

-----------------------------------------------------------------------------
\* Power loss: no run survives.  A directory that is not old may be gone with all
\* that is in it; elsewhere each name is one of those that it may hold.
Crash ==
  /\ crashes < MaxCrashes /\ crashes' = crashes + 1
  /\ pc' = [r \in Runs |-> IF pc[r] \in Running \ {"start"} THEN "dead" ELSE pc[r]]
  /\ struck' = struck \cup {r \in Runs : pc[r] # "start"}
  /\ LET open == {p \in Paths : mayHold[p] # {holder[p]}} IN
     \E gone \in SUBSET (Directories \ old),
       back \in [open -> UNION {mayHold[p] : p \in open}] :
       /\ \A p \in open : back[p] \in mayHold[p]
       /\ holder' = [p \in Paths |-> IF Directory[p] \in gone THEN "absent"
                                    ELSE IF p \in open THEN back[p] ELSE holder[p]]
  /\ mayHold' = [p \in Paths |-> {holder'[p]}]
  /\ UNCHANGED <<pos, old, got, wrote, spoiled, faults, meddling>>

\* Another program removes a file or puts one of its own.
Meddle(p) ==
  /\ meddling < MaxMeddling
  /\ meddling' = meddling + 1
  /\ \E h \in {"absent", "foreign", "unsafe"} \ {holder[p]} :
       /\ holder' = [holder EXCEPT ![p] = h]
       /\ mayHold' = [mayHold EXCEPT ![p] = @ \cup {h}]
  /\ Spoil(p)
  /\ UNCHANGED <<pc, pos, old, got, wrote, struck, faults, crashes>>

Step(r) == \/ SelfTest(r) \/ Preflight(r) \/ WriteFile(r) \/ WriteRefused(r)
           \/ ReadBack(r) \/ VerifyReadBack(r)

AllEnded == (\A r \in Runs : pc[r] \in Ended) /\ UNCHANGED vars

Next == \/ \E r \in Runs : Step(r) \/ WriteFault(r)
        \/ Crash \/ (\E p \in Paths : Meddle(p)) \/ AllEnded

Spec == Init /\ [][Next]_vars

-----------------------------------------------------------------------------
(* Properties                                                              *)

\* Nothing has failed, and nobody but runs without force has touched a file.
Quiet == /\ faults = 0 /\ meddling = 0 /\ crashes = 0
         /\ \A f \in Forced : wrote[f] = {}
\* All that have written anything begin with the same file name.
SameStart == \A r, s \in Runs :
               wrote[r] # {} /\ wrote[s] # {} => Dest[r][1] = Dest[s][1]

\* Runs without force that begin with the same file name (the default labels)
\* exclude one another: each writes its whole set or none of it, and an obstacle
\* at any destination is met before the first share is written.
AllOrNothing ==
  Quiet /\ SameStart =>
    \A r \in Runs : pc[r] \in Ended => wrote[r] \in {{}, 1..Size(r)}

Reported(r) == At(r, "ok") \/ At(r, "verified")

\* A power loss takes no share that was written: the directory was there before,
\* and it is synchronised after each share or the run ended long ago.
Lasting(r) == ShareDir(r) \in old /\ (ShareDir(r) \in SyncedDirs \/ r \in Earlier)
\* The manifest is lost with the shares.
Together(r) == /\ ShareDir(r) \in SyncedDirs
               /\ \A p \in Manifest(r) : Directory[p] = ShareDir(r)

\* A run vouches for its set when it has reported success, or when its manifest
\* is in its directory: for good, or until a power loss, according to where the
\* shares and the manifest are.
Vouched(r) ==
  \/ Reported(r) /\ (r \in struck => Lasting(r))
  \/ /\ \E p \in Manifest(r) : holder[p] = r
     /\ r \in struck => Lasting(r) \/ Together(r)

OnDisk(r) == {p \in SharePaths(r) : holder[p] = r}

\* No other run has made use of force, and no other program has interfered.
Undisturbed(r) == meddling = 0 /\ \A f \in Forced \ {r} : wrote[f] = {}

\* The set a run vouches for is there, every share of it in a file of its own,
\* whatever its labels, and no share of a competing or interrupted run, unless
\* another run has used force.  After a power loss this still holds where the
\* directory is older than the run and can be synchronised; and where it is not
\* older, a manifest beside the shares never survives them.
VouchedIsComplete ==
  \A r \in Runs : Vouched(r) /\ Undisturbed(r) =>
    /\ \A i \in 1..Shares[r] : holder[SharePath(r, i)] = r
    /\ Cardinality(OnDisk(r)) = Shares[r]

\* "Verified every threshold combination from the written share files": a file
\* that was changed between its writing and its reading is never vouched for,
\* when nobody else splits the same secret.
VerifiedUntouched ==
  \A r \in Wizards :
    At(r, "verified") /\ (\A s \in Runs \ {r} : Secret[s] # Secret[r]) => spoiled[r] = {}

Recoverable(r) == Cardinality(OnDisk(r)) >= Threshold[r]

\* A set that was complete is replaced with force, file by file, by a run that
\* may stop at any point, or that began before the set was complete, both with
\* force and their writes interleaved.  When the two thresholds sum to at most
\* n + 1, one of the two sets can be recovered from the directory at every
\* instant; of two 3-of-4 sets perhaps neither.  A power loss during the
\* replacement changes nothing if the first set was to last, even where the
\* directory cannot be synchronised: each name is then one or the other.
ReplacementKeepsASet ==
  \A s, r \in Runs :
    (/\ r # s /\ SharePaths(r) = SharePaths(s) /\ 1..Shares[s] \subseteq wrote[s]
     /\ s \in struck => Lasting(s) /\ Reported(s)
     /\ meddling = 0 /\ \A f \in Forced \ {r, s} : wrote[f] = {}
     /\ Threshold[r] + Threshold[s] <= Cardinality(SharePaths(s)) + 1)
    => Recoverable(s) \/ Recoverable(r)
=============================================================================

# Formal verification of shard-core

This directory is a verification development for shard-core: TLA+ models of its
programs, TLC configurations that check them on small instances, and proofs that
TLAPS checks for all instances. Every definition that models code is mapped to
the lines it translates by the `map` of `PROJECT.json`; paths below are relative
to `src/`, so that the package is `src/shard_core/` and `scripts/` holds the
release programs.

Contents: 1 the system, 2 the modules, 3 the models, 4 the runs, 5 fairness,
6 the proofs, 7 what is not modelled, 8 findings, 9 the plan.

## 1 The system

shard-core protects a secret as k-of-n text shares, writes them to files, and
recovers and verifies them. There is no server and no shared memory: concurrency
is several processes in one directory, and failure is a system call, an
interrupt, a kill or a power loss between two steps.

| component | state | operations | uses |
|---|---|---|---|
| `safeio.py`, publication | a directory entry, a temporary file | `atomic_write_bytes`, `preflight_output_paths`, `ensure_private_dir` | - |
| `safeio.py`, `cli.py`, limited reads | - | `read_limited_bytes`, passphrase and phrase files | - |
| `core.py`, sharing | none that outlives a call; a search over shards | `protect_secret`, `recover_with_report`, `recover`, `verify_complete_set`, `parse_shard` | - |
| `core.py`, labels | none | `normalize_labels`, `_sanitize_label` | - |
| `core.py`, encryption | none | `encrypt_payload`, `decrypt_payload` | - |
| `cli.py`, share sets | one file per share and perhaps a manifest | `_do_protect`, `_do_slip39_split`, and the commands that read | core, slip39, fordefi, manifest, safeio |
| `wizard.py` | the same files, and what it has read back | `_wizard_split` and its recovery dialogue | core, slip39, safeio |
| `manifest.py`, `slip39.py`, `fordefi.py` | none | build a manifest, wrap mnemonic schemes | core |
| `build-offline-bundle.py` | a lock, a temporary directory with two staged copies, a bundle | the two-build ceremony | release_support, container-build-wheel, git, podman |
| `container-build-wheel.py` | private copies of its inputs | build one wheel offline | release_support |
| `release_support.py` | - | `verify_wheelhouse`, locks, wheel names and tags, `atomic_write_json` | - |
| `fetch-reviewed-wheels.py` | a destination directory and a receipt | download and verify | release_support |
| `validate-release-wheels.py` | a work queue | closure over dependencies and extras | release_support |
| `install-offline.sh` | a target directory | verify a bundle, make an environment | pip |
| `install.sh` | - | find the only bundle and become its installer | `install-offline.sh` |
| tag and SBOM scripts | - | text checks, rendering | - |

**What is hard, and what correct means.** The code was written for the moment
between two steps: it looks at destinations before it makes shares and again
before it writes, it links rather than renames, it compares two builds and looks
at the host a second time. The properties say what those precautions add up to.

- *Publication of a file.* Two calls, another program, an error or a power loss
  in between. Correct: the name never denotes a torn file, is never taken from
  somebody without force, what a returned call published stays, and no temporary
  copy of a secret is left by an error.
- *Share sets.* A set is several files and nothing is rolled back. Correct: what
  is left by a lost race or a failure never passes for a complete set; replacing
  a set keeps one of the two recoverable; the wizard vouches only for what it
  has read back; and where the directory allows it, a power loss takes nothing
  that was reported.
- *Recovery.* Shards of several sets, damaged and relabelled ones, duplicates,
  headers that the old format did not authenticate, and a limit on the search.
  Correct: one unambiguous secret or an error, exactly when the list holds one,
  within the limit, with a report that accuses nobody wrongly; and verification
  means what it says to those who later recover.
- *Validation of wheels.* A queue of (project, extra) pairs, in which extras ask
  for extras of others, of their own and of the project. Correct: it ends, and it
  accepts exactly the wheelhouses from which all that is asked for, at any
  distance, can be installed.
- *Ceremony.* A long program over a host and a disk that may change under it.
  Correct: what is published is the reviewed content, built twice by approved
  tools, under a name nobody had, even when one of the two copies is corrupted at
  any moment; and a killed ceremony does not stand in the way of the next.

- *Fetching of wheels.* Two names that others may want, a receipt written in place,
  handlers that remove by name. Correct: a receipt vouches for the wheels beside
  it, a failure leaves nothing that blocks the next attempt, and nobody removes
  what is not his.
- *Offline installation.* A script that never cleans up, on a bundle that may
  have arrived damaged or change under it, into a path that others may use.
  Correct: what is reported as installed is one release, from the published files
  with nothing added that an inventory can see, and a published bundle can be
  installed whatever failed before.

The hazards behind these are listed one by one, with their lines and the
properties that cover them, under `hazards` in `PROJECT.json`.

## 2 The modules

| module | what it is | proofs |
|---|---|---|
| `SafeWrite` | `atomic_write_bytes` line by line | `SafeWriteProofs` |
| `AtomicPublish` | what one call of it promises, one step per write | (implemented by `SafeWrite`) |
| `ShareSet` | the programs that write a set of files, built on that promise | `ShareSetProofs` |
| `Recovery` | `recover_with_report`, `verify_complete_set`, their callers | `RecoveryProofs` |
| `OneAnswer` | what one request to them promises: a list in, one answer out, in one step | (implemented by `Recovery`) |
| `Ceremony` | the two-build ceremony | `CeremonyProofs` |
| `Labels` | `normalize_labels`: the file names of a set (used by `ShareSet`) | in `ShareSetProofs` |
| `Wheelhouse` | `read_hash_lock`, `wheel_supports_target`, `verify_wheelhouse` (used by `FetchWheels`) | in `FetchWheelsProofs` |
| `FetchWheels` | `fetch-reviewed-wheels.py` with `atomic_write_json` | `FetchWheelsProofs` |
| `OfflineInstall` | `install-offline.sh`, with pip and an operator | `OfflineInstallProofs` |
| `ValidateWheels` | the work queue of `validate-release-wheels.py` | `ValidateWheelsProofs` |
| `MCSafeWrite`, `MCShareSet`, `MCRecovery`, `MCCeremony`, `MCFetchWheels`, `MCOfflineInstall`, `MCValidateWheels` | values of the constants for TLC | |

The composition is `SafeWrite` => `AtomicPublish` => `ShareSet`: `SafeWrite`
implements `AtomicPublish` (checked and proved), so that `ShareSet` may write a
file in one step after which the name denotes the complete file. It takes from
there also that a write which raises may or may not have published, and that
durability is promised only in part (`DurabilityHolds` of `SafeWrite`): a name
that was written before the directory fsync returned may denote an older thing
after a power loss, the error of that fsync is swallowed, and a directory which
the program has made may itself be lost. `ShareSet` has a `mayHold` of its own
for this, one for each name. `Recovery`
implements `OneAnswer` (checked and proved). `ShareSet` takes its file names from `Labels`, and `FetchWheels` its verdict on a directory
from `Wheelhouse`; `Ceremony` takes that verdict (`Approves`) as a constant.

Operators whose comment begins with `[bug]` stand for plausible mistakes in the
code. No specification uses them; each is put in the place of the definition it
varies to see that a property does fail.

## 3 The models

**SafeWrite.** One action per system call of `atomic_write_bytes`, `pc[w]`
naming the next one. `entry` is what the output name denotes: a call (for the
file it wrote) or a kind of foreign object. `temp`, `data` and `synced` are the
call's own file. The disk after a power loss is kept beside the one that
processes see: `mayHold` is the set of things the name may denote afterwards,
grown by every change and cut to the current one by the directory fsync; a file
not synchronised may come back empty or partial. `dirSaved` tells whether the
parent existed before; the code never synchronises a parent that it created into
*its* parent, so that `Crash` may take the whole directory. The failures are
`OSFault` (any system call raises, the handlers run), `CleanupFails` (the
removal in a handler fails), `Signal` (an interrupt between two lines; outside
the `try` blocks no handler runs) and a directory fsync whose error is
swallowed. `Environment` is another program using the same name. Modes of files
are left out.

**AtomicPublish.** Three steps a call can take: publish, return, raise. The
refinement maps `pc` to what is known of the call and an entry whose file is
torn to a value the abstract machine does not have.

**Labels.** A label is what `_sanitize_label` leaves of it (`Empty` for nothing);
names are numbers, labels, or a label with a number. Since sanitising and cutting
may make different labels equal, equal labels are among the inputs, as are
labels that are numbers or look numbered.

**ShareSet.** One action per destination: self-test of the shards in memory,
look at each destination, write each, and for the wizard read each and verify.
`holder[p]` names the run whose file bears the name `p`; contents need not be
kept, since a run writes a fixed thing to each name. `mayHold[p]` is what the name
may denote after a power loss: `Publish` adds the run's file to it and cuts it,
for all names of the directory, to what they hold, if the filesystem is one that
synchronises directories (`SyncedDirs`); a write that fails leaves it grown.
`old` are the directories that were there before the runs. `ensure_private_dir`
makes the others and synchronises no parent, so that `Crash` takes any of them
that are not old with all their files, and gives each name elsewhere one of the
things in `mayHold`. `wrote`, `spoiled` and `struck` (who had begun before a power
loss) are history. Runs are constants: who is a wizard, who has force, sizes, thresholds,
labels (and with them the order of destinations), and which secret. `protect` differs from `slip39 split`
and the wizard in the manifest, the self-test and the limit on it.
Colliding labels, symbolic links and directories in the way are all in the
initial states and in `Meddle`; a symbolic link that appears after the last check
of a run with force is replaced, as `os.replace` does (`Available`).

`VouchedIsComplete` and `ReplacementKeepsASet` say when they survive a power loss.
Until one, a reported success or a manifest means a complete set in any directory.
After one, it does when the share directory is old and each of its writes was
synchronised (`Lasting`); and a manifest that lies beside the shares in a
synchronised directory is lost with them (`Together`), even if the directory is
new. Otherwise the shares may be gone although the run reported success, and a
manifest in another, older directory may remain: both are reachable in the model
and excluded by these premises.

**Recovery.** A shard is a record of parsed fields, each of which may be wrong
on its own; nonce, tag and ciphertext are one field (`body`), the two key shares
another (`key`). The cipher and the sharing are ideal. One action per phase and
element: parse one shard, dedupe one group, apply the budget, search one group,
conclude. `op` selects `recover`, `verify-set`, or `verify-set
--require-complete`; after a pass, `Redraw` hands some of the shards back, in
any order and repetition, to `recover`. `told` is what a command tells its user
of duplicates. The check that two combinations of *one* group agree has nothing
to find under an ideal cipher and is left out.

**OneAnswer.** Two steps: `Decide` gives the answer, `AskAgain` asks about shards
of a set that has passed. `VerdictOn` in `Recovery` says which answer that is, from
the operation and the list alone: which of several reasons to refuse is
given, whose secret comes out, which indices are accused, which set passes.
`Promise` is the instance under the mapping `AnswerGiven`, by which all phases
before the conclusion are stutters. The duplicates in a report are outside the
mapping: they depend on how often a share is in the list, the rest does not.

**Ceremony.** One action per phase of `main`, in its order: the tools, the
commit, the environment, the lock, extraction, locks, snapshots, verification,
comparison, name, the two builds, the second look at everything, the release
files, comparison of wheels, assembly, publication. A staged item is its
contents; a digest is ideal. Corruption changes one item of one copy at any
moment after it was staged. The exported project wheel may change still later:
it is compared as bytes, read again to be recorded in the provenance, and once
more to be copied into the bundle (`late` says that it changed after the
comparison, `Bent` is a changed wheel that still installs); the host,
the repository or the final name may change for good. A killed builder frees the
lock and leaves its temporary directory, which nobody looks at again.

**Wheelhouse.** A wheel is the record that `inspect_wheel` returns for it, a lock
the sequence of its lines. `VerifyWheelhouse` follows the code line by line;
`ExactlyLocked` is the reference, a one-to-one pairing of lines and files.

**FetchWheels.** One action per call that touches a shared name: the look, `mkdir`,
`pip download`, the verification, the second reading of the lock for its digest,
the exclusive creation of the receipt, its bytes, the flag, and the handlers.
`holder[p]` names the fetcher whose directory or receipt bears the name `p`.
What pip leaves is the wheels that the lock asks for, or anything when `"pip"` is
among the faults. Faults come in sets, so that `FailureIsClean` may say which of
them it needs to be absent: an interrupt between two lines reaches the handlers
that are in force there, and between the receipt and the flag these remove the
wheels and keep the receipt. A power loss is not modelled, since the
program synchronises no wheel.

**OfflineInstall.** One action per command, but `sha256sum` goes file by file and
pip is three steps: the requirements, all wheels (each compared with the
requirements), one wheel installed at a time. A file is known by the release it
belongs to. `Present` is what `find . -type f ! -name SHA256SUMS` prints:
`"special"` content is neither a regular file nor a symbolic link (a FIFO, a
socket), and `Overlooked` are the names that no release ships and that end in
`SHA256SUMS` in whatever directory. Neither is part of the inventory, and
`Unseen` says what may therefore be in a bundle that was installed. `SHA256SUMS` is taken to be that of one release, since without it
nothing can be said; all else in a bundle may be wrong, missing, added or a
symbolic link at the start (`MaxWrong` bounds how many), and change at any
moment. `made` records who set up the present environment: two installers that
looked before either made the target both go on, and `venv` merges.
`Retry` and `RemoveTarget` are the operator, who removes only what nobody
works on and nobody has finished.

**ValidateWheels.** One action per turn of each loop of `main`: the inspection
of all wheels, the seeding of the queue, taking or skipping a pair, one
requirement, one of its extras. A wheel is what `inspect_wheel` returns
(`sound` when it returns at all); whether a marker holds under an extra and
whether a version fits are fields, so that the packaging library is taken to be
right. `requirement.extras` is a set of strings, so that `Extra` takes any next
one. The reference (`Needed`) is written without the queue, as the intersection
of all closed sets.

## 4 The runs

Twelve, each a question of its own. Two workers take two minutes at most for each.

| run | what it shows | bounds |
|---|---|---|
| `safewrite_faults` | with every kind of fault: no torn file (`NeverTorn`), no replaced file (`NoClobber`), each step is one of the abstract machine (`ImplementsPublication`) | two calls without force, one with it; every initial directory and entry; one move of another program, one power loss |
| `safewrite_outcome` | durability (`DurableWhenDone`), no temporary copy of a secret left by errors (`TempRemoved`), a call that raised while nothing failed has a reason that still stands (`RefusedForAReason`), not everybody refuses because of the others (`SomeoneWins`) | the same calls; every kind of parent directory; no faults, or failing system calls; one creation by another program; one power loss |
| `shareset_cross` | `AllOrNothing`: runs whose labels begin with the same name exclude one another as wholes; `VouchedIsComplete`: success and the presence of a manifest vouch for a complete, unmixed set, each share in a file of its own | five runs: two of different sizes with the same labels, one with a manifest at a name that the other uses for a share, a third with the labels in another order, one over the limit, one with force and labels that collide; a synchronised directory that is old or new; two failures, one power loss |
| `shareset_replace` | `ReplacementKeepsASet` up to the boundary k + k' = n + 1; `VerifiedUntouched` | a 2-of-4 set replaced by a 3-of-4 set in another order and by a 2-of-4 set, one after the other or interleaved; a wizard with a single label, in a directory of its own; an old directory that cannot be synchronised and a new one that can; one move of another program, two failures, one power loss |
| `recovery_lists` | `RecoversTheOnlySet`, `BoundedWork`, `ReportExact`, `VerifiedRecovers`, and that the whole is one answer to one list (`ImplementsOneAnswer`) | all lists of up to 4 shards from a pool of 15, of up to 5 from two complete sets with damage, lists of up to 4 redrawn from verified ones; limit 3 |
| `recovery_duplicates` | that `DuplicatesReported` fails (section 8) | lists of up to 3 |
| `ceremony_copies` | `OneIntactCopySuffices`, `ProvenanceTells` | one ceremony, three corruptions, three wheelhouses of which the reviewed lock approves two, unstable wheelhouses, builds with two possible results |
| `ceremony_host` | the lock excludes (`TypeOK`), `BuiltByApprovedTools`, `NeverReplaces`, on an approved and quiet host a ceremony fails only when beaten to the name (`FailsOnlyBeaten`), `NotBlockedByCrash` | two ceremonies, two changes of the host or name, one kill |
| `fetch_wheels` | a receipt vouches (`ReceiptVouches`), a failure is clean (`FailureIsClean`), nobody removes another's files (`RemovesOwnOnly`), who is refused without a fault lost to one that goes on or has ended well (`LosesToAnother`), not everybody refuses because of the others (`SomeoneFetches`) | three fetchers, two on one destination and two on one receipt; two locks, three wheels; four sets of faults; one edit of the lock, one name taken by another program |
| `offline_install` | one release (`NeverMixed`), from a bundle with all the published files and nothing else that the inventory sees (`InstalledFromPublished`); a published bundle is installed in the end (`EventuallyInstalled`) | two installers with one target, bundles of two releases of three files, the first with a wrong, lost or added one; two names that may be added, one of them a `SHA256SUMS`; a change of one file or the whole bundle, one command that fails |
| `offline_extra` | that `NothingExtra` fails (section 8) | as `offline_install` |
| `validate_wheels` | `AcceptsExactly`, `Terminates` | a project with up to two requirements and two extras, two dependencies with up to two and one, missing, duplicate, unsound and unsuitable wheels, requests for one or two extras |

Why these are enough to meet the cases. Two calls without force are needed for
a lost race, one with force to replace a winner; calls that begin after the power
loss meet what it left behind. A race on sets needs runs that overlap in
different orders and differ in size; the boundary of `ReplacementKeepsASet` needs
n = 4, where 2 + 3 = n + 1 and a run stopped at any file has exactly one of the
two sets left. One power loss is enough to have runs that it struck
beside runs that begin after it. An ambiguity needs two complete sets, an exact report a damaged
share that fails with one partner and a group beside it, and a budget of three is
what a single 2-of-3 group asks for, so that any second group exceeds it. Three
corruptions suffice to change a copy, let it be checked against the other, and
change it back. A fetcher meets all that may stand in its way with one rival for
each of its names. One wrong file shows what each check of the installer sees;
one change of all files at once is an exchanged directory, and one failed command
leaves an environment behind for the next attempt. The shortest circle of extras
through three projects needs one requirement each. What small instances could
miss is what the proofs are for: with the exceptions of section 6 every safety
property is proved without bounds.

Every passing run checks deadlock: when all is over, and only then, the model
stutters (`AllEnded`, `Ended`).

Each property is also shown to be able to fail: for each there is a mutant of the
code in `PROJECT.json` under which the same run reports a violation (the fsync
forgotten, the link replaced by a rename, only the first destination looked at,
a budget per group, one copy read for the release files, ...).

## 5 Fairness

Fairness is used for five properties only.

- `SomeoneWins` assumes weak fairness of each call's own next step: the operating
  system schedules a process that is not waiting, and `atomic_write_bytes`
  waits for nobody. No fairness is assumed of failures, of power loss or of
  other programs.
- `NotBlockedByCrash` assumes weak fairness of each builder's next step, which
  includes `Retry`: the operator whose ceremony was refused by the lock starts
  it again. `flock` does not wait, so that without an operator who insists the
  program itself promises nothing. Builders may be killed; kills are not fair.
- `SomeoneFetches` assumes weak fairness of each fetcher's next step, which waits
  for nobody; it is stated for runs without faults, edits and other programs.
- `EventuallyInstalled` assumes weak fairness of each installer's next step, of
  `Retry` and of `RemoveTarget`: an operator who does not give up and removes
  what a failed attempt left. The script refuses an existing target, so that it
  promises nothing without him.
- `Terminates` assumes that the validator runs: weak fairness of its next step.

## 6 The proofs

| module | theorems | argument |
|---|---|---|
| `SafeWriteProofs` | `TypeCorrect`, `NeverTornCorrect`, `NoClobberCorrect`, `DurableCorrect`, `TempRemovedCorrect`, `RefusedForAReasonCorrect`, `NeverAllRefuse`, `Refinement` | `NeverTorn` alone is not inductive: a power loss may bring back an older entry or lose contents. `SyncInv` says that whatever the name may denote after a power loss is complete and synchronised, and that a call about to publish has synchronised its file. `DurableInv` says, where durability can be promised, which entries may still be restored as each call advances. The refinement shows each step to be one abstract step or a stutter, using both. `TempInv` says at which lines a call may own a temporary file. `ReasonInv` follows, while nothing fails, what made the name taken and the parent appear: `PlaceInv` finds the call behind each, `CallInv` the reason of each that raised |
| `ShareSetProofs` | `TypeCorrect`, `AllOrNothingCorrect`, `VouchedCorrect`, `ReplacementCorrect`, `VerifiedCorrect`, `LabelsDistinct` | an invariant of owners: without force from others a name written by a run stays its own, so a run's position counts exactly the files it holds. For power losses this is not enough: `KeepInv` says that a share which is `Firm` (its name may hold nothing else) stays so, that all shares of a run whose directory is synchronised are firm but for the one whose write failed (`Sure`), and that a manifest which may be found in their directory comes with all of them firm; what is firm outlives a power loss when its directory does (`FirmSurvives`). For `AllOrNothing`, whoever holds the common first name finds the rest free. The replacement is an exchange: the names of the two sets are the same n, and each is, or after a power loss may only be, one or the other (`ReplaceOf`), so that fewer than k and fewer than k' cannot both be; a third run with force that has written nothing changes nothing. What a wizard has read was the share it wrote, or another's, which fails under another secret. `LabelsDistinct` says for which labels no two shares can meet in one file: none, one, or distinct ones of which none is the number of another position |
| `RecoveryProofs` | `TypeCorrect`, `RecoversTheOnlySetCorrect`, `BoundedWorkCorrect`, `ReportExactCorrect`, `VerifiedRecoversCorrect`, `ImplementsOneAnswerCorrect`, all from `Invariance`; `OrderDoesNotMatter` | the invariant says for each phase what the part of the list before `pos` has established: groups are the headers so far, candidates and rejected groups partition those deduped, `total` counts their combinations exactly (so the budget is over all groups together), the searched candidates are split by whether they hold the secret. That some combination authenticates exactly when enough genuine shares lie under a sealed header is a lemma on sets (`AuthenticatingFacts`), and so is that a verified set answers for any choice from it (`SoundForAnyChoice`). For the refinement each conclusion is shown to give `VerdictOn` of the list, and each earlier phase to leave the answer open. Since `VerdictOn` uses the list only through the set of its shards, order and repetition do not matter |
| `CeremonyProofs` | `TypeCorrect`, `OneIntactCorrect`, `ProvenanceCorrect`, `ToolsCorrect`, `NeverReplacesCorrect`, `FailsOnlyBeatenCorrect` | `OneIntactCopySuffices` holds at the end only because of what each check found of both copies. The invariant `IInv` says, for each builder, what an intact copy still holds (`IntactInv`), what has been taken from the disk and was compared (`TakenInv`), that tools seen approved a second time were approved during both builds (`ToolsInv`, since changes last), and what is in the bundle so far (`AssembledInv`). `CalmInv` is for the quiet host: what is looked at again is what was taken down (`Plain`), so that of all checks only the name can stop a ceremony, and then it is another's |
| `FetchWheelsProofs` | `VerifiedIsExact`, `ExactIsVerified`, `TypeCorrect`, `ReceiptVouchesCorrect`, `FailureIsCleanCorrect`, `RemovesOwnCorrect`, `LosesToAnotherCorrect`, `NotAllRefusedCorrect` | `VerifiedIsExact` makes the pairing from what `verify_wheelhouse` compares (one match for each line, as many files as lines), and `ExactIsVerified` goes back: of readable locks and files nothing else is refused. The rest is ownership: from its `mkdir` until its removal a fetcher holds its destination, and no one else can, so that removal by name hits only its own. `LossInv` says that without faults nothing fails but a claim of a name (`Untroubled`), and that whoever lost one is behind a fetcher that goes on or has its wheels (`Beaten`): the one with the receipt in question is ahead, and cannot lose in its turn |
| `OfflineInstallProofs` | `TypeCorrect`, `InstalledFromPublishedCorrect`, `NeverMixedCorrect`, `OnlyTheTargetRefusesCorrect` | the lines of `SHA256SUMS` before `pos` name files that match, while nothing has changed, and the requirements file also after other files have (`Agrees`); an environment with one maker holds, for each package, what its requirements list or what is still to be installed (`Fills`). A name outside `SHA256SUMS` that differs from the published bundle is thus not a symbolic link and not in the inventory, which leaves what `Unseen` names. `Serves` says that a published bundle on a suitable machine passes each check up to where the installer is, also beside another at the same target |
| `ValidateWheelsProofs` | `TypeCorrect`, `AcceptsExactlyCorrect`, `AlwaysNearerCorrect` | all that is queued is needed, and every processed pair has been followed completely, but for the one at hand, which has been followed up to `pos` and `pending`; hence an empty queue leaves a closed set, and the needed one is the least of these (`NeededFacts`). A refusal names a needed pair with an unsatisfied requirement (`Unsatisfied`). `AlwaysNearer` is a lexicographic measure: the needed pairs not yet processed, the stage of the program, what is left of the requirements or the queue, the extras still pending; the needed pairs are finitely many (`NeededIsFinite`), although extras may ask for each other in circles |

All hold for every number of calls, runs, shards, builders, faults, changes and
crashes, whichever directories are synchronised or old, under the named
assumptions on constants: sets that must be disjoint are disjoint, thresholds lie
between 2 and n, n at most 255, the shares of a run lie in one directory, bounds
are natural numbers. TLC evaluates these assumptions in each run.

**Only model-checked.** The five liveness properties as such: fairness, and the
`ENABLED` in it, are out of the prover's reach. Of each the safety half is proved,
that nothing is left which could keep the program from its end:

| liveness property (TLC) | safety half (proved) | what it says |
|---|---|---|
| `SomeoneWins` | `NeverAllRefuse` | calls that have all ended, undisturbed, did not all raise because of each other |
| `NotBlockedByCrash` | `FailsOnlyBeatenCorrect` | on a quiet, approved host a ceremony fails only when another has published, whatever was killed |
| `SomeoneFetches` | `NotAllRefusedCorrect` | fetchers that have all ended, undisturbed, did not all lose |
| `EventuallyInstalled` | `OnlyTheTargetRefusesCorrect` | a published bundle is refused for an existing target and for nothing else |
| `Terminates` | `AlwaysNearerCorrect` | each step of the validator comes nearer to its end in a well-founded order |

What remains for TLC is that fair processes do take their steps, and for
`NotBlockedByCrash` and `EventuallyInstalled` that an operator tries again.
`OnlyTheTargetRefuses` and `AlwaysNearer` are stated beside their proofs.

## 7 What is not modelled, and why

- Cryptography, `shamir-mnemonic`, git, podman, pip: external. Where their
  outcome matters they are ideal (a key decrypts exactly what it should) or an
  arbitrary failure.
- `encrypt_payload`, `decrypt_payload`, Fordefi phrases, the rendering of
  manifests and of the SBOM, the tag check: pure functions of one input, with
  nothing to interleave.
- `read_limited_bytes` and the files of passphrases and phrases: one process that
  looks, opens and reads once, and changes nothing.
- `generate-ceremony-lock.sh`: a draft for people to review; `install.sh`: finds
  a bundle and becomes its installer.
- Prompts, argument parsing, wording, modes of files: no state that a property is
  about.
- Hosted workflows: configuration.
- A power loss during the ceremony, a fetch or an installation: the models stop
  processes but keep the disk. None of these programs synchronises the files it
  would have to vouch for.
- Reading of wheels as zip archives and of metadata, names and tags as text: a
  wheel is the record that this yields. A tag such as `cp3-abi3`, at which
  `wheel_supports_target` stops with an error, counts as one that does not fit; it
  makes a difference only for a wheel in which another tag fits, and such wheels
  are left out.
- Paths of the fetcher below one another. Its names are flat: a receipt that is a
  directory above the destination, or another fetcher's names below one's own
  destination, are not among the inputs of `FetchWheels`.
- Losses of files that other programs have written, and file systems that lose
  what was synchronised.

## 8 Findings

`recovery_duplicates`. `README.md:239` says "Identical duplicate shares are
reported; conflicting duplicates fail." The second half is what the code does,
and `RecoversTheOnlySet` depends on it. The first is not so for users:
`recover_with_report` records duplicates, but `core.recover` drops the record and
all commands call `core.recover`. A recovery that succeeds with a duplicate in its
list says nothing of it; only the error for too few shards does. The shortest
counterexample is two shares of one set and one of them a second time.

`offline_extra`. `release/VERIFY.md:14-15` says "Do not install if any file is
missing, extra, or has a mismatched digest. The installer repeats these checks and
refuses symlinked files." For missing, changed and linked files it does, and for
what is extra with an exception: `release/install-offline.sh:33` leaves
`SHA256SUMS` out of the inventory by `! -name SHA256SUMS`, which compares base
names, so that a file `wheels/SHA256SUMS`, or one of that name in any directory,
does not count. In the run a bundle arrives with all its published files and one
more of that name, and is installed. (`-type f` passes over a FIFO or a socket as
well.) What pip installs is the published release all the same: it takes only
what the requirements list. `InstalledFromPublished` says that nothing else can
be extra.

Things the models show that no document denies, so that they are limits of
the promises and not disagreements:

- Two forced runs over the same labels may both succeed and leave a mix of two
  sets (`VouchedIsComplete` excludes a foreign force). With k + k' <= n + 1 one of
  the two can be recovered all the same; with larger thresholds perhaps
  neither, and so it is for a forced replacement that stops half way.
- A forced run without a manifest leaves the manifest of the set before it.
- A power loss after `protect` or the wizard has reported success may take the
  whole set, when the output directory is one that the program has made: it
  synchronises the directory but not its parent. A manifest that was written to
  another directory may remain. Where a filesystem cannot synchronise directories
  the error is swallowed, and single shares may be lost. What does hold is in the
  premises of `VouchedIsComplete`.
- An interrupt of the fetcher between its receipt and its flag leaves a receipt
  without wheels; it must be removed by hand.
- A project wheel that changes in a staged copy after the two builds were compared
  goes into the bundle, but the provenance still names the one that both
  containers built (`ProvenanceTells`).
- Two installers started at once on one target may leave a mix of two bundles and
  both report success.

## 9 The plan

Done: `SafeWrite` and its refinement; `Labels` and `ShareSet`; `Recovery`;
`Ceremony`; `ValidateWheels`; `Wheelhouse` and `FetchWheels`; `OfflineInstall`;
the proofs of all their safety properties; `OneAnswer`, which `Recovery`
implements; the safety half of each liveness property.

What could still be added:

1. The verdict of `Wheelhouse` in place of the constant `Approves` of `Ceremony`,
   so that both programs are shown to accept the same directories.
2. The bundle that `Ceremony` publishes as the bundle that `OfflineInstall` begins
   with, down to the writing of `SHA256SUMS`.

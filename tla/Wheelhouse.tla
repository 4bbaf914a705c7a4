----------------------------- MODULE Wheelhouse ------------------------------
(***************************************************************************)
(* release_support: which directories of wheels a hash lock approves for a *)
(* target.  A file of a directory is a record: the project, version and    *)
(* tags that inspect_wheel reads from it, its digest, and whether it is a  *)
(* regular .whl file whose name and metadata agree at all.  A lock is the  *)
(* sequence of its lines.                                                  *)
(***************************************************************************)
EXTENDS Naturals, Sequences, FiniteSets

CONSTANT NoMinor  \* the minor version in a tag such as "py3"

\* read_hash_lock accepts the file: pins with hashes, one for each project.
ReadableLock(lock) ==
  /\ lock # <<>>
  /\ \A i \in DOMAIN lock : lock[i].hashes # {}
  /\ \A i, j \in DOMAIN lock : lock[i].project = lock[j].project => i = j

\* Pure Python, built for this very interpreter, or for the stable ABI of an
\* older one.  The code stops with an error at a tag such as cp3-abi3, which has
\* no minor version, where this says that it does not fit: the wheel is refused
\* either way.  A wheel in which another tag fits beside such a one is left out.
Fits(tag, target) ==
  /\ tag.platform \in {"any", target.platform}
  /\ tag.major = target.major
  /\ \/ tag.impl = "py" /\ tag.minor \in {NoMinor, target.minor} /\ tag.abi = "none"
     \/ /\ tag.impl = target.impl /\ tag.impl # "py" /\ tag.minor = target.minor
        /\ tag.abi \in {"none", "abi3", target.abi}
     \/ /\ tag.impl = "cp" /\ tag.abi = "abi3"
        /\ tag.minor # NoMinor /\ tag.minor <= target.minor

SupportsTarget(wheel, target) == \E tag \in wheel.tags : Fits(tag, target)

\* What the line says of the wheel that is to satisfy it.
Approves(line, wheel, target) ==
  /\ wheel.version = line.version
  /\ wheel.digest \in line.hashes
  /\ SupportsTarget(wheel, target)

Matches(line, files) == {w \in files : w.project = line.project}

\* [bug] of several wheels of a project, one has to be approved.
VerifyOneOfSeveral(lock, files, target) ==
  /\ ReadableLock(lock)
  /\ files # {} /\ \A w \in files : w.wellFormed
  /\ {w.project : w \in files} = {lock[i].project : i \in DOMAIN lock}
  /\ \A i \in DOMAIN lock : \E w \in Matches(lock[i], files) : Approves(lock[i], w, target)

VerifyWheelhouse(lock, files, target) ==
  /\ ReadableLock(lock)
  /\ files # {} /\ \A w \in files : w.wellFormed
  /\ {w.project : w \in files} = {lock[i].project : i \in DOMAIN lock}
  /\ \A i \in DOMAIN lock :
       /\ Cardinality(Matches(lock[i], files)) = 1
       /\ \A w \in Matches(lock[i], files) : Approves(lock[i], w, target)

\* What it is for: the files and the lines of the lock can be paired off.
ExactlyLocked(lock, files, target) ==
  \E chosen \in [DOMAIN lock -> files] :
    /\ \A i, j \in DOMAIN lock : chosen[i] = chosen[j] => i = j
    /\ \A w \in files : \E i \in DOMAIN lock : chosen[i] = w
    /\ \A i \in DOMAIN lock : /\ chosen[i].project = lock[i].project
                              /\ Approves(lock[i], chosen[i], target)
=============================================================================

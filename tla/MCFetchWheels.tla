--------------------------- MODULE MCFetchWheels ----------------------------
(* Two projects, for CPython 3.11 on one platform: A has a wheel for the   *)
(* stable ABI of 3.9 and one for that of 3.12, B a pure one.  One lock is  *)
(* for A in either build and B, the other for A in the newer build only,   *)
(* which does not fit.  Two fetchers share a destination and two a receipt. *)
EXTENDS FetchWheels

CONSTANTS f1, f2, f3, dirA, dirB, recR, recS, projA, projB

MCDestination == [f \in Fetchers |-> IF f = f3 THEN dirB ELSE dirA]
MCReceipt == [f \in Fetchers |-> IF f = f2 THEN recS ELSE recR]

Tag(impl, minor, abi, platform) ==
  [impl |-> impl, major |-> 3, minor |-> minor, abi |-> abi, platform |-> platform]
File(project, digest, tag) ==
  [project |-> project, version |-> 1, digest |-> digest, tags |-> {tag}, wellFormed |-> TRUE]

MCTarget == [impl |-> "cp", major |-> 3, minor |-> 11, abi |-> "cp311", platform |-> "linux"]
Stable == File(projA, 2, Tag("cp", 9, "abi3", "linux"))
Newer == File(projA, 3, Tag("cp", 12, "abi3", "linux"))
Pure == File(projB, 4, Tag("py", NoMinor, "none", "any"))
MCOffered == {Stable, Newer, Pure}

Line(project, hashes) == [project |-> project, version |-> 1, hashes |-> hashes]
MCLocks == {<<Line(projA, {2, 3}), Line(projB, {4})>>, <<Line(projA, {3})>>}

MCFaultSets == {{}, {"pip"}, {"os", "kill"},
                {"os", "unlink", "rmtree", "signal"}}
=============================================================================

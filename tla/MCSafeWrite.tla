---------------------------- MODULE MCSafeWrite ----------------------------
(* Instances of SafeWrite for TLC: w1 and w2 are calls without force, f1   *)
(* with force.  w1 and w2 are interchangeable.                             *)
EXTENDS SafeWrite, TLC

CONSTANTS w1, w2, f1

Calls == {w1, w2, f1}
OnlyF1 == {f1}
Symmetry == Permutations({w1, w2})

AnyDir == DirKinds
AnyFault == {FaultKinds}
NoneOrErrors == {{}, {"os"}}
=============================================================================

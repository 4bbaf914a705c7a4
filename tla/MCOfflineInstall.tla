-------------------------- MODULE MCOfflineInstall --------------------------
(* Two installers with the same target, from the bundles of two releases,  *)
(* the first of which may have arrived with a wrong file.  A release has   *)
(* its requirements and two wheels; what was added may be called           *)
(* SHA256SUMS itself, in the directory of the wheels.                      *)
EXTENDS OfflineInstall

CONSTANTS i1, i2, bundleA, bundleB, target, r1, r2,
          requirements, wheel1, wheel2, added, addedSums

MCBundleOf == [i \in Installers |-> IF i = i2 THEN bundleB ELSE bundleA]
MCTargetOf == [i \in Installers |-> target]
MCListed == [b \in Bundles |-> IF b = bundleA THEN r1 ELSE r2]
MCMaxWrong == [b \in Bundles |-> IF b = bundleA THEN 1 ELSE 0]
MCOrder == <<requirements, wheel1, wheel2>>
=============================================================================

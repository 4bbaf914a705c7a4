----------------------------- MODULE MCCeremony -----------------------------
(* Instances of Ceremony for TLC.                                          *)
EXTENDS Ceremony, TLC

CONSTANTS b1, b2, reviewed, stray, w1, w2, w3

\* The reviewed lock approves two wheelhouses: it may list several hashes for
\* one project.  Another lock may approve anything.
MCApproves == reviewed :> {w1, w2} @@ stray :> {w1, w3}
=============================================================================

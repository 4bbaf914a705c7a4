---------------------------- MODULE MCShareSet -----------------------------
(* Instances of ShareSet for TLC.  cmd, cmd2 and twice are protect         *)
(* commands, word a SLIP-39 split, wiz a wizard, prior a set written       *)
(* before the others.  The numbered names lie in the directory out, those  *)
(* of the label ann in side.                                               *)
EXTENDS ShareSet, TLC

CONSTANTS cmd, cmd2, twice, word, wiz, prior, ann, out, side

NoManifest == <<>>
Params(r, k, n, labels, manifest) ==
  r :> [k |-> k, n |-> n, labels |-> labels, manifest |-> manifest]
Ks(t) == [r \in DOMAIN t |-> t[r].k]
Ns(t) == [r \in DOMAIN t |-> t[r].n]
LabelsIn(t) == [r \in DOMAIN t |-> t[r].labels]
ManifestsIn(t) == [r \in DOMAIN t |-> t[r].manifest]

Numbers(order) == [i \in DOMAIN order |-> Number(order[i])]
FourPaths == {Number(i) : i \in 1..4}
SixPaths == FourPaths \cup {Numbered(ann, 1), Numbered(ann, 2)}
MCDirectory == [p \in Paths |-> IF p \in FourPaths THEN out ELSE side]
OnlyOut == {{out}}
OutOrNone == {{}, {out}}
OnlyTwice == {twice}
OnlyWord == {word}
OnlyWiz == {wiz}
OnlyPrior == {prior}
BothCmds == {cmd, cmd2}

\* Two runs with the default labels, one of which has a manifest at a name that
\* the other uses for a share, and a wizard with the same names in another order;
\* cmd2 asks for more combinations than the limit, and a run with force has
\* labels that collide.
CrossTable == Params(cmd, 2, 2, <<>>, <<Number(3)>>)
              @@ Params(word, 2, 3, Numbers(<<1, 2, 3>>), NoManifest)
              @@ Params(wiz, 2, 3, Numbers(<<3, 2, 1>>), NoManifest)
              @@ Params(cmd2, 2, 4, Numbers(<<4, 3, 2, 1>>), NoManifest)
              @@ Params(twice, 2, 2, <<Number(2), Empty>>, NoManifest)
CrossRuns == DOMAIN CrossTable
CrossK == Ks(CrossTable)
CrossN == Ns(CrossTable)
CrossLabels == LabelsIn(CrossTable)
CrossManifests == ManifestsIn(CrossTable)

\* A 2-of-4 set is replaced by a 3-of-4 set (2 + 3 = 4 + 1: the boundary) in
\* another order and with a manifest, and by a 2-of-4 set, perhaps at the same
\* time; a wizard with a single label and a secret of its own wants a name that
\* is also that of a manifest.
ReplaceTable == Params(prior, 2, 4, <<>>, NoManifest)
                @@ Params(cmd, 3, 4, Numbers(<<2, 1, 4, 3>>), <<Numbered(ann, 1)>>)
                @@ Params(cmd2, 2, 4, <<>>, NoManifest)
                @@ Params(wiz, 2, 2, <<ann>>, NoManifest)
ReplaceRuns == DOMAIN ReplaceTable
ReplaceK == Ks(ReplaceTable)
ReplaceN == Ns(ReplaceTable)
ReplaceLabels == LabelsIn(ReplaceTable)
ReplaceManifests == ManifestsIn(ReplaceTable)

OwnSecret(runs) == [r \in runs |-> r]
CrossSecret == OwnSecret(CrossRuns)
ReplaceSecret == [r \in ReplaceRuns |-> IF r = wiz THEN wiz ELSE prior]
=============================================================================

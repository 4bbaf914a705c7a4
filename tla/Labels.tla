------------------------------- MODULE Labels --------------------------------
(***************************************************************************)
(* core.normalize_labels: the names of the shares of a set, from the       *)
(* labels its owner gave.  A label is what _sanitize_label leaves of it,   *)
(* Empty when that is nothing; blank ones are dropped before.  Different   *)
(* labels may be left with the same name, and a label may be a number or   *)
(* look like a numbered one, so that names may collide.                    *)
(***************************************************************************)
EXTENDS Naturals, Sequences

CONSTANTS Empty,   \* nothing safe is left of a label
          NoStem

\* "01", "02", ... and "label-1", "label-2", ...
Number(i) == [stem |-> NoStem, number |-> i]
Numbered(label, i) == [stem |-> label, number |-> i]

\* A label that is missing or empty falls back to its number.
LabelOrNumber(labels, i) ==
  IF i \in DOMAIN labels /\ labels[i] # Empty THEN labels[i] ELSE Number(i)

NormalizeLabels(labels, count) ==
  [i \in 1..count |->
     IF Len(labels) = 1 /\ labels[1] # Empty /\ count > 1
     THEN Numbered(labels[1], i) ELSE LabelOrNumber(labels, i)]
=============================================================================

--------------------------- MODULE AtomicPublish ---------------------------
(***************************************************************************)
(* What one call of safeio.atomic_write_bytes promises, without temporary  *)
(* files, checks or system calls: the target takes the complete file in a  *)
(* single step, at most once per call, or the call raises.  A call may     *)
(* raise after its file took the name; it never returns without it.        *)
(***************************************************************************)
CONSTANTS Writers, Forced

VARIABLES
  entry,    \* what the name denotes: a writer's complete file, or a kind
  mayHold,  \* what it may denote after a power loss
  result    \* what is known of each call

vars == <<entry, mayHold, result>>

Kinds == {"absent", "file", "symlink", "directory"}
Results == {"pending", "published", "ok", "error"}

Init == /\ entry \in Kinds
        /\ mayHold = {entry}
        /\ result = [w \in Writers |-> "pending"]

Publish(w) ==
  /\ result[w] = "pending"
  /\ IF w \in Forced THEN entry # "directory" ELSE entry = "absent"
  /\ entry' = w
  /\ mayHold' = mayHold \cup {w}
  /\ result' = [result EXCEPT ![w] = "published"]

\* Returning may leave fewer names for a power loss to restore, never fewer
\* than the current one.
Return(w) ==
  /\ result[w] = "published"
  /\ result' = [result EXCEPT ![w] = "ok"]
  /\ mayHold' \in {mayHold, {entry}, {entry, "absent"}}
  /\ UNCHANGED entry

Raise(w) ==
  /\ result[w] \in {"pending", "published"}
  /\ result' = [result EXCEPT ![w] = "error"]
  /\ UNCHANGED <<entry, mayHold>>

PowerLoss ==
  /\ entry' \in mayHold
  /\ mayHold' \in {{entry'}, {entry', "absent"}}
  /\ result' \in [Writers -> Results]
  /\ \A w \in Writers : result'[w] # result[w] =>
       result[w] \in {"pending", "published"} /\ result'[w] = "error"

OtherProgram ==
  /\ \/ entry = "absent" /\ entry' \in Kinds \ {"absent"}
     \/ entry # "absent" /\ entry' = "absent"
  /\ mayHold' = mayHold \cup {entry'}
  /\ UNCHANGED result

Next == \/ \E w \in Writers : Publish(w) \/ Return(w) \/ Raise(w)
        \/ PowerLoss \/ OtherProgram

Spec == Init /\ [][Next]_vars
=============================================================================

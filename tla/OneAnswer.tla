------------------------------ MODULE OneAnswer ------------------------------
(***************************************************************************)
(* What recover and verify-set promise to whoever asks them: a request is  *)
(* an operation on a list of shards, it is answered in one step, once, and *)
(* the answer is the one that the operation and the list determine.  There *)
(* are no phases, no groups found on the way and no budget being spent.    *)
(* After a set has passed, some of its shards may be asked about again.    *)
(***************************************************************************)
EXTENDS Sequences

CONSTANTS
  Ops,             \* operations that may be asked for
  Shard,           \* what a list may hold
  Verdict(_, _),   \* the answer to an operation on a list
  NoAnswer         \* the request has not been answered

VARIABLES op, list, answer

vars == <<op, list, answer>>

Init == op \in Ops /\ list \in Seq(Shard) /\ answer = NoAnswer

Decide ==
  /\ answer = NoAnswer
  /\ answer' # NoAnswer
  /\ answer' = Verdict(op, list)
  /\ UNCHANGED <<op, list>>

AskAgain ==
  /\ answer.outcome = "pass"
  /\ op' = "recover"
  /\ list' \in Seq({list[p] : p \in DOMAIN list})
  /\ answer' = NoAnswer

Next == Decide \/ AskAgain

Spec == Init /\ [][Next]_vars
=============================================================================

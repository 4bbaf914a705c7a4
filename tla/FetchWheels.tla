---------------------------- MODULE FetchWheels ------------------------------
(***************************************************************************)
(* scripts/fetch-reviewed-wheels.py: fetchers that download the wheels a   *)
(* lock approves into a directory each makes for itself, and leave a       *)
(* receipt beside it.  Fetchers may be given the same paths (a second      *)
(* attempt is a fetcher too), other programs use these names, the lock may *)
(* be edited, and a fetcher may fail, be interrupted or be killed.         *)
(*                                                                         *)
(* A path is known by the fetcher whose directory or receipt it names.  A  *)
(* power loss is not modelled: nothing but the receipt's own bytes is      *)
(* synchronised, so that after it nothing is promised.                     *)
(***************************************************************************)
EXTENDS Wheelhouse

CONSTANTS
  Fetchers,     \* runs of the script
  Paths,
  Destination, Receipt,  \* the two paths each is given
  Misplaced,    \* fetchers whose receipt lies below their destination
  Locks,        \* what the lock file may hold
  Target,       \* the interpreter and platform they fetch for
  Offered,      \* files that pip may put into a directory
  FaultSets,    \* what may go wrong, in different environments: see FaultKinds
  MaxEdits,     \* bound on edits of the lock
  MaxForeign    \* bound on the names other programs take

\* "os"      a system call or sub-process fails
\* "pip"     pip ends normally with something else than the lock asks for
\* "unlink"  the removal of a half-written receipt fails
\* "rmtree"  the removal of the directory fails, which the code ignores
\* "signal"  KeyboardInterrupt is raised between two steps
\* "kill"    a fetcher is killed
FaultKinds == {"os", "pip", "unlink", "rmtree", "signal", "kill"}

ASSUME FetchersAssumption ==
  /\ Fetchers \cap {"absent", "foreign"} = {} /\ Misplaced \subseteq Fetchers
  /\ Destination \in [Fetchers -> Paths] /\ Receipt \in [Fetchers -> Paths]
  /\ \A f \in Fetchers \ Misplaced : Destination[f] # Receipt[f]
ASSUME InputAssumption == /\ FaultSets \subseteq SUBSET FaultKinds
                          /\ IsFiniteSet(Offered)
ASSUME BoundAssumption == MaxEdits \in Nat /\ MaxForeign \in Nat

VARIABLES
  pc,       \* what each fetcher does next
  holder,   \* whose directory or receipt each path names
  content,  \* the files in the directory of each fetcher
  receipt,  \* what its receipt holds
  checked,  \* the lock its wheels were verified against
  named,    \* the lock whose digest the receipt records
  lock,     \* what the lock file holds
  faults, edits, foreign

vars == <<pc, holder, content, receipt, checked, named, lock, faults, edits, foreign>>
world == <<lock, faults, edits, foreign>>

Early == {"look", "mkdir"}
Guarded == {"download", "verify", "hash", "create", "fill", "flag"}
Ended == {"ok", "failed", "dead"}
Labels == Early \cup Guarded \cup {"unlink", "remove"} \cup Ended

TypeOK ==
  /\ pc \in [Fetchers -> Labels]
  /\ holder \in [Paths -> Fetchers \cup {"absent", "foreign"}]
  /\ content \in [Fetchers -> SUBSET Offered]
  /\ receipt \in [Fetchers -> {"none", "torn", "complete"}]
  /\ checked \in [Fetchers -> Locks \cup {<<>>}]
  /\ named \in [Fetchers -> Locks \cup {<<>>}]
  /\ lock \in Locks
  /\ faults \subseteq FaultKinds
  /\ edits \in 0..MaxEdits /\ foreign \in 0..MaxForeign

Init ==
  /\ pc = [f \in Fetchers |-> "look"]
  /\ holder = [p \in Paths |-> "absent"]
  /\ content = [f \in Fetchers |-> {}]
  /\ receipt = [f \in Fetchers |-> "none"]
  /\ checked = [f \in Fetchers |-> <<>>]
  /\ named = [f \in Fetchers |-> <<>>]
  /\ lock \in Locks
  /\ faults \in FaultSets
  /\ edits = 0 /\ foreign = 0

At(f, label) == pc[f] = label
Goto(f, label) == pc' = [pc EXCEPT ![f] = label]

\* Operators marked [bug] are what the code could plausibly have been; no
\* specification uses them.  They show that the properties can fail.

-----------------------------------------------------------------------------
(* Before the try: the fetcher has made nothing.                           *)

\* The two looks follow one another at once; MakeDirectory and CreateReceipt,
\* which are exclusive, decide again.
Look(f) ==
  /\ At(f, "look")
  /\ Goto(f, IF /\ holder[Destination[f]] = "absent" /\ holder[Receipt[f]] = "absent"
                /\ f \notin Misplaced
             THEN "mkdir" ELSE "failed")
  /\ UNCHANGED <<holder, content, receipt, checked, named, world>>

\* [bug] the directory is made inside the try: a refusal removes it.
MakeDirectoryInTry(f) ==
  /\ At(f, "mkdir")
  /\ IF holder[Destination[f]] = "absent"
     THEN holder' = [holder EXCEPT ![Destination[f]] = f] /\ Goto(f, "download")
     ELSE UNCHANGED holder /\ Goto(f, "remove")
  /\ UNCHANGED <<content, receipt, checked, named, world>>

\* mkdir() without exist_ok.
MakeDirectory(f) ==
  /\ At(f, "mkdir")
  /\ IF holder[Destination[f]] = "absent"
     THEN holder' = [holder EXCEPT ![Destination[f]] = f] /\ Goto(f, "download")
     ELSE UNCHANGED holder /\ Goto(f, "failed")
  /\ UNCHANGED <<content, receipt, checked, named, world>>

-----------------------------------------------------------------------------
(* Inside the try.                                                         *)

\* pip download puts what the lock asks for, if that is on offer.
Wanted == {files \in SUBSET Offered : VerifyWheelhouse(lock, files, Target)}

Download(f) ==
  /\ At(f, "download")
  /\ \/ Wanted = {} /\ Goto(f, "remove") /\ UNCHANGED content
     \/ /\ \E files \in IF "pip" \in faults THEN SUBSET Offered ELSE Wanted :
             content' = [content EXCEPT ![f] = files]
        /\ Goto(f, "verify")
  /\ UNCHANGED <<holder, receipt, checked, named, world>>

\* [bug] a fetcher that sees the directory of another one backs off.
VerifyIfAlone(f) ==
  /\ At(f, "verify")
  /\ checked' = [checked EXCEPT ![f] = lock]
  /\ Goto(f, IF /\ \A g \in Fetchers \ {f} : holder[Destination[g]] \in {"absent", f}
                /\ VerifyWheelhouse(lock, content[f], Target)
             THEN "hash" ELSE "remove")
  /\ UNCHANGED <<holder, content, receipt, named, world>>

Verify(f) ==
  /\ At(f, "verify")
  /\ checked' = [checked EXCEPT ![f] = lock]
  /\ Goto(f, IF /\ holder[Destination[f]] = f
                /\ VerifyWheelhouse(lock, content[f], Target)
             THEN "hash" ELSE "remove")
  /\ UNCHANGED <<holder, content, receipt, named, world>>

\* The lock is read once more, for its digest.
HashLock(f) ==
  /\ At(f, "hash")
  /\ named' = [named EXCEPT ![f] = lock]
  /\ Goto(f, "create")
  /\ UNCHANGED <<holder, content, receipt, checked, world>>

\* atomic_write_json: O_EXCL, then the bytes, under the final name.
CreateReceipt(f) ==
  /\ At(f, "create")
  /\ IF holder[Receipt[f]] = "absent"
     THEN /\ holder' = [holder EXCEPT ![Receipt[f]] = f]
          /\ receipt' = [receipt EXCEPT ![f] = "torn"]
          /\ Goto(f, "fill")
     ELSE Goto(f, "remove") /\ UNCHANGED <<holder, receipt>>
  /\ UNCHANGED <<content, checked, named, world>>

FillReceipt(f) ==
  /\ At(f, "fill")
  /\ receipt' = [receipt EXCEPT ![f] = "complete"]
  /\ Goto(f, "flag")
  /\ UNCHANGED <<holder, content, checked, named, world>>

\* succeeded = True
Succeed(f) ==
  /\ At(f, "flag")
  /\ Goto(f, "ok")
  /\ UNCHANGED <<holder, content, receipt, checked, named, world>>

-----------------------------------------------------------------------------
(* Failure                                                                 *)

\* The handler of atomic_write_json; an error of unlink is ignored.
UnlinkReceipt(f) ==
  /\ At(f, "unlink")
  /\ \/ /\ holder' = [holder EXCEPT ![Receipt[f]] = "absent"]
        /\ receipt' = [receipt EXCEPT ![f] = "none"]
     \/ "unlink" \in faults /\ UNCHANGED <<holder, receipt>>
  /\ Goto(f, "remove")
  /\ UNCHANGED <<content, checked, named, world>>

\* finally: rmtree of the destination, whosever it is; errors are ignored.
RemoveTree(f) ==
  /\ At(f, "remove")
  /\ \/ /\ holder' = [holder EXCEPT ![Destination[f]] = "absent"]
        /\ content' = [content EXCEPT ![f] = {}]
     \/ "rmtree" \in faults /\ UNCHANGED <<holder, content>>
  /\ Goto(f, "failed")
  /\ UNCHANGED <<receipt, checked, named, world>>

\* [bug] a receipt that could not be written is left behind.
OSFaultLeavesReceipt(f) ==
  /\ "os" \in faults
  /\ \/ pc[f] \in Early /\ Goto(f, "failed")
     \/ pc[f] \in Guarded \ {"flag"} /\ Goto(f, "remove")
  /\ UNCHANGED <<holder, content, receipt, checked, named, world>>

\* An error.  What a failed download leaves in a directory that is about to be
\* removed matters to nothing; the bytes of the receipt may all be written when
\* its fsync fails.
OSFault(f) ==
  /\ "os" \in faults
  /\ \/ pc[f] \in Early /\ Goto(f, "failed") /\ UNCHANGED receipt
     \/ pc[f] \in {"download", "verify", "hash", "create"} /\ Goto(f, "remove")
        /\ UNCHANGED receipt
     \/ /\ At(f, "fill") /\ Goto(f, "unlink")
        /\ \E bytes \in {"torn", "complete"} : receipt' = [receipt EXCEPT ![f] = bytes]
  /\ UNCHANGED <<holder, content, checked, named, world>>

\* [bug] an interrupt of the download reaches no handler we know.
SignalEscapes(f) ==
  /\ "signal" \in faults
  /\ At(f, "download") /\ Goto(f, "raised")
  /\ UNCHANGED <<holder, content, receipt, checked, named, world>>

\* An interrupt runs the handlers, except that nothing protects the directory
\* before the try and while it is removed, nor the receipt before the try of
\* atomic_write_json ("fill"), inside its handler, and after its return ("flag").
Signal(f) ==
  /\ "signal" \in faults
  /\ \/ pc[f] \in Early \cup {"download", "remove"} /\ Goto(f, "failed")
     \/ pc[f] \in Guarded \cup {"unlink"} /\ Goto(f, "remove")
     \/ At(f, "fill") /\ Goto(f, "unlink")
  /\ UNCHANGED <<holder, content, receipt, checked, named, world>>

Kill(f) ==
  /\ "kill" \in faults
  /\ pc[f] \notin Ended
  /\ Goto(f, "dead")
  /\ UNCHANGED <<holder, content, receipt, checked, named, world>>

-----------------------------------------------------------------------------
EditLock ==
  /\ edits < MaxEdits /\ edits' = edits + 1
  /\ lock' \in Locks \ {lock}
  /\ UNCHANGED <<pc, holder, content, receipt, checked, named, faults, foreign>>

\* Another program takes a free name.
TakeName(p) ==
  /\ foreign < MaxForeign /\ foreign' = foreign + 1
  /\ holder[p] = "absent"
  /\ holder' = [holder EXCEPT ![p] = "foreign"]
  /\ UNCHANGED <<pc, content, receipt, checked, named, lock, faults, edits>>

Run(f) == \/ Look(f) \/ MakeDirectory(f)
          \/ Download(f) \/ Verify(f) \/ HashLock(f) \/ CreateReceipt(f)
          \/ FillReceipt(f) \/ Succeed(f) \/ UnlinkReceipt(f) \/ RemoveTree(f)
Fail(f) == OSFault(f) \/ Signal(f) \/ Kill(f)

AllEnded == (\A f \in Fetchers : pc[f] \in Ended) /\ UNCHANGED vars

Next == \/ \E f \in Fetchers : Run(f) \/ Fail(f)
        \/ EditLock \/ (\E p \in Paths : TakeName(p)) \/ AllEnded

Spec == Init /\ [][Next]_vars
\* The operating system keeps running a process that is not waiting.
FairSpec == Spec /\ \A f \in Fetchers : WF_vars(Run(f))
-----------------------------------------------------------------------------
(* Properties                                                              *)

\* A fetcher that ended normally, and a complete receipt even when its fetcher
\* was killed or raised, vouch for a directory that is there and whose files
\* and locked requirements can be paired off; the lock that the receipt names
\* is that lock, unless it was edited.  Only an interrupt, or a receipt that
\* could not be removed, may leave a receipt without its wheels.
ReceiptThere(f) == holder[Receipt[f]] = f /\ receipt[f] = "complete"
ReceiptVouches ==
  \A f \in Fetchers :
    At(f, "ok") \/ (ReceiptThere(f) /\ {"signal", "unlink"} \cap faults = {}) =>
      /\ ReceiptThere(f) /\ holder[Destination[f]] = f
      /\ ExactlyLocked(checked[f], content[f], Target)
      /\ edits = 0 => named[f] = checked[f]

\* A fetcher that raised leaves nothing that would make the next one refuse.
FailureIsClean ==
  \A f \in Fetchers : At(f, "failed") /\ {"signal", "unlink", "rmtree"} \cap faults = {} =>
    \A p \in Paths : holder[p] # f

\* What a failing fetcher removes is its own, though it removes by name: never
\* the directory or receipt of a concurrent fetcher, of a dead one, or of
\* another program.
RemovesOwnOnly ==
  [][\A p \in Paths : holder[p] # "absent" /\ holder'[p] = "absent" =>
       \E f \in Fetchers : holder[p] = f /\ pc[f] # pc'[f]]_vars

\* A fetcher loses only to another one: as long as nothing else goes wrong, one
\* whose look, mkdir or receipt was refused, and that gives its directory back
\* or has done so, leaves behind one that goes on or that ended normally.  The
\* one it was refused by need not be that one: it may have lost in its turn.
Undisturbed == faults = {} /\ edits = 0 /\ foreign = 0
Obtainable == Wanted # {}
Disjoint == \A f, g \in Fetchers : Destination[f] # Receipt[g]
LosesToAnother ==
  Undisturbed /\ Obtainable /\ Disjoint =>
    \A f \in Fetchers \ Misplaced : pc[f] \in {"remove", "failed"} =>
      \E g \in Fetchers : pc[g] \in Guarded \cup {"ok"}

\* Fetchers that race for their names do not all refuse because of each other.
SomeoneFetches ==
  Disjoint /\ Fetchers \ Misplaced # {} /\ faults = {} /\ Obtainable =>
    <>((\E f \in Fetchers : At(f, "ok")) \/ edits > 0 \/ foreign > 0)
=============================================================================

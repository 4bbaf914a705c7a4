------------------------- MODULE FetchWheelsProofs --------------------------
(***************************************************************************)
(* Proofs about Wheelhouse and FetchWheels, for any locks, files, paths    *)
(* and faults, and any number of fetchers, edits and other programs.       *)
(***************************************************************************)
EXTENDS FetchWheels, FiniteSetTheorems, TLAPS

\* A set of one element.
LEMMA OneElement ==
  ASSUME NEW S, IsFiniteSet(S), Cardinality(S) = 1 PROVE \E x \in S : S = {x}
<1>1. PICK x : x \in S
  <2>1. S # {}
    BY FS_EmptySet
  <2> QED
    BY <2>1
<1>2. IsFiniteSet(S \ {x}) /\ Cardinality(S \ {x}) = 0
  BY <1>1, FS_RemoveElement
<1>3. S \ {x} = {}
  BY <1>2, FS_EmptySet
<1> QED
  BY <1>1, <1>3

\* What verify_wheelhouse accepts can be paired off with the lines of the lock:
\* there is neither a surplus file nor a requirement without its own.
THEOREM VerifiedIsExact ==
  ASSUME NEW lines, NEW files, NEW target, IsFiniteSet(files),
         VerifyWheelhouse(lines, files, target)
  PROVE  ExactlyLocked(lines, files, target)
<1> DEFINE chosen == [i \in DOMAIN lines |-> CHOOSE w \in files : w.project = lines[i].project]
<1>1. ASSUME NEW i \in DOMAIN lines
      PROVE  /\ chosen[i] \in files /\ Matches(lines[i], files) = {chosen[i]}
             /\ chosen[i].project = lines[i].project
             /\ Approves(lines[i], chosen[i], target)
  <2> DEFINE M == Matches(lines[i], files)
  <2>1. IsFiniteSet(M) /\ Cardinality(M) = 1
    <3>1. M \subseteq files
      BY DEF Matches
    <3> QED
      BY <3>1, FS_Subset DEF VerifyWheelhouse
  <2>2. PICK x \in M : M = {x}
    BY <2>1, OneElement
  <2>3. x \in files /\ x.project = lines[i].project
    BY <2>2 DEF Matches
  <2>4. chosen[i] \in files /\ chosen[i].project = lines[i].project
    BY <2>3
  <2>5. chosen[i] \in M
    BY <2>4 DEF Matches
  <2>6. M = {chosen[i]}
    BY <2>2, <2>5
  <2>7. Approves(lines[i], chosen[i], target)
    BY <2>5 DEF VerifyWheelhouse
  <2> QED
    BY <2>4, <2>6, <2>7
<1>2. chosen \in [DOMAIN lines -> files]
  BY <1>1
<1>3. ASSUME NEW i \in DOMAIN lines, NEW j \in DOMAIN lines, chosen[i] = chosen[j]
      PROVE  i = j
  <2>1. lines[i].project = lines[j].project
    BY <1>1, <1>3
  <2> QED
    BY <2>1 DEF VerifyWheelhouse, ReadableLock
<1>4. ASSUME NEW w \in files PROVE \E i \in DOMAIN lines : chosen[i] = w
  <2>1. PICK i \in DOMAIN lines : w.project = lines[i].project
    BY DEF VerifyWheelhouse
  <2>2. w \in Matches(lines[i], files)
    BY <2>1 DEF Matches
  <2> QED
    BY <1>1, <2>1, <2>2
<1> HIDE DEF chosen
<1> QED
  BY <1>1, <1>2, <1>3, <1>4 DEF ExactlyLocked

\* Conversely, files that pair off with the lines of a lock are accepted: the
\* check refuses no directory for another reason than that the lock, or a file,
\* cannot be read.
THEOREM ExactIsVerified ==
  ASSUME NEW Lines, NEW lines \in Seq(Lines), NEW files, NEW target, ReadableLock(lines),
         \A w \in files : w.wellFormed,
         ExactlyLocked(lines, files, target)
  PROVE  VerifyWheelhouse(lines, files, target)
<1>1. PICK chosen \in [DOMAIN lines -> files] :
        /\ \A w \in files : \E i \in DOMAIN lines : chosen[i] = w
        /\ \A i \in DOMAIN lines : /\ chosen[i].project = lines[i].project
                                   /\ Approves(lines[i], chosen[i], target)
  BY DEF ExactlyLocked
<1>2. files # {}
  <2>1. 1 \in DOMAIN lines
    BY DEF ReadableLock
  <2> QED
    BY <1>1, <2>1
<1>3. {w.project : w \in files} = {lines[i].project : i \in DOMAIN lines}
  BY <1>1
<1>4. ASSUME NEW i \in DOMAIN lines PROVE Matches(lines[i], files) = {chosen[i]}
  <2>1. chosen[i] \in Matches(lines[i], files)
    BY <1>1 DEF Matches
  <2>2. ASSUME NEW w \in Matches(lines[i], files) PROVE w = chosen[i]
    <3>1. w \in files /\ w.project = lines[i].project
      BY <2>2 DEF Matches
    <3>2. PICK j \in DOMAIN lines : chosen[j] = w
      BY <1>1, <3>1
    <3>3. lines[j].project = lines[i].project
      BY <1>1, <3>1, <3>2
    <3> QED
      BY <3>2, <3>3 DEF ReadableLock
  <2> QED
    BY <2>1, <2>2
<1>5. ASSUME NEW i \in DOMAIN lines
      PROVE  /\ Cardinality(Matches(lines[i], files)) = 1
             /\ \A w \in Matches(lines[i], files) : Approves(lines[i], w, target)
  BY <1>1, <1>4, <1>5, FS_Singleton
<1> QED
  BY <1>2, <1>3, <1>5 DEF VerifyWheelhouse

-----------------------------------------------------------------------------
LEMMA TypeStep == ASSUME TypeOK, [Next]_vars PROVE TypeOK'
<1> USE FetchersAssumption, BoundAssumption, InputAssumption
        DEF TypeOK, At, Goto, world, Early, Guarded, Ended, Labels
<1>1. ASSUME NEW g \in Fetchers, Look(g) PROVE TypeOK'
  BY <1>1 DEF Look
<1>2. ASSUME NEW g \in Fetchers, MakeDirectory(g) PROVE TypeOK'
  BY <1>2 DEF MakeDirectory
<1>3. ASSUME NEW g \in Fetchers, Download(g) PROVE TypeOK'
  BY <1>3 DEF Download, Wanted
<1>4. ASSUME NEW g \in Fetchers, Verify(g) PROVE TypeOK'
  BY <1>4 DEF Verify
<1>5. ASSUME NEW g \in Fetchers, HashLock(g) PROVE TypeOK'
  BY <1>5 DEF HashLock
<1>6. ASSUME NEW g \in Fetchers, CreateReceipt(g) PROVE TypeOK'
  BY <1>6 DEF CreateReceipt
<1>7. ASSUME NEW g \in Fetchers, FillReceipt(g) PROVE TypeOK'
  BY <1>7 DEF FillReceipt
<1>8. ASSUME NEW g \in Fetchers, Succeed(g) PROVE TypeOK'
  BY <1>8 DEF Succeed
<1>9. ASSUME NEW g \in Fetchers, UnlinkReceipt(g) PROVE TypeOK'
  BY <1>9 DEF UnlinkReceipt
<1>10. ASSUME NEW g \in Fetchers, RemoveTree(g) PROVE TypeOK'
  BY <1>10 DEF RemoveTree
<1>11. ASSUME NEW g \in Fetchers, OSFault(g) PROVE TypeOK'
  BY <1>11 DEF OSFault
<1>12. ASSUME NEW g \in Fetchers, Signal(g) PROVE TypeOK'
  BY <1>12 DEF Signal
<1>13. ASSUME NEW g \in Fetchers, Kill(g) PROVE TypeOK'
  BY <1>13 DEF Kill
<1>14. ASSUME EditLock PROVE TypeOK'
  BY <1>14 DEF EditLock
<1>15. ASSUME NEW p \in Paths, TakeName(p) PROVE TypeOK'
  BY <1>15 DEF TakeName
<1>16. CASE UNCHANGED vars
  BY <1>16 DEF vars
<1> QED
  BY <1>1, <1>2, <1>3, <1>4, <1>5, <1>6, <1>7, <1>8, <1>9,
     <1>10, <1>11, <1>12, <1>13, <1>14, <1>15, <1>16
     DEF Next, Run, Fail, AllEnded

\* The variables always have their types.
THEOREM TypeCorrect == Spec => []TypeOK
<1>1. Init => TypeOK
  BY FetchersAssumption, BoundAssumption, InputAssumption
  DEF Init, TypeOK, Labels, Early, Guarded, Ended
<1> QED
  BY <1>1, TypeStep, PTL DEF Spec

-----------------------------------------------------------------------------
(* Ownership.  Between its mkdir and its removal a fetcher holds its        *)
(* destination, and its receipt from its creation, so that a removal by     *)
(* name meets nothing else.                                                 *)

Quietly == {"unlink", "signal"} \cap faults = {}

OwnsDestination == {"download", "verify", "hash", "create", "fill", "flag",
                    "unlink", "remove", "ok"}
OwnsReceipt == {"fill", "flag", "unlink", "ok"}

Owns(f) ==
  /\ pc[f] \notin Early \cup Ended => f \notin Misplaced
  /\ pc[f] = "mkdir" => f \notin Misplaced
  /\ pc[f] = "ok" => f \notin Misplaced
  /\ pc[f] \in OwnsDestination => holder[Destination[f]] = f
  /\ pc[f] \in OwnsReceipt => holder[Receipt[f]] = f
  /\ pc[f] \in Early => \A p \in Paths : holder[p] # f
  /\ pc[f] \in {"download", "verify", "hash", "create"} =>
       \A p \in Paths : holder[p] = f => p = Destination[f]
  /\ pc[f] = "remove" /\ Quietly => \A p \in Paths : holder[p] = f => p = Destination[f]
  /\ \A p \in Paths : holder[p] = f => p \in {Destination[f], Receipt[f]}
  /\ pc[f] = "failed" /\ Quietly /\ "rmtree" \notin faults => \A p \in Paths : holder[p] # f

OwnInv == \A f \in Fetchers : Owns(f)

LEMMA OwnStep == ASSUME TypeOK, OwnInv, [Next]_vars PROVE OwnInv'
<1> USE FetchersAssumption
        DEF TypeOK, OwnInv, Owns, OwnsDestination, OwnsReceipt, Quietly, At, Goto, world,
            Early, Guarded, Ended, Labels
<1>1. ASSUME NEW g \in Fetchers, Look(g) PROVE OwnInv'
  BY <1>1 DEF Look
<1>2. ASSUME NEW g \in Fetchers, MakeDirectory(g) PROVE OwnInv'
  BY <1>2 DEF MakeDirectory
<1>3. ASSUME NEW g \in Fetchers, Download(g) PROVE OwnInv'
  BY <1>3 DEF Download
<1>4. ASSUME NEW g \in Fetchers, Verify(g) PROVE OwnInv'
  BY <1>4 DEF Verify
<1>5. ASSUME NEW g \in Fetchers, HashLock(g) PROVE OwnInv'
  BY <1>5 DEF HashLock
<1>6. ASSUME NEW g \in Fetchers, CreateReceipt(g) PROVE OwnInv'
  BY <1>6 DEF CreateReceipt
<1>7. ASSUME NEW g \in Fetchers, FillReceipt(g) PROVE OwnInv'
  BY <1>7 DEF FillReceipt
<1>8. ASSUME NEW g \in Fetchers, Succeed(g) PROVE OwnInv'
  BY <1>8 DEF Succeed
<1>9. ASSUME NEW g \in Fetchers, UnlinkReceipt(g) PROVE OwnInv'
  BY <1>9 DEF UnlinkReceipt
<1>10. ASSUME NEW g \in Fetchers, RemoveTree(g) PROVE OwnInv'
  BY <1>10 DEF RemoveTree
<1>11. ASSUME NEW g \in Fetchers, OSFault(g) PROVE OwnInv'
  BY <1>11 DEF OSFault
<1>12. ASSUME NEW g \in Fetchers, Signal(g) PROVE OwnInv'
  BY <1>12 DEF Signal
<1>13. ASSUME NEW g \in Fetchers, Kill(g) PROVE OwnInv'
  BY <1>13 DEF Kill
<1>14. ASSUME EditLock PROVE OwnInv'
  BY <1>14 DEF EditLock
<1>15. ASSUME NEW p \in Paths, TakeName(p) PROVE OwnInv'
  BY <1>15 DEF TakeName
<1>16. CASE UNCHANGED vars
  BY <1>16 DEF vars
<1> QED
  BY <1>1, <1>2, <1>3, <1>4, <1>5, <1>6, <1>7, <1>8, <1>9,
     <1>10, <1>11, <1>12, <1>13, <1>14, <1>15, <1>16
     DEF Next, Run, Fail, AllEnded

LEMMA OwnCorrect == Spec => []OwnInv
<1>1. Init => OwnInv
  BY FetchersAssumption
  DEF Init, OwnInv, Owns, OwnsDestination, OwnsReceipt, Early, Ended
<1> QED
  BY <1>1, OwnStep, TypeCorrect, PTL DEF Spec

\* A fetcher that raised has left nothing, unless a removal failed or an
\* interrupt fell where nothing protects its files.
THEOREM FailureIsCleanCorrect == Spec => []FailureIsClean
<1>1. OwnInv => FailureIsClean
  BY DEF OwnInv, Owns, FailureIsClean, Quietly, At
<1> QED
  BY <1>1, OwnCorrect, PTL

\* Nothing is removed but by the fetcher that made it.
THEOREM RemovesOwnCorrect == Spec => RemovesOwnOnly
<1> DEFINE Own == \A p \in Paths : holder[p] # "absent" /\ holder'[p] = "absent" =>
                     \E f \in Fetchers : holder[p] = f /\ pc[f] # pc'[f]
<1>1. ASSUME TypeOK, OwnInv, [Next]_vars PROVE Own
  <2> USE FetchersAssumption DEF TypeOK, At, Goto, world
  <2>1. ASSUME NEW g \in Fetchers, UnlinkReceipt(g) PROVE Own
    BY <1>1, <2>1 DEF UnlinkReceipt, OwnInv, Owns, OwnsReceipt
  <2>2. ASSUME NEW g \in Fetchers, RemoveTree(g) PROVE Own
    BY <1>1, <2>2 DEF RemoveTree, OwnInv, Owns, OwnsDestination
  <2>3. ASSUME NEW g \in Fetchers, Run(g), ~UnlinkReceipt(g), ~RemoveTree(g)
        PROVE  \A p \in Paths : holder[p] # "absent" => holder'[p] # "absent"
    BY <1>1, <2>3 DEF Run, Look, MakeDirectory, Download, Verify, HashLock, CreateReceipt,
                      FillReceipt, Succeed
  <2>4. ASSUME NEW g \in Fetchers, Fail(g) PROVE UNCHANGED holder
    BY <2>4 DEF Fail, OSFault, Signal, Kill
  <2>5. CASE EditLock
    BY <2>5 DEF EditLock
  <2>6. ASSUME NEW q \in Paths, TakeName(q) PROVE Own
    BY <1>1, <2>6 DEF TakeName
  <2>7. CASE UNCHANGED vars
    BY <2>7 DEF vars
  <2> QED
    BY <1>1, <2>1, <2>2, <2>3, <2>4, <2>5, <2>6, <2>7 DEF Next, AllEnded
<1> QED
  BY <1>1, TypeCorrect, OwnCorrect, PTL DEF Spec, RemovesOwnOnly

-----------------------------------------------------------------------------
(* Receipts.  From the verification on, the directory is what the lock that *)
(* was read allows; the receipt is complete only after that, and is gone    *)
(* before the directory goes.                                               *)

Verified == {"hash", "create", "fill", "flag", "unlink", "ok"}

Receipted(f) ==
  /\ pc[f] \in Verified => ExactlyLocked(checked[f], content[f], Target)
  /\ edits = 0 /\ pc[f] \in Verified => checked[f] = lock
  /\ edits = 0 /\ pc[f] \in Verified \ {"hash"} => named[f] = lock
  /\ pc[f] \in {"flag", "ok"} => receipt[f] = "complete"
  /\ pc[f] \in Early \cup {"download", "verify", "hash", "create"} => receipt[f] = "none"
  /\ pc[f] \in {"remove", "failed"} /\ Quietly => receipt[f] = "none"
  /\ pc[f] = "dead" /\ receipt[f] = "complete" /\ Quietly =>
       /\ ExactlyLocked(checked[f], content[f], Target)
       /\ holder[Destination[f]] = f
       /\ edits = 0 => checked[f] = named[f]

ReceiptInv == \A f \in Fetchers : Receipted(f)

LEMMA ReceiptStep == ASSUME TypeOK, OwnInv, ReceiptInv, [Next]_vars PROVE ReceiptInv'
<1> USE FetchersAssumption
        DEF TypeOK, ReceiptInv, Receipted, Verified, Quietly, At, Goto, world,
            Early, Guarded, Ended, Labels
<1>1. ASSUME NEW g \in Fetchers, Look(g) PROVE ReceiptInv'
  BY <1>1 DEF Look
<1>2. ASSUME NEW g \in Fetchers, MakeDirectory(g) PROVE ReceiptInv'
  BY <1>2 DEF MakeDirectory
<1>3. ASSUME NEW g \in Fetchers, Download(g) PROVE ReceiptInv'
  BY <1>3 DEF Download
<1>4. ASSUME NEW g \in Fetchers, Verify(g) PROVE ReceiptInv'
  <2>1. ASSUME VerifyWheelhouse(lock, content[g], Target)
        PROVE  ExactlyLocked(lock, content[g], Target)
    <3>1. IsFiniteSet(content[g])
      BY InputAssumption, FS_Subset
    <3> QED
      BY <2>1, <3>1, VerifiedIsExact
  <2> QED
    BY <1>4, <2>1 DEF Verify
<1>5. ASSUME NEW g \in Fetchers, HashLock(g) PROVE ReceiptInv'
  BY <1>5 DEF HashLock
<1>6. ASSUME NEW g \in Fetchers, CreateReceipt(g) PROVE ReceiptInv'
  BY <1>6 DEF CreateReceipt
<1>7. ASSUME NEW g \in Fetchers, FillReceipt(g) PROVE ReceiptInv'
  BY <1>7 DEF FillReceipt
<1>8. ASSUME NEW g \in Fetchers, Succeed(g) PROVE ReceiptInv'
  BY <1>8 DEF Succeed
<1>9. ASSUME NEW g \in Fetchers, UnlinkReceipt(g) PROVE ReceiptInv'
  <2>1. holder[Receipt[g]] = g /\ Destination[g] # Receipt[g]
    BY <1>9 DEF UnlinkReceipt, OwnInv, Owns, OwnsReceipt
  <2>2. \A f \in Fetchers : holder[Destination[f]] = f => holder'[Destination[f]] = f
    BY <1>9, <2>1 DEF UnlinkReceipt
  <2> QED
    BY <1>9, <2>2 DEF UnlinkReceipt
<1>10. ASSUME NEW g \in Fetchers, RemoveTree(g) PROVE ReceiptInv'
  <2>1. holder[Destination[g]] = g
    BY <1>10 DEF RemoveTree, OwnInv, Owns, OwnsDestination
  <2>2. \A f \in Fetchers : f # g => (holder[Destination[f]] = f => holder'[Destination[f]] = f)
    BY <1>10, <2>1 DEF RemoveTree
  <2> QED
    BY <1>10, <2>2 DEF RemoveTree
<1>11. ASSUME NEW g \in Fetchers, OSFault(g) PROVE ReceiptInv'
  BY <1>11 DEF OSFault
<1>12. ASSUME NEW g \in Fetchers, Signal(g) PROVE ReceiptInv'
  BY <1>12 DEF Signal
<1>13. ASSUME NEW g \in Fetchers, Kill(g) PROVE ReceiptInv'
  <2>1. Owns(g)
    BY DEF OwnInv
  <2>2. receipt[g] = "complete" /\ Quietly =>
          /\ ExactlyLocked(checked[g], content[g], Target)
          /\ holder[Destination[g]] = g
          /\ edits = 0 => checked[g] = named[g]
    BY <1>13, <2>1 DEF Kill, Owns, OwnsDestination
  <2>3. \A f \in Fetchers : pc'[f] = IF f = g THEN "dead" ELSE pc[f]
    BY <1>13 DEF Kill
  <2> QED
    BY <1>13, <2>2, <2>3 DEF Kill
<1>14. ASSUME EditLock PROVE ReceiptInv'
  BY <1>14 DEF EditLock
<1>15. ASSUME NEW p \in Paths, TakeName(p) PROVE ReceiptInv'
  BY <1>15 DEF TakeName
<1>16. CASE UNCHANGED vars
  BY <1>16 DEF vars
<1> QED
  BY <1>1, <1>2, <1>3, <1>4, <1>5, <1>6, <1>7, <1>8, <1>9,
     <1>10, <1>11, <1>12, <1>13, <1>14, <1>15, <1>16
     DEF Next, Run, Fail, AllEnded

\* Of a fetcher that ended normally, and of a complete receipt: the directory
\* is there, its files pair off with the lines of a lock, and the receipt names
\* that lock unless it was edited.
THEOREM ReceiptVouchesCorrect == Spec => []ReceiptVouches
<1>1. Init => ReceiptInv
  BY DEF Init, ReceiptInv, Receipted, Verified, Early
<1>2. TypeOK /\ OwnInv /\ ReceiptInv => ReceiptVouches
  <2> SUFFICES ASSUME TypeOK, OwnInv, ReceiptInv, NEW f \in Fetchers,
                      At(f, "ok") \/ (ReceiptThere(f) /\ {"signal", "unlink"} \cap faults = {})
               PROVE  /\ ReceiptThere(f) /\ holder[Destination[f]] = f
                      /\ ExactlyLocked(checked[f], content[f], Target)
                      /\ edits = 0 => named[f] = checked[f]
    BY DEF ReceiptVouches
  <2>1. Owns(f) /\ Receipted(f) /\ pc[f] \in Labels
    BY DEF OwnInv, ReceiptInv, TypeOK
  <2>2. pc[f] = "ok" \/ (Quietly /\ receipt[f] = "complete" /\ holder[Receipt[f]] = f)
    BY DEF At, ReceiptThere, Quietly
  <2> QED
    BY <2>1, <2>2 DEF Owns, Receipted, Verified, OwnsDestination, OwnsReceipt, Labels, Early,
                      Guarded, Ended, ReceiptThere
<1> QED
  BY <1>1, <1>2, ReceiptStep, OwnCorrect, TypeCorrect, PTL DEF Spec

-----------------------------------------------------------------------------
(* Losing.  A path is held by a fetcher that goes on, that has ended        *)
(* normally, or that gives its directory back because its receipt was       *)
(* refused; and receipts are only held by the first two.                    *)

GoesOn(f) == pc[f] \in Guarded \cup {"ok"}
Ahead(f) == pc[f] \in {"fill", "flag", "ok"}

\* When nothing goes wrong: no other program, no handler, and what was
\* downloaded is what is wanted.
Untroubled(f) ==
  /\ pc[f] \notin {"unlink", "dead"}
  /\ pc[f] = "verify" => content[f] \in Wanted
  /\ \A p \in Paths : holder[p] # "foreign"
  /\ f \in Misplaced => pc[f] \in {"look", "failed"}

\* Who gives its directory back met the receipt of one that is ahead of all
\* refusals; who has failed leaves one that goes on.
Beaten(f) ==
  /\ pc[f] = "remove" => \E h \in Fetchers : Ahead(h)
  /\ pc[f] = "failed" /\ f \notin Misplaced => \E h \in Fetchers : GoesOn(h)

LossInv == Undisturbed /\ Obtainable /\ Disjoint =>
             \A f \in Fetchers : Untroubled(f) /\ Beaten(f)

\* Without a foreign name, a path that is taken belongs to a fetcher that goes
\* on or is followed by one that does.
LEMMA TakenByRival ==
  ASSUME TypeOK, OwnInv, Undisturbed, NEW q \in Paths, holder[q] # "absent",
         \A f \in Fetchers : Untroubled(f) /\ Beaten(f), NEW e \in Fetchers
  PROVE  \E h \in Fetchers : GoesOn(h)
<1>1. holder[q] \in Fetchers
  BY DEF TypeOK, Untroubled
<1> DEFINE g == holder[q]
<1>2. Owns(g) /\ pc[g] \in Labels /\ Untroubled(g) /\ Beaten(g)
  BY <1>1 DEF OwnInv, TypeOK
<1>3. pc[g] \notin Early /\ pc[g] # "failed"
  BY <1>1, <1>2 DEF Owns, Quietly, Undisturbed
<1>4. GoesOn(g) \/ pc[g] = "remove"
  BY <1>2, <1>3 DEF Labels, Untroubled, GoesOn, Ended
<1> QED
  BY <1>1, <1>2, <1>4 DEF Beaten, Ahead, GoesOn, Guarded

\* A receipt that is taken belongs to one that is ahead.
LEMMA ReceiptOfOneAhead ==
  ASSUME TypeOK, OwnInv, Undisturbed, Disjoint, NEW f \in Fetchers, holder[Receipt[f]] # "absent",
         \A g \in Fetchers : Untroubled(g)
  PROVE  \E h \in Fetchers : Ahead(h)
<1>1. Receipt[f] \in Paths
  BY FetchersAssumption
<1> DEFINE h == holder[Receipt[f]]
<1>2. h \in Fetchers
  BY <1>1 DEF TypeOK, Untroubled
<1>3. Receipt[f] # Destination[h]
  BY <1>2 DEF Disjoint
<1>4. Owns(h) /\ pc[h] \in Labels /\ Untroubled(h)
  BY <1>2 DEF OwnInv, TypeOK
<1>5. /\ pc[h] \notin Early
      /\ pc[h] \notin {"download", "verify", "hash", "create"}
      /\ pc[h] # "remove" /\ pc[h] # "failed"
  BY <1>1, <1>2, <1>3, <1>4 DEF Owns, Quietly, Undisturbed
<1>6. Ahead(h)
  BY <1>4, <1>5 DEF Labels, Untroubled, Ahead, Ended, Guarded
<1> QED
  BY <1>2, <1>6

LEMMA FaultlessStep ==
  ASSUME TypeOK, [Next]_vars, Undisturbed', Obtainable'
  PROVE  /\ Undisturbed /\ Obtainable /\ Wanted' = Wanted
         /\ UNCHANGED vars \/ \E f \in Fetchers : Run(f)
<1>1. edits' = 0 /\ foreign' = 0 /\ faults' = {}
  BY DEF Undisturbed
<1>2. ASSUME NEW f \in Fetchers, Run(f) PROVE UNCHANGED world
  BY <1>2 DEF Run, Look, MakeDirectory, Download, Verify, HashLock, CreateReceipt, FillReceipt,
              Succeed, UnlinkReceipt, RemoveTree
<1>3. ~EditLock
  BY <1>1, BoundAssumption DEF EditLock, TypeOK
<1>4. ASSUME NEW q \in Paths PROVE ~TakeName(q)
  BY <1>1, BoundAssumption DEF TakeName, TypeOK
<1>5. ASSUME NEW f \in Fetchers PROVE ~Fail(f)
  BY <1>1 DEF Fail, OSFault, Signal, Kill, world
<1>6. UNCHANGED vars \/ \E f \in Fetchers : Run(f)
  BY <1>3, <1>4, <1>5 DEF Next, AllEnded
<1>7. UNCHANGED world
  BY <1>2, <1>6 DEF vars, world
<1> QED
  BY <1>1, <1>6, <1>7 DEF world, Undisturbed, Obtainable, Wanted

\* What the step of fetcher g leaves of the others.
LEMMA OthersKeep ==
  ASSUME TypeOK, OwnInv, NEW g \in Fetchers, Run(g), NEW f \in Fetchers, f # g
  PROVE  pc'[f] = pc[f] /\ content'[f] = content[f]
  BY DEF TypeOK, Run, Look, MakeDirectory, Download, Verify, HashLock, CreateReceipt,
         FillReceipt, Succeed, UnlinkReceipt, RemoveTree, Goto

LEMMA UntroubledStep ==
  ASSUME TypeOK, OwnInv, Undisturbed, Obtainable, Wanted' = Wanted,
         NEW g \in Fetchers, Run(g), \A f \in Fetchers : Untroubled(f)
  PROVE  \A f \in Fetchers : Untroubled(f)'
<1> USE FetchersAssumption
        DEF TypeOK, Goto, At, Undisturbed, Labels, Early, Guarded, Ended
<1>1. \A f \in Fetchers : Untroubled(f)
  OBVIOUS
<1>2. \A p \in Paths : holder'[p] # "foreign"
  BY <1>1 DEF Untroubled, Run, Look, MakeDirectory, Download, Verify, HashLock, CreateReceipt,
              FillReceipt, Succeed, UnlinkReceipt, RemoveTree
<1>3. pc'[g] \notin {"unlink", "dead"}
  BY <1>1 DEF Untroubled, Run, Look, MakeDirectory, Download, Verify, HashLock, CreateReceipt,
              FillReceipt, Succeed, UnlinkReceipt, RemoveTree
<1>4. g \in Misplaced => pc'[g] \in {"look", "failed"}
  BY <1>1 DEF Untroubled, Run, Look, MakeDirectory, Download, Verify, HashLock, CreateReceipt,
              FillReceipt, Succeed, UnlinkReceipt, RemoveTree
<1>5. pc'[g] = "verify" => content'[g] \in Wanted
  BY <1>1 DEF Untroubled, Obtainable, Run, Look, MakeDirectory, Download, Verify, HashLock,
              CreateReceipt, FillReceipt, Succeed, UnlinkReceipt, RemoveTree
<1>6. ASSUME NEW f \in Fetchers PROVE Untroubled(f)'
  BY <1>1, <1>2, <1>3, <1>4, <1>5, OthersKeep DEF Untroubled
<1> QED
  BY <1>6

\* A step that refuses a fetcher leaves one that goes on.
LEMMA BeatenStep ==
  ASSUME TypeOK, OwnInv, Undisturbed, Obtainable, Disjoint, NEW g \in Fetchers, Run(g),
         \A f \in Fetchers : Untroubled(f) /\ Beaten(f)
  PROVE  \A f \in Fetchers : Beaten(f)'
<1> USE FetchersAssumption
        DEF TypeOK, Goto, At, Undisturbed, Labels, Early, Guarded, Ended
<1>1. Untroubled(g) /\ Beaten(g) /\ Owns(g)
  BY DEF OwnInv
<1>2. Ahead(g) => Ahead(g)'
  BY DEF Ahead, Run, Look, MakeDirectory, Download, Verify, HashLock, CreateReceipt,
         FillReceipt, Succeed, UnlinkReceipt, RemoveTree
<1>3. ASSUME NEW h \in Fetchers, Ahead(h) PROVE Ahead(h)'
  BY <1>2, <1>3, OthersKeep DEF Ahead
<1>4. pc'[g] = "remove" => \E h \in Fetchers : Ahead(h)
  <2>1. ASSUME CreateReceipt(g), pc'[g] = "remove" PROVE \E h \in Fetchers : Ahead(h)
    <3>1. holder[Receipt[g]] # "absent"
      BY <2>1 DEF CreateReceipt
    <3> QED
      BY <3>1, ReceiptOfOneAhead
  <2>2. Verify(g) => pc'[g] # "remove"
    BY <1>1 DEF Verify, Untroubled, Wanted, Owns, OwnsDestination
  <2>3. Download(g) => pc'[g] # "remove"
    BY DEF Download, Obtainable
  <2>4. ~UnlinkReceipt(g)
    BY <1>1 DEF UnlinkReceipt, Untroubled
  <2> QED
    BY <2>1, <2>2, <2>3, <2>4
       DEF Run, Look, MakeDirectory, HashLock, FillReceipt, Succeed, RemoveTree
<1>5. GoesOn(g) => GoesOn(g)' \/ \E h \in Fetchers : Ahead(h)
  <2>1. GoesOn(g) => GoesOn(g)' \/ pc'[g] = "remove"
    BY <1>1 DEF Untroubled, GoesOn, Run, Look, MakeDirectory, Download, Verify, HashLock, CreateReceipt,
           FillReceipt, Succeed, UnlinkReceipt, RemoveTree
  <2> QED
    BY <1>4, <2>1
<1>6. ASSUME NEW h \in Fetchers, GoesOn(h) PROVE \E k \in Fetchers : GoesOn(k)'
  <2>1. CASE \E k \in Fetchers : Ahead(k)
    BY <1>3, <2>1 DEF Ahead, GoesOn
  <2>2. CASE ~\E k \in Fetchers : Ahead(k)
    <3>1. GoesOn(h)'
      BY <1>5, <1>6, <2>2, OthersKeep DEF GoesOn
    <3> QED
      BY <3>1
  <2> QED
    BY <2>1, <2>2
<1>7. pc'[g] = "failed" /\ g \notin Misplaced => \E h \in Fetchers : GoesOn(h)
  <2>1. Destination[g] \in Paths /\ Receipt[g] \in Paths
    OBVIOUS
  <2>2. ASSUME NEW q \in Paths, holder[q] # "absent" PROVE \E h \in Fetchers : GoesOn(h)
    BY <2>2, TakenByRival
  <2>3. RemoveTree(g) => \E h \in Fetchers : GoesOn(h)
    BY <1>1 DEF RemoveTree, Beaten, Ahead, GoesOn
  <2>4. Look(g) /\ pc'[g] = "failed" /\ g \notin Misplaced => \E h \in Fetchers : GoesOn(h)
    BY <2>1, <2>2 DEF Look
  <2>5. MakeDirectory(g) /\ pc'[g] = "failed" => \E h \in Fetchers : GoesOn(h)
    BY <2>1, <2>2 DEF MakeDirectory
  <2> QED
    BY <2>3, <2>4, <2>5
       DEF Run, Download, Verify, HashLock, CreateReceipt, FillReceipt, Succeed, UnlinkReceipt
<1>8. ASSUME NEW f \in Fetchers PROVE Beaten(f)'
  <2>1. pc'[f] = "remove" => \E h \in Fetchers : Ahead(h)
    BY <1>4, OthersKeep DEF Beaten
  <2>2. pc'[f] = "failed" /\ f \notin Misplaced => \E h \in Fetchers : GoesOn(h)
    BY <1>7, OthersKeep DEF Beaten
  <2>3. pc'[f] = "remove" => \E h \in Fetchers : Ahead(h)'
    BY <1>3, <2>1
  <2>4. pc'[f] = "failed" /\ f \notin Misplaced => \E h \in Fetchers : GoesOn(h)'
    BY <1>6, <2>2
  <2> QED
    BY <2>3, <2>4 DEF Beaten
<1> QED
  BY <1>8

LEMMA LossInvStep ==
  ASSUME TypeOK, OwnInv, LossInv, [Next]_vars PROVE LossInv'
<1> SUFFICES ASSUME Undisturbed', Obtainable', Disjoint
             PROVE  \A f \in Fetchers : Untroubled(f)' /\ Beaten(f)'
  BY DEF LossInv, Disjoint
<1>1. /\ Undisturbed /\ Obtainable /\ Wanted' = Wanted
      /\ UNCHANGED vars \/ \E f \in Fetchers : Run(f)
  BY FaultlessStep
<1>2. \A f \in Fetchers : Untroubled(f) /\ Beaten(f)
  BY <1>1 DEF LossInv
<1>3. ASSUME NEW g \in Fetchers, Run(g)
      PROVE  \A f \in Fetchers : Untroubled(f)' /\ Beaten(f)'
  BY <1>1, <1>2, <1>3, UntroubledStep, BeatenStep
<1>4. CASE UNCHANGED vars
  BY <1>1, <1>2, <1>4 DEF vars, Untroubled, Beaten, Ahead, GoesOn
<1> QED
  BY <1>1, <1>3, <1>4

LEMMA LossCorrect == Spec => []LossInv
<1>1. Init => LossInv
  BY FetchersAssumption DEF Init, LossInv, Untroubled, Beaten
<1> QED
  BY <1>1, LossInvStep, TypeCorrect, OwnCorrect, PTL DEF Spec

\* Where nothing goes wrong, a fetcher that was refused leaves one that goes on
\* or that ended normally, for any number of fetchers and any paths.
THEOREM LosesToAnotherCorrect == Spec => []LosesToAnother
<1>1. LossInv => LosesToAnother
  <2> SUFFICES ASSUME LossInv, Undisturbed, Obtainable, Disjoint, NEW f \in Fetchers \ Misplaced,
                      pc[f] \in {"remove", "failed"}
               PROVE  \E h \in Fetchers : GoesOn(h)
    BY DEF LosesToAnother, GoesOn
  <2>1. Beaten(f)
    BY DEF LossInv
  <2> QED
    BY <2>1 DEF Beaten, Ahead, GoesOn, Guarded
<1> QED
  BY <1>1, LossCorrect, PTL

\* So that when all fetchers have ended and not all were misplaced, one of them
\* has its wheels: the safety half of SomeoneFetches.
AllOver == \A f \in Fetchers : pc[f] \in Ended
NotAllRefused ==
  Undisturbed /\ Obtainable /\ Disjoint /\ Fetchers \ Misplaced # {} /\ AllOver =>
    \E f \in Fetchers : At(f, "ok")

THEOREM NotAllRefusedCorrect == Spec => []NotAllRefused
<1>1. TypeOK /\ LossInv => NotAllRefused
  <2> SUFFICES ASSUME LossInv, Undisturbed, Obtainable, Disjoint, AllOver,
                      NEW f \in Fetchers \ Misplaced
               PROVE  \E h \in Fetchers : At(h, "ok")
    BY DEF NotAllRefused
  <2>1. pc[f] \in Ended /\ Untroubled(f) /\ Beaten(f)
    BY DEF LossInv, AllOver
  <2>2. CASE pc[f] = "failed"
    <3>1. PICK h \in Fetchers : GoesOn(h)
      BY <2>1, <2>2 DEF Beaten
    <3>2. pc[h] = "ok"
      BY <3>1 DEF GoesOn, AllOver, Guarded, Ended
    <3> QED
      BY <3>2 DEF At
  <2> QED
    BY <2>1, <2>2 DEF Untroubled, Ended, At
<1> QED
  BY <1>1, TypeCorrect, LossCorrect, PTL
=============================================================================

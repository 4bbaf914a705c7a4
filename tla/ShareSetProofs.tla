--------------------------- MODULE ShareSetProofs ---------------------------
(***************************************************************************)
(* Proofs about ShareSet, for any runs, sizes, thresholds, destinations    *)
(* and any interleaving, failure and power loss.                           *)
(***************************************************************************)
EXTENDS ShareSet, FiniteSetTheorems, TLAPS

USE RunsAssumption, ShapeAssumption, BoundAssumption
USE DEF Running, Ended, Holders, Size, disk, history, bounds

LEMMA Sizes == \A r \in Runs : /\ Size(r) \in Nat /\ 1 \in 1..Size(r)
                               /\ Shares[r] \in Nat /\ Shares[r] >= 2
                               /\ \A i \in 1..Size(r) : Dest[r][i] \in Paths
                               /\ r \in Wizards => Size(r) = Shares[r]
  OBVIOUS

\* While a wizard reads, the number of payloads it has is the position.
ReadInv ==
  \A r \in Runs : /\ pc[r] \in {"start", "preflight", "write"} => got[r] = <<>>
                  /\ pc[r] = "read" => r \in Wizards /\ Len(got[r]) = pos[r] - 1

TypeInv == TypeOK /\ ReadInv

\* After a power loss a directory is gone, or each name is one that it may hold.
Lost ==
  /\ \E gone \in SUBSET (Directories \ old) : \A p \in Paths :
       IF Directory[p] \in gone THEN holder'[p] = "absent" ELSE holder'[p] \in mayHold[p]
  /\ mayHold' = [p \in Paths |-> {holder'[p]}]
  /\ struck' = struck \cup {r \in Runs : pc[r] # "start"}
  /\ pc' = [r \in Runs |-> IF pc[r] \in Running \ {"start"} THEN "dead" ELSE pc[r]]
  /\ UNCHANGED <<pos, old, got, wrote, spoiled, faults, meddling>>

LEMMA CrashLoses ==
  ASSUME TypeOK, Crash PROVE Lost /\ holder' \in [Paths -> Holders]
<1> DEFINE open == {p \in Paths : mayHold[p] # {holder[p]}}
<1>1. PICK gone \in SUBSET (Directories \ old),
           back \in [open -> UNION {mayHold[p] : p \in open}] :
        /\ \A p \in open : back[p] \in mayHold[p]
        /\ holder' = [p \in Paths |-> IF Directory[p] \in gone THEN "absent"
                                     ELSE IF p \in open THEN back[p] ELSE holder[p]]
  BY DEF Crash
<1>2. \A p \in Paths : IF Directory[p] \in gone THEN holder'[p] = "absent"
                                              ELSE holder'[p] \in mayHold[p]
  BY <1>1
<1>3. \A p \in Paths : holder'[p] \in Holders
  <2> TAKE p \in Paths
  <2>1. mayHold[p] \subseteq Holders
    BY DEF TypeOK
  <2> QED
    BY <1>2, <2>1
<1>4. holder' \in [Paths -> Holders]
  BY <1>1, <1>3
<1>5. Lost
  BY <1>2 DEF Lost, Crash
<1> QED
  BY <1>4, <1>5

LEMMA MoveTypes ==
  ASSUME TypeInv, NEW r \in Runs, UNCHANGED <<pc, disk, history, bounds>>,
         pos' = [pos EXCEPT ![r] = @ + 1],
         \/ pc[r] = "preflight" /\ pos[r] \in 1..(Size(r) - 1) /\ UNCHANGED got
         \/ /\ pc[r] = "read" /\ r \in Wizards /\ pos[r] \in 1..Size(r)
            /\ got' \in [Runs -> Seq(Holders)] /\ Len(got'[r]) = pos[r]
            /\ \A q \in Runs \ {r} : got'[q] = got[q]
  PROVE  TypeInv'
<1> USE DEF TypeInv, TypeOK, ReadInv
<1>1. pos[r] \in Nat /\ pos' \in [Runs -> Nat] /\ pos'[r] = pos[r] + 1
  OBVIOUS
<1>2. pos'[r] \in 1..Size(r) \/ (r \in Wizards /\ pos'[r] = Size(r) + 1 /\ pc[r] = "read")
  BY <1>1, Sizes
<1>3. \A q \in Runs \ {r} : pos'[q] = pos[q]
  OBVIOUS
<1>4. got' \in [Runs -> Seq(Holders)]
  OBVIOUS
<1>5. TypeOK'
  BY <1>1, <1>2, <1>3, <1>4
<1>6. ReadInv'
  <2> TAKE q \in Runs
  <2>1. CASE q = r
    BY <1>1, <2>1
  <2>2. CASE q # r
    BY <1>3, <2>2
  <2> QED
    BY <2>1, <2>2
<1> QED
  BY <1>5, <1>6

\* What a step of one run may change of the two sequences of positions.
LEMMA TypeStep == ASSUME TypeInv, [Next]_vars PROVE TypeInv'
<1> USE Sizes DEF TypeInv, TypeOK, ReadInv, At, Goto, Here
<1>1. ASSUME NEW r \in Runs, SelfTest(r) PROVE TypeInv'
  BY <1>1 DEF SelfTest
<1>2. ASSUME NEW r \in Runs, Preflight(r) PROVE TypeInv'
  <2>1. CASE Goto(r, "failed") /\ UNCHANGED pos
    BY <1>2, <2>1 DEF Preflight
  <2>2. CASE Advance(r, Size(r), "write")
    <3>1. CASE pos[r] = Size(r)
      BY <1>2, <2>2, <3>1 DEF Preflight, Advance
    <3>2. CASE pos[r] # Size(r)
      <4>1. /\ pos' = [pos EXCEPT ![r] = @ + 1] /\ pc' = pc /\ pos[r] \in 1..Size(r)
            /\ UNCHANGED <<disk, got, history, bounds>>
        BY <1>2, <2>2, <3>2 DEF Preflight, Advance
      <4>2. pos[r] \in 1..(Size(r) - 1) /\ pc[r] = "preflight"
        BY <1>2, <3>2, <4>1 DEF Preflight
      <4> QED
        BY <4>1, <4>2, MoveTypes
    <3> QED
      BY <3>1, <3>2
  <2> QED
    BY <1>2, <2>1, <2>2 DEF Preflight
<1>3. ASSUME NEW r \in Runs, WriteFile(r) PROVE TypeInv'
  <2>1. holder' \in [Paths -> Holders] /\ mayHold' \in [Paths -> SUBSET Holders]
    BY <1>3 DEF WriteFile, Publish
  <2>2. /\ \A s \in Runs : wrote'[s] \subseteq 1..Size(s) /\ spoiled'[s] \subseteq Paths
        /\ DOMAIN wrote' = Runs /\ DOMAIN spoiled' = Runs
        /\ UNCHANGED <<old, got, struck, bounds>>
    BY <1>3 DEF WriteFile, Publish, Spoil
  <2>3. /\ pos' = [pos EXCEPT ![r] = IF @ = Size(r) THEN 1 ELSE @ + 1]
        /\ pc' = [pc EXCEPT ![r] = IF pos[r] = Size(r)
                                  THEN IF r \in Wizards THEN "read" ELSE "ok" ELSE "write"]
    BY <1>3 DEF WriteFile, Advance
  <2>4. pos[r] \in 1..Size(r) /\ got[r] = <<>>
    BY <1>3 DEF WriteFile
  <2>5. pos' \in [Runs -> Nat] /\ pos'[r] \in 1..Size(r)
    BY <2>3, <2>4
  <2>6. pc' \in [Runs -> Running \cup Ended] /\ (pc'[r] = "read" => pos'[r] = 1 /\ r \in Wizards)
    BY <1>3, <2>3, <2>4 DEF WriteFile
  <2>7. UNCHANGED <<old, got, struck, faults, meddling, crashes>>
    BY <1>3 DEF WriteFile, Publish
  <2> QED
    BY <2>1, <2>2, <2>3, <2>4, <2>5, <2>6, <2>7
<1>4. ASSUME NEW r \in Runs, WriteRefused(r) PROVE TypeInv'
  BY <1>4 DEF WriteRefused
<1>5. ASSUME NEW r \in Runs, WriteFault(r) PROVE TypeInv'
  <2>a. faults' \in 0..MaxFaults /\ UNCHANGED <<pos, meddling, crashes>>
    BY <1>5 DEF WriteFault
  <2>1. CASE UNCHANGED <<disk, got, history>>
    BY <1>5, <2>a, <2>1 DEF WriteFault
  <2>2. CASE Publish(r, FALSE)
    <3>1. /\ holder' \in [Paths -> Holders] /\ mayHold' \in [Paths -> SUBSET Holders]
          /\ UNCHANGED <<old, got, struck>>
      BY <1>5, <2>2 DEF WriteFault, Publish
    <3>2. /\ \A s \in Runs : wrote'[s] \subseteq 1..Size(s) /\ spoiled'[s] \subseteq Paths
          /\ DOMAIN wrote' = Runs /\ DOMAIN spoiled' = Runs
      BY <1>5, <2>2 DEF WriteFault, Publish, Spoil
    <3>3. pc' = [pc EXCEPT ![r] = "failed"]
      BY <1>5 DEF WriteFault
    <3> QED
      BY <2>a, <3>1, <3>2, <3>3
  <2> QED
    BY <1>5, <2>1, <2>2 DEF WriteFault
<1>6. ASSUME NEW r \in Runs, ReadBack(r) PROVE TypeInv'
  <2>1. CASE Goto(r, "unverified") /\ UNCHANGED <<pos, got>>
    BY <1>6, <2>1 DEF ReadBack
  <2>2. CASE /\ got' = [got EXCEPT ![r] = Append(@, holder[Here(r)])]
             /\ pos' = [pos EXCEPT ![r] = @ + 1]
             /\ UNCHANGED pc
    <3>1. pos[r] \in 1..Size(r) /\ Len(got[r]) = pos[r] - 1
      BY <1>6 DEF ReadBack
    <3>2. holder[Here(r)] \in Holders
      BY <3>1
    <3>3. got' \in [Runs -> Seq(Holders)] /\ Len(got'[r]) = pos[r]
      BY <2>2, <3>1, <3>2
    <3>4. UNCHANGED <<disk, history, bounds>> /\ pc[r] = "read" /\ r \in Wizards
      BY <1>6 DEF ReadBack
    <3>5. \A q \in Runs \ {r} : got'[q] = got[q]
      BY <2>2
    <3> QED
      BY <2>2, <3>1, <3>3, <3>4, <3>5, MoveTypes
  <2> QED
    BY <1>6, <2>1, <2>2 DEF ReadBack
<1>7. ASSUME NEW r \in Runs, VerifyReadBack(r) PROVE TypeInv'
  BY <1>7 DEF VerifyReadBack
<1>8. ASSUME Crash PROVE TypeInv'
  <2>1. holder' \in [Paths -> Holders] /\ Lost
    BY <1>8, CrashLoses
  <2>3. crashes' \in 0..MaxCrashes
    BY <1>8 DEF Crash
  <2>2. mayHold' \in [Paths -> SUBSET Holders] /\ struck' \subseteq Runs
    BY <2>1 DEF Lost
  <2> QED
    BY <2>1, <2>2, <2>3 DEF Lost
<1>9. ASSUME NEW p \in Paths, Meddle(p) PROVE TypeInv'
  BY <1>9 DEF Meddle, Spoil
<1>10. CASE UNCHANGED vars
  BY <1>10 DEF vars
<1> QED
  BY <1>1, <1>2, <1>3, <1>4, <1>5, <1>6, <1>7, <1>8, <1>9, <1>10
  DEF Next, Step, AllEnded

LEMMA TypeInit == ASSUME Init PROVE TypeInv
<1>1. holder \in [Paths -> Holders] /\ mayHold \in [Paths -> SUBSET Holders]
  BY DEF Init
<1>2. old \subseteq Directories /\ struck \subseteq Runs
  BY DirectoriesAssumption DEF Init
<1>3. \A r \in Runs : pos[r] \in 1..Size(r) /\ got[r] = <<>> /\ wrote[r] \subseteq 1..Size(r)
  BY Sizes DEF Init
<1> QED
  BY <1>1, <1>2, <1>3 DEF Init, TypeInv, TypeOK, ReadInv

\* Types hold in every reachable state.
THEOREM TypeCorrect == Spec => []TypeOK
<1>1. Init => TypeInv
  BY TypeInit
<1>2. TypeInv => TypeOK
  BY DEF TypeInv
<1> QED
  BY <1>1, <1>2, TypeStep, PTL DEF Spec

LEMMA TypeInvCorrect == Spec => []TypeInv
<1>1. Init => TypeInv
  BY TypeInit
<1> QED
  BY <1>1, TypeStep, PTL DEF Spec

-----------------------------------------------------------------------------
(* What a run has written: a prefix of its destinations, to distinct paths; *)
(* a path names a run only where that run wrote.                            *)

Injective(r) == \A i, j \in 1..Size(r) : i # j => Dest[r][i] # Dest[r][j]

Progress(r) ==
  /\ pc[r] \in {"preflight", "write", "read"} \/ wrote[r] # {} => Injective(r)
  /\ pc[r] \in {"start", "preflight"} => wrote[r] = {}
  /\ pc[r] = "write" => wrote[r] = 1..(pos[r] - 1)
  /\ pc[r] = "failed" => wrote[r] \subseteq 1..pos[r]
  /\ pc[r] \in {"read", "ok", "verified", "unverified"} => wrote[r] = 1..Size(r)
  /\ \A i \in wrote[r] : 1..i \subseteq wrote[r]

Owned == \A p \in Paths :
  /\ holder[p] \in mayHold[p]
  /\ \A r \in Runs : r \in mayHold[p] => \E i \in wrote[r] : Dest[r][i] = p

\* A run that was struck, or that was there before, does nothing more.
Settled == \A r \in struck \cup Earlier : pc[r] \in Ended

ProgressInv == (\A r \in Runs : Progress(r)) /\ Owned /\ Settled

\* The six ways a run's own record changes.
LEMMA OwnStep ==
  ASSUME TypeInv, [Next]_vars, NEW r \in Runs
  PROVE  \/ UNCHANGED <<pc[r], pos[r], wrote[r]>>
         \/ /\ pc[r] = "start" /\ pc'[r] = "preflight" /\ Injective(r)
            /\ UNCHANGED <<pos[r], wrote[r]>>
         \/ /\ pc[r] = "preflight" /\ pc'[r] \in {"preflight", "write"}
            /\ pc'[r] = "write" => pos'[r] = 1
            /\ UNCHANGED wrote[r]
         \/ /\ pc[r] = "write" /\ wrote'[r] = wrote[r] \cup {pos[r]}
            /\ pos[r] \in 1..Size(r)
            /\ \/ pc'[r] = "write" /\ pos'[r] = pos[r] + 1
               \/ pc'[r] \in {"read", "ok"} /\ pos[r] = Size(r)
               \/ pc'[r] = "failed" /\ pos'[r] = pos[r]
         \/ /\ pc[r] = "read" /\ pc'[r] \in {"read", "unverified", "verified"}
            /\ UNCHANGED wrote[r]
         \/ /\ pc[r] \in Running /\ pc'[r] \in {"failed", "dead"}
            /\ pc'[r] = "failed" => pc[r] # "read"
            /\ UNCHANGED <<pos[r], wrote[r]>>
<1> USE Sizes DEF TypeInv, TypeOK, At, Goto
<1>1. ASSUME NEW v \in Runs, v # r, Step(v) \/ WriteFault(v)
      PROVE  UNCHANGED <<pc[r], pos[r], wrote[r]>>
  BY <1>1 DEF Step, SelfTest, Preflight, WriteFile, WriteRefused, ReadBack,
              VerifyReadBack, WriteFault, Publish, Advance
<1>2. CASE SelfTest(r)
  BY <1>2 DEF SelfTest, Injective
<1>3. CASE Preflight(r)
  BY <1>3 DEF Preflight, Advance
<1>4. CASE WriteFile(r)
  BY <1>4 DEF WriteFile, Publish, Advance
<1>5. CASE WriteRefused(r)
  BY <1>5 DEF WriteRefused
<1>6. CASE WriteFault(r)
  BY <1>6 DEF WriteFault, Publish
<1>7. CASE ReadBack(r)
  BY <1>7 DEF ReadBack
<1>8. CASE VerifyReadBack(r)
  BY <1>8 DEF VerifyReadBack
<1>9. CASE Crash
  <2>1. pc'[r] = (IF pc[r] \in Running \ {"start"} THEN "dead" ELSE pc[r]) /\ UNCHANGED <<pos, wrote>>
    BY <1>9 DEF Crash
  <2> QED
    BY <2>1
<1>10. ASSUME NEW p \in Paths, Meddle(p) PROVE UNCHANGED <<pc[r], pos[r], wrote[r]>>
  BY <1>10 DEF Meddle
<1>11. CASE UNCHANGED vars
  BY <1>11 DEF vars
<1> QED
  BY <1>1, <1>2, <1>3, <1>4, <1>5, <1>6, <1>7, <1>8, <1>9, <1>10, <1>11
  DEF Next, Step, AllEnded

LEMMA ProgressOfRun ==
  ASSUME TypeInv, [Next]_vars, NEW r \in Runs, Progress(r) PROVE Progress(r)'
<1>1. Injective(r)' <=> Injective(r)
  BY DEF Injective
<1>2. 1..Size(r) = 1..(Size(r) - 1) \cup {Size(r)}
  BY Sizes
<1>3. pos[r] \in Nat \ {0}
  <2>1. pos[r] \in 1..Size(r) \/ pos[r] = Size(r) + 1
    BY DEF TypeInv, TypeOK
  <2> HIDE DEF Size
  <2> QED
    BY <2>1, Sizes
<1> USE Sizes DEF Progress
<1>4. CASE UNCHANGED <<pc[r], pos[r], wrote[r]>>
  BY <1>1, <1>4
<1>5. CASE /\ pc[r] = "write" /\ wrote'[r] = wrote[r] \cup {pos[r]}
           /\ pos[r] \in 1..Size(r)
           /\ \/ pc'[r] = "write" /\ pos'[r] = pos[r] + 1
              \/ pc'[r] \in {"read", "ok"} /\ pos[r] = Size(r)
              \/ pc'[r] = "failed" /\ pos'[r] = pos[r]
  <2>1. wrote'[r] = 1..pos[r]
    BY <1>3, <1>5
  <2> QED
    BY <1>1, <1>3, <1>5, <2>1
<1>7. CASE /\ pc[r] \in Running /\ pc'[r] \in {"failed", "dead"}
           /\ pc'[r] = "failed" => pc[r] # "read"
           /\ UNCHANGED <<pos[r], wrote[r]>>
  <2>1. pc[r] # "read" => wrote[r] \subseteq 1..pos[r]
    BY <1>3, <1>7
  <2> QED
    BY <1>1, <1>7, <2>1
<1>6. CASE /\ UNCHANGED wrote[r] /\ pc[r] # pc'[r] /\ pc[r] \in {"start", "preflight", "read"}
           /\ pc'[r] \notin {"failed", "dead"}
  <2>1. \/ pc[r] = "start" /\ pc'[r] = "preflight" /\ Injective(r)
        \/ pc[r] = "preflight" /\ pc'[r] = "write" /\ pos'[r] = 1
        \/ pc[r] = "read" /\ pc'[r] \in {"unverified", "verified"}
    BY <1>6, OwnStep
  <2>2. CASE pc[r] = "preflight" /\ pc'[r] = "write" /\ pos'[r] = 1
    <3>1. wrote'[r] = {} /\ 1..(pos'[r] - 1) = {} /\ Injective(r)
      BY <1>6, <2>2
    <3> QED
      BY <1>1, <2>2, <3>1
  <2>3. CASE pc[r] = "start" /\ pc'[r] = "preflight" /\ Injective(r)
    BY <1>1, <1>6, <2>3
  <2>4. CASE pc[r] = "read" /\ pc'[r] \in {"unverified", "verified"}
    BY <1>1, <1>6, <2>4
  <2> QED
    BY <2>1, <2>2, <2>3, <2>4
<1>8. CASE UNCHANGED <<pc[r], wrote[r]>> /\ pc[r] \in {"preflight", "read"}
  BY <1>1, <1>8
<1> QED
  BY <1>4, <1>5, <1>6, <1>7, <1>8, OwnStep

LEMMA EndedStays ==
  ASSUME TypeInv, [Next]_vars, NEW r \in Runs, pc[r] \in Ended
  PROVE  UNCHANGED <<pc[r], pos[r], wrote[r]>>
  BY OwnStep

-----------------------------------------------------------------------------
(* How the disk changes: by a publication of one run, by another program,  *)
(* by a power loss, or not at all.                                         *)

Untouched == UNCHANGED <<holder, mayHold, old, wrote, struck>>

Publishes(r) == /\ At(r, "write") /\ Available(r, Here(r))
                /\ Here(r) \in Paths /\ pos[r] \in 1..Size(r)
                /\ holder' = [holder EXCEPT ![Here(r)] = r]
                /\ wrote' = [wrote EXCEPT ![r] = @ \cup {pos[r]}]
                /\ \A p \in Paths : /\ holder'[p] \in mayHold'[p]
                                    /\ mayHold'[p] \subseteq mayHold[p] \cup {holder'[p]}
                /\ Directory[Here(r)] \in SyncedDirs /\ pc'[r] # "failed"
                     => mayHold'[Here(r)] = {r}
                /\ \A q \in Runs \ {r} : UNCHANGED <<pc[q], pos[q]>>
                /\ UNCHANGED <<old, struck, meddling>>

Meddled == /\ \E p \in Paths, h \in Holders \ Runs :
                /\ holder' = [holder EXCEPT ![p] = h]
                /\ mayHold' = [mayHold EXCEPT ![p] = @ \cup {h}]
           /\ meddling' # 0 /\ MaxMeddling # 0 /\ wrote' = wrote

LEMMA PublishesOf ==
  ASSUME TypeInv, NEW r \in Runs, NEW synced, At(r, "write"), Available(r, Here(r)),
         Publish(r, synced), pc'[r] # "failed" => synced = (Directory[Here(r)] \in SyncedDirs),
         \A q \in Runs \ {r} : UNCHANGED <<pc[q], pos[q]>>, UNCHANGED meddling
  PROVE  Publishes(r)
<1> USE DEF TypeInv, TypeOK, Publish
<1>1. Here(r) \in Paths /\ pos[r] \in 1..Size(r)
  BY Sizes DEF At, Here
<1>2. holder' = [holder EXCEPT ![Here(r)] = r] /\ holder'[Here(r)] = r
  BY <1>1
<1>3. mayHold' = [p \in Paths |->
        IF synced /\ Directory[p] = Directory[Here(r)] THEN {holder'[p]}
                                                      ELSE mayHold[p] \cup {holder'[p]}]
  OBVIOUS
<1>4. \A p \in Paths : /\ holder'[p] \in mayHold'[p]
                       /\ mayHold'[p] \subseteq mayHold[p] \cup {holder'[p]}
  BY <1>3
<1>5. synced => mayHold'[Here(r)] = {r}
  BY <1>1, <1>2, <1>3
<1> QED
  BY <1>1, <1>2, <1>4, <1>5 DEF Publishes

LEMMA DirectoryStep ==
  ASSUME TypeInv, [Next]_vars
  PROVE  \/ \E r \in Runs : Publishes(r)
         \/ Meddled
         \/ Lost
         \/ Untouched /\ meddling' = meddling
<1> USE Sizes DEF Untouched
<1>1. ASSUME NEW r \in Runs, WriteFile(r) PROVE Publishes(r)
  <2>1. \A q \in Runs \ {r} : UNCHANGED <<pc[q], pos[q]>>
    BY <1>1 DEF WriteFile, Advance, Goto, TypeInv, TypeOK
  <2> QED
    BY <1>1, <2>1, PublishesOf DEF WriteFile
<1>2. ASSUME NEW r \in Runs, WriteFault(r)
      PROVE  Publishes(r) \/ (Untouched /\ meddling' = meddling)
  <2>1. /\ pc'[r] = "failed"
        /\ \A q \in Runs \ {r} : UNCHANGED <<pc[q], pos[q]>>
    BY <1>2 DEF WriteFault, Goto, TypeInv, TypeOK
  <2> QED
    BY <1>2, <2>1, PublishesOf DEF WriteFault
<1>3. ASSUME NEW r \in Runs, Step(r), ~WriteFile(r)
      PROVE  Untouched /\ meddling' = meddling
  BY <1>3 DEF Step, SelfTest, Preflight, WriteRefused, ReadBack, VerifyReadBack
<1>4. CASE Crash
  BY <1>4, CrashLoses DEF TypeInv
<1>5. ASSUME NEW p \in Paths, Meddle(p) PROVE Meddled
  <2>1. meddling' # 0 /\ MaxMeddling # 0 /\ wrote' = wrote
    BY <1>5 DEF Meddle, TypeInv, TypeOK
  <2>2. PICK h \in {"absent", "foreign", "unsafe"} :
          /\ holder' = [holder EXCEPT ![p] = h]
          /\ mayHold' = [mayHold EXCEPT ![p] = @ \cup {h}]
    BY <1>5 DEF Meddle
  <2>3. h \in Holders \ Runs
    BY <2>2
  <2> QED
    BY <2>1, <2>2, <2>3 DEF Meddled
<1>6. CASE UNCHANGED vars
  BY <1>6 DEF vars
<1> QED
  BY <1>1, <1>2, <1>3, <1>4, <1>5, <1>6 DEF Next, AllEnded

LEMMA OwnedStep == ASSUME TypeInv, Owned, [Next]_vars PROVE Owned'
<1> SUFFICES ASSUME NEW p \in Paths
             PROVE  /\ holder'[p] \in mayHold'[p]
                    /\ \A r \in Runs : r \in mayHold'[p] =>
                         \E i \in wrote'[r] : Dest[r][i] = p
  BY DEF Owned
<1> USE DEF TypeInv, TypeOK, Owned
<1>1. ASSUME NEW v \in Runs, Publishes(v), NEW r \in Runs, r \in mayHold'[p]
      PROVE  \E i \in wrote'[r] : Dest[r][i] = p
  <2>1. CASE r \in mayHold[p]
    <3>1. wrote[r] \subseteq wrote'[r]
      BY <1>1 DEF Publishes
    <3> QED
      BY <2>1, <3>1
  <2>2. CASE r \notin mayHold[p]
    <3>1. holder'[p] = r /\ holder[p] # r
      BY <1>1, <2>2 DEF Publishes
    <3>2. p = Here(v) /\ r = v
      BY <1>1, <3>1 DEF Publishes
    <3> QED
      BY <1>1, <3>2 DEF Publishes, Here
  <2> QED
    BY <2>1, <2>2
<1>2. CASE Meddled
  <2>1. PICK q \in Paths, h \in Holders \ Runs :
          /\ holder' = [holder EXCEPT ![q] = h]
          /\ mayHold' = [mayHold EXCEPT ![q] = @ \cup {h}]
    BY <1>2 DEF Meddled
  <2>2. mayHold[p] \subseteq mayHold'[p] /\ mayHold'[p] \subseteq mayHold[p] \cup {h}
    BY <2>1
  <2>3. holder'[p] \in mayHold'[p]
    BY <2>1, <2>2
  <2> QED
    BY <1>2, <2>1, <2>2, <2>3 DEF Meddled
<1>3. CASE Lost
  <2>1. mayHold'[p] = {holder'[p]} /\ wrote' = wrote
    BY <1>3 DEF Lost
  <2>2. holder'[p] = "absent" \/ holder'[p] \in mayHold[p]
    BY <1>3 DEF Lost
  <2> QED
    BY <2>1, <2>2
<1>4. CASE Untouched
  BY <1>4 DEF Untouched
<1> QED
  BY <1>1, <1>2, <1>3, <1>4, DirectoryStep DEF Publishes

LEMMA SettledStep == ASSUME TypeInv, Settled, [Next]_vars PROVE Settled'
<1> SUFFICES ASSUME NEW r \in struck' \cup Earlier PROVE pc'[r] \in Ended
  BY DEF Settled
<1>1. CASE r \in struck \cup Earlier
  <2>1. r \in Runs /\ pc[r] \in Ended
    BY <1>1 DEF Settled, TypeInv, TypeOK
  <2> QED
    BY <2>1, EndedStays
<1>2. CASE r \notin struck \cup Earlier
  <2>1. struck' # struck
    BY <1>2
  <2>2. Lost
    <3>1. struck' = struck \/ Lost
      BY <2>1, CrashLoses DEF TypeInv, Next, Step, SelfTest, Preflight, WriteFile,
         WriteRefused, ReadBack, VerifyReadBack, WriteFault, Publish, Meddle, AllEnded, vars
    <3> QED
      BY <2>1, <3>1
  <2>3. r \in Runs /\ pc[r] # "start"
    BY <1>2, <2>2 DEF Lost
  <2> QED
    BY <2>2, <2>3 DEF Lost, TypeInv, TypeOK
<1> QED
  BY <1>1, <1>2

LEMMA ProgressStep == ASSUME TypeInv, ProgressInv, [Next]_vars PROVE ProgressInv'
<1>1. ASSUME NEW r \in Runs PROVE Progress(r)'
  BY <1>1, ProgressOfRun DEF ProgressInv
<1> QED
  BY <1>1, OwnedStep, SettledStep DEF ProgressInv

LEMMA ProgressCorrect == Spec => []ProgressInv
<1>1. Init => ProgressInv
  <2> SUFFICES ASSUME Init PROVE ProgressInv
    OBVIOUS
  <2>1. ASSUME NEW r \in Runs PROVE Progress(r)
    <3>1. CASE r \in Earlier
      BY <3>1, Sizes, EarlierAssumption DEF Init, Progress, Injective
    <3>2. CASE r \notin Earlier
      BY <3>2, Sizes DEF Init, Progress
    <3> QED
      BY <3>1, <3>2
  <2>2. Owned
    BY DEF Init, Owned
  <2>3. Settled
    BY DEF Init, Settled
  <2> QED
    BY <2>1, <2>2, <2>3 DEF ProgressInv
<1> QED
  BY <1>1, TypeInvCorrect, ProgressStep, PTL DEF Spec

-----------------------------------------------------------------------------
(* Nobody but a run with force, or another program, takes a path away, and *)
(* a power loss only what the disk need not hold.                          *)

\* Every path of the set may hold nothing but the run's file.
Firm(r, i) == holder[Dest[r][i]] = r /\ mayHold[Dest[r][i]] = {r}

\* A write that fails may have published without the fsync.
Sure(r, i) == ~(pc[r] = "failed" /\ pos[r] = i)

\* The directory of the run's shares keeps what was synchronised, so far.
Keeps(r) == Lasting(r) \/ (ShareDir(r) \in SyncedDirs /\ r \notin struck)

KeepsHolder(r) == r \notin struck => \A i \in wrote[r] : holder[Dest[r][i]] = r
KeepsShares(r) ==
  Keeps(r) => \A i \in wrote[r] : i \in 1..Shares[r] /\ Sure(r, i) => Firm(r, i)
\* A manifest that may be found is in the directory with all the shares.
KeepsManifest(r) ==
  Together(r) /\ (\E p \in Manifest(r) : r \in mayHold[p]) => \A i \in 1..Shares[r] : Firm(r, i)

KeepInv == \A r \in Runs : Undisturbed(r) =>
             KeepsHolder(r) /\ KeepsShares(r) /\ KeepsManifest(r)

\* A file that no other run with force has touched stays as it is.
LEMMA FirmStays ==
  ASSUME TypeInv, ProgressInv, NEW v \in Runs, Publishes(v), NEW r \in Runs,
         v = r \/ v \notin Forced, NEW i \in 1..Size(r), Firm(r, i)
  PROVE  Firm(r, i)'
<1> DEFINE p == Dest[r][i]
<1>1. p \in Paths /\ holder[p] = r /\ mayHold[p] = {r}
  BY Sizes DEF Firm
<1>2. holder'[p] = r
  <2>1. CASE v = r
    BY <1>1, <2>1 DEF Publishes, TypeInv, TypeOK
  <2>2. CASE v # r
    <3>1. holder[Here(v)] = "absent"
      BY <2>2 DEF Publishes, Available
    <3>2. Here(v) # p
      BY <1>1, <3>1
    <3> QED
      BY <1>1, <3>2 DEF Publishes, TypeInv, TypeOK
  <2> QED
    BY <2>1, <2>2
<1>3. holder'[p] \in mayHold'[p] /\ mayHold'[p] \subseteq mayHold[p] \cup {holder'[p]}
  BY <1>1 DEF Publishes
<1> QED
  BY <1>1, <1>2, <1>3 DEF Firm

\* What is firm outlives a power loss, when the directory does.
LEMMA FirmSurvives ==
  ASSUME NEW r \in Runs, NEW i \in 1..Size(r), Firm(r, i), Lost,
         \/ Directory[Dest[r][i]] \in old
         \/ \E p \in Paths : Directory[p] = Directory[Dest[r][i]] /\ holder'[p] # "absent"
  PROVE  Firm(r, i)'
<1> DEFINE p == Dest[r][i]
<1>1. p \in Paths
  BY Sizes
<1>2. PICK gone \in SUBSET (Directories \ old) : \A q \in Paths :
        IF Directory[q] \in gone THEN holder'[q] = "absent" ELSE holder'[q] \in mayHold[q]
  BY DEF Lost
<1>3. Directory[p] \notin gone
  BY <1>2
<1>4. holder'[p] = r /\ mayHold'[p] = {r}
  BY <1>1, <1>2, <1>3 DEF Firm, Lost
<1> QED
  BY <1>4 DEF Firm

LEMMA SureBefore ==
  ASSUME TypeInv, [Next]_vars, NEW r \in Runs, NEW i \in wrote[r], Sure(r, i)'
  PROVE  Sure(r, i)
<1>1. CASE pc[r] \in Ended
  BY <1>1, EndedStays DEF Sure
<1>2. CASE pc[r] \notin Ended
  BY <1>2 DEF Sure
<1> QED
  BY <1>1, <1>2

LEMMA ShareDestinations ==
  ASSUME NEW r \in Runs, NEW i \in 1..Shares[r]
  PROVE  i \in 1..Size(r) /\ Directory[Dest[r][i]] = ShareDir(r) /\ Dest[r][i] \in Paths
<1>1. i \in 1..Size(r)
  BY Sizes, ShapeAssumption
<1> QED
  BY <1>1, ShapeAssumption, Sizes

LEMMA NewRun ==
  ASSUME TypeInv, ProgressInv, NEW r \in Runs, pc[r] \notin Ended
  PROVE  r \notin struck /\ r \notin Earlier
  BY DEF ProgressInv, Settled

LEMMA ManifestWritten ==
  ASSUME TypeInv, ProgressInv, NEW r \in Runs, NEW p \in Manifest(r), r \in mayHold[p]
  PROVE  \E m \in (Shares[r] + 1)..Size(r) : m \in wrote[r] /\ Dest[r][m] = p
<1>1. PICK m \in (Shares[r] + 1)..Size(r) : p = Dest[r][m]
  BY DEF Manifest
<1>a. m \in 1..Size(r)
  BY Sizes
<1>2. PICK j \in wrote[r] : Dest[r][j] = p
  BY <1>1, <1>a, Sizes DEF ProgressInv, Owned
<1>3. m = j
  <2>1. j \in 1..Size(r)
    BY <1>2 DEF TypeInv, TypeOK
  <2>2. Injective(r)
    BY <1>2 DEF ProgressInv, Progress
  <2> QED
    BY <1>1, <1>a, <1>2, <2>1, <2>2 DEF Injective
<1> QED
  BY <1>1, <1>2, <1>3

LEMMA KeepsHolderStep ==
  ASSUME TypeInv, ProgressInv, KeepInv, [Next]_vars, NEW r \in Runs, Undisturbed(r)'
  PROVE  KeepsHolder(r)'
<1> SUFFICES ASSUME r \notin struck', NEW i \in wrote'[r]
             PROVE  holder'[Dest[r][i]] = r
  BY DEF KeepsHolder
<1> USE DEF TypeInv, TypeOK
<1>1. ASSUME NEW v \in Runs, Publishes(v) PROVE holder'[Dest[r][i]] = r
  <2>1. v \notin Forced \/ v = r
    BY <1>1 DEF Publishes, Undisturbed
  <2>2. Undisturbed(r)
    BY <1>1 DEF Publishes, Undisturbed
  <2>3. \A j \in wrote[r] : holder[Dest[r][j]] = r
    BY <1>1, <2>2 DEF Publishes, KeepInv, KeepsHolder
  <2>4. CASE v = r
    BY <1>1, <2>3, <2>4 DEF Publishes, Here
  <2>5. CASE v # r
    <3>1. i \in wrote[r] /\ holder[Dest[r][i]] = r
      BY <1>1, <2>3, <2>5 DEF Publishes
    <3>2. holder[Here(v)] = "absent"
      BY <1>1, <2>1, <2>5 DEF Publishes, Available
    <3> QED
      BY <1>1, <3>1, <3>2, Sizes DEF Publishes
  <2> QED
    BY <2>4, <2>5
<1>2. CASE Untouched /\ meddling' = meddling
  BY <1>2 DEF Untouched, KeepInv, KeepsHolder, Undisturbed
<1>3. CASE Lost
  <2>1. pc[r] = "start" /\ i \in wrote[r]
    BY <1>3 DEF Lost
  <2> QED
    BY <2>1 DEF ProgressInv, Progress
<1> QED
  BY <1>1, <1>2, <1>3, DirectoryStep DEF TypeInv, Meddled, Undisturbed

LEMMA KeepsSharesStep ==
  ASSUME TypeInv, ProgressInv, KeepInv, [Next]_vars, NEW r \in Runs, Undisturbed(r)'
  PROVE  KeepsShares(r)'
<1> SUFFICES ASSUME Keeps(r)', NEW i \in wrote'[r], i \in 1..Shares[r], Sure(r, i)'
             PROVE  Firm(r, i)'
  BY DEF KeepsShares
<1>a. i \in 1..Size(r) /\ Directory[Dest[r][i]] = ShareDir(r) /\ Dest[r][i] \in Paths
  BY ShareDestinations
<1>1. ASSUME NEW v \in Runs, Publishes(v) PROVE Firm(r, i)'
  <2>1. (v \notin Forced \/ v = r) /\ Undisturbed(r) /\ Keeps(r)
    BY <1>1 DEF Publishes, Undisturbed, Keeps, Lasting, TypeInv, TypeOK
  <2>2. CASE i \in wrote[r]
    <3>1. Firm(r, i)
      BY <2>1, <2>2, SureBefore DEF KeepInv, KeepsShares
    <3> QED
      BY <1>1, <1>a, <2>1, <3>1, FirmStays
  <2>3. CASE i \notin wrote[r]
    <3>1. v = r /\ i = pos[r] /\ Dest[r][i] = Here(r)
      BY <1>1, <2>3 DEF Publishes, Here, TypeInv, TypeOK
    <3>2. r \notin Earlier
      BY <1>1, <3>1, NewRun DEF Publishes, At
    <3>3. Directory[Here(r)] \in SyncedDirs
      BY <1>a, <2>1, <3>1, <3>2 DEF Keeps, Lasting
    <3>4. pc'[r] # "failed"
      <4>1. pc'[r] = "failed" => pos'[r] = pos[r]
        BY <1>1, <3>1, OwnStep DEF Publishes, At
      <4> QED
        BY <3>1, <4>1 DEF Sure
    <3>5. mayHold'[Here(r)] = {r} /\ holder'[Here(r)] = r
      BY <1>1, <3>1, <3>3, <3>4 DEF Publishes, TypeInv, TypeOK
    <3> QED
      BY <3>1, <3>5 DEF Firm
  <2> QED
    BY <2>2, <2>3
<1>2. CASE Untouched /\ meddling' = meddling
  <2>1. Undisturbed(r) /\ Keeps(r) /\ i \in wrote[r]
    BY <1>2 DEF Untouched, Undisturbed, Keeps, Lasting
  <2>2. Firm(r, i)
    BY <2>1, SureBefore DEF KeepInv, KeepsShares
  <2> QED
    BY <1>2, <2>2 DEF Firm, Untouched
<1>3. CASE Lost
  <2>1. i \in wrote[r] /\ Undisturbed(r)
    BY <1>3 DEF Lost, Undisturbed
  <2>2. r \in struck'
    <3>1. pc[r] # "start"
      BY <2>1 DEF ProgressInv, Progress
    <3> QED
      BY <1>3, <3>1 DEF Lost
  <2>3. Lasting(r)
    BY <1>3, <2>2 DEF Keeps, Lasting, Lost
  <2>4. Firm(r, i)
    BY <2>1, <2>3, SureBefore DEF KeepInv, KeepsShares, Keeps
  <2>5. Directory[Dest[r][i]] \in old
    BY <1>a, <2>3 DEF Lasting
  <2> QED
    BY <1>3, <1>a, <2>4, <2>5, FirmSurvives
<1> QED
  BY <1>1, <1>2, <1>3, DirectoryStep DEF Meddled, Undisturbed

LEMMA KeepsManifestStep ==
  ASSUME TypeInv, ProgressInv, KeepInv, [Next]_vars, NEW r \in Runs, Undisturbed(r)'
  PROVE  KeepsManifest(r)'
<1> SUFFICES ASSUME Together(r), NEW p \in Manifest(r), r \in mayHold'[p],
                    NEW i \in 1..Shares[r]
             PROVE  Firm(r, i)'
  BY DEF KeepsManifest, Together
<1>a. i \in 1..Size(r) /\ Directory[Dest[r][i]] = ShareDir(r) /\ Dest[r][i] \in Paths
  BY ShareDestinations
<1>b. p \in Paths /\ Directory[p] = ShareDir(r)
  <2>1. PICK m \in (Shares[r] + 1)..Size(r) : p = Dest[r][m]
    BY DEF Manifest
  <2>2. m \in 1..Size(r)
    BY Sizes
  <2> QED
    BY <2>1, <2>2, Sizes DEF Together
<1>1. ASSUME NEW v \in Runs, Publishes(v) PROVE Firm(r, i)'
  <2>1. (v \notin Forced \/ v = r) /\ Undisturbed(r)
    BY <1>1 DEF Publishes, Undisturbed, TypeInv, TypeOK
  <2>2. CASE r \in mayHold[p]
    <3>1. Firm(r, i)
      BY <2>1, <2>2 DEF KeepInv, KeepsManifest
    <3> QED
      BY <1>1, <1>a, <2>1, <3>1, FirmStays
  <2>3. CASE r \notin mayHold[p]
    <3>1. holder'[p] = r /\ holder[p] # r
      BY <1>1, <1>b, <2>3 DEF Publishes, ProgressInv, Owned
    <3>2. p = Here(v) /\ v = r
      BY <1>1, <1>b, <3>1 DEF Publishes, TypeInv, TypeOK
    <3>3. Injective(r) /\ wrote[r] = 1..(pos[r] - 1)
      BY <1>1, <3>2 DEF Publishes, At, ProgressInv, Progress
    <3>4. i \in wrote[r]
      <4>1. PICK m \in (Shares[r] + 1)..Size(r) : p = Dest[r][m]
        BY DEF Manifest
      <4>2. m = pos[r]
        <5>1. m \in 1..Size(r) /\ pos[r] \in 1..Size(r)
          BY <1>1, <3>2, Sizes DEF Publishes
        <5> QED
          BY <3>2, <3>3, <4>1, <5>1 DEF Injective, Here
      <4> QED
        BY <3>3, <4>1, <4>2, Sizes
    <3>5. Keeps(r)
      BY <1>1, <3>2, NewRun DEF Publishes, At, Keeps, Together
    <3>6. Sure(r, i)
      BY <1>1, <3>2 DEF Publishes, At, Sure
    <3>7. Firm(r, i)
      BY <2>1, <3>4, <3>5, <3>6 DEF KeepInv, KeepsShares
    <3> QED
      BY <1>1, <1>a, <2>1, <3>7, FirmStays
  <2> QED
    BY <2>2, <2>3
<1>2. CASE Untouched /\ meddling' = meddling
  <2>1. Undisturbed(r) /\ r \in mayHold[p]
    BY <1>2 DEF Untouched, Undisturbed
  <2>2. Firm(r, i)
    BY <2>1 DEF KeepInv, KeepsManifest
  <2> QED
    BY <1>2, <2>2 DEF Firm, Untouched
<1>3. CASE Lost
  <2>1. Undisturbed(r)
    BY <1>3 DEF Lost, Undisturbed
  <2>2. holder'[p] = r /\ r # "absent"
    BY <1>3, <1>b DEF Lost
  <2>3. r \in mayHold[p]
    BY <1>3, <1>b, <2>2 DEF Lost
  <2>4. Firm(r, i)
    BY <2>1, <2>3 DEF KeepInv, KeepsManifest
  <2> QED
    BY <1>3, <1>a, <1>b, <2>2, <2>4, FirmSurvives
<1> QED
  BY <1>1, <1>2, <1>3, DirectoryStep DEF Meddled, Undisturbed

LEMMA KeepStep == ASSUME TypeInv, ProgressInv, KeepInv, [Next]_vars PROVE KeepInv'
  BY KeepsHolderStep, KeepsSharesStep, KeepsManifestStep DEF KeepInv

LEMMA SharePathsFinite == \A r \in Runs : IsFiniteSet(SharePaths(r))
<1> TAKE r \in Runs
<1>1. IsFiniteSet(1..Shares[r])
  <2>1. 1 \in Int /\ Shares[r] \in Int
    BY Sizes
  <2> QED
    BY <2>1, FS_Interval
<1> DEFINE f == [i \in 1..Shares[r] |-> SharePath(r, i)]
<1>2. f \in Surjection(1..Shares[r], SharePaths(r))
  BY DEF Surjection, SharePaths
<1> QED
  BY <1>1, <1>2, FS_Surjection

\* Different destinations are different files.
LEMMA SharePathsCount ==
  ASSUME NEW r \in Runs, Injective(r) PROVE Cardinality(SharePaths(r)) = Shares[r]
<1> DEFINE f == [i \in 1..Shares[r] |-> SharePath(r, i)]
<1>1. 1..Shares[r] \subseteq 1..Size(r)
  BY Sizes, ShapeAssumption
<1>2. f \in Bijection(1..Shares[r], SharePaths(r))
  <2>1. \A i, j \in 1..Shares[r] : i # j => f[i] # f[j]
    BY <1>1 DEF Injective, SharePath
  <2>2. f \in Surjection(1..Shares[r], SharePaths(r))
    BY DEF Surjection, SharePaths
  <2> QED
    BY <2>1, <2>2 DEF Bijection, Injection, Surjection, IsInjective
<1>3. ExistsBijection(1..Shares[r], SharePaths(r))
  BY <1>2 DEF ExistsBijection
<1> QED
  BY <1>3, Sizes, FS_CountingElements

\* A reported set, or one with its manifest, is complete in the directory, with
\* as many files as shares; after a power loss, where the directory keeps it.
THEOREM VouchedCorrect == Spec => []VouchedIsComplete
<1>1. Init => KeepInv
  <2> SUFFICES ASSUME Init, NEW r \in Runs
               PROVE  KeepsHolder(r) /\ KeepsShares(r) /\ KeepsManifest(r)
    BY DEF KeepInv
  <2>1. ASSUME NEW i \in wrote[r] PROVE Firm(r, i)
    <3>1. r \in Earlier /\ i \in 1..Size(r)
      BY <2>1 DEF Init
    <3>2. Dest[r][i] \in Paths /\ holder[Dest[r][i]] = r
      BY <3>1, Sizes DEF Init
    <3> QED
      BY <3>2 DEF Firm, Init
  <2>2. (\E p \in Manifest(r) : r \in mayHold[p]) => \A i \in 1..Shares[r] : i \in wrote[r]
    <3> SUFFICES ASSUME NEW p \in Manifest(r), r \in mayHold[p], NEW i \in 1..Shares[r]
                 PROVE  i \in wrote[r]
      OBVIOUS
    <3>1. PICK m \in (Shares[r] + 1)..Size(r) : p = Dest[r][m]
      BY DEF Manifest
    <3>2. p \in Paths
      BY <3>1, Sizes
    <3>3. r \in Earlier
      BY <3>2 DEF Init
    <3> QED
      BY <3>3, ShareDestinations DEF Init
  <2> QED
    BY <2>1, <2>2 DEF KeepsHolder, KeepsShares, KeepsManifest, Firm
<1>2. ASSUME TypeInv, ProgressInv, KeepInv PROVE VouchedIsComplete
  <2> SUFFICES ASSUME NEW r \in Runs, Vouched(r), Undisturbed(r)
               PROVE  /\ \A i \in 1..Shares[r] : holder[SharePath(r, i)] = r
                      /\ Cardinality(OnDisk(r)) = Shares[r]
    BY DEF VouchedIsComplete
  <2>a. KeepsHolder(r) /\ KeepsShares(r) /\ KeepsManifest(r) /\ Progress(r)
    BY <1>2 DEF KeepInv, ProgressInv
  <2>1. ASSUME NEW i \in 1..Shares[r] PROVE i \in wrote[r] /\ (Lasting(r) => Sure(r, i))
    <3>1. CASE Reported(r)
      BY <2>a, <3>1, ShareDestinations DEF Reported, Progress, At, Sure
    <3>2. ASSUME NEW p \in Manifest(r), holder[p] = r PROVE i \in wrote[r] /\ Sure(r, i)
      <4>1. r \in mayHold[p]
        <5>1. p \in Paths
          BY Sizes DEF Manifest
        <5> QED
          BY <1>2, <3>2, <5>1 DEF ProgressInv, Owned
      <4>2. PICK m \in (Shares[r] + 1)..Size(r) : m \in wrote[r] /\ Dest[r][m] = p
        BY <1>2, <4>1, ManifestWritten
      <4>3. i \in 1..m /\ i # m
        BY <4>2, Sizes
      <4>4. i \in wrote[r]
        BY <2>a, <4>2, <4>3 DEF Progress
      <4>5. Sure(r, i)
        <5>1. pc[r] = "failed" => m \in 1..pos[r]
          BY <2>a, <4>2 DEF Progress
        <5>2. pos[r] # i \/ m \notin 1..pos[r]
          BY <4>3, Sizes
        <5> QED
          BY <5>1, <5>2 DEF Sure
      <4> QED
        BY <4>4, <4>5
    <3> QED
      BY <3>1, <3>2 DEF Vouched
  <2>2. \A i \in 1..Shares[r] : holder[SharePath(r, i)] = r
    <3> TAKE i \in 1..Shares[r]
    <3>1. CASE r \notin struck
      BY <2>a, <2>1, <3>1 DEF KeepsHolder, SharePath
    <3>2. CASE Lasting(r)
      BY <2>a, <2>1, <3>2 DEF KeepsShares, Keeps, Firm, SharePath
    <3>3. CASE Together(r) /\ \E p \in Manifest(r) : holder[p] = r
      <4>1. PICK p \in Manifest(r) : holder[p] = r
        BY <3>3
      <4>2. r \in mayHold[p]
        <5>1. p \in Paths
          BY Sizes DEF Manifest
        <5> QED
          BY <1>2, <4>1, <5>1 DEF ProgressInv, Owned
      <4> QED
        BY <2>a, <3>3, <4>2 DEF KeepsManifest, Firm, SharePath
    <3> QED
      BY <3>1, <3>2, <3>3 DEF Vouched
  <2>3. Injective(r)
    <3>1. 1 \in wrote[r]
      BY <2>1, Sizes
    <3> QED
      BY <2>a, <3>1 DEF Progress
  <2>4. OnDisk(r) = SharePaths(r)
    BY <2>2 DEF OnDisk, SharePaths
  <2> QED
    BY <2>2, <2>3, <2>4, SharePathsCount
<1> QED
  BY <1>1, <1>2, KeepStep, TypeInvCorrect, ProgressCorrect, PTL DEF Spec

-----------------------------------------------------------------------------
(* Replacing a set by force.  Each path that a set has once had names that *)
(* set or the other, so the two count n together: both below their         *)
(* thresholds would be at most k + k' - 2 < n.                             *)

Between(r, s) == r # s /\ meddling = 0 /\ \A f \in Forced \ {r, s} : wrote[f] = {}

\* The paths of s may hold nothing but a file of one of the two.
ReplaceOf(s, r) ==
  \A i \in wrote[s] :
    /\ s \notin struck => holder[Dest[s][i]] \in {s, r}
    /\ Lasting(s) /\ i \in 1..Shares[s] /\ Sure(s, i) => mayHold[Dest[s][i]] \subseteq {s, r}

ReplaceInv == \A s, r \in Runs : Between(r, s) => ReplaceOf(s, r)

LEMMA ReplacePublication ==
  ASSUME TypeInv, ProgressInv, ReplaceInv, [Next]_vars, NEW v \in Runs, Publishes(v),
         NEW s \in Runs, NEW r \in Runs, Between(r, s)'
  PROVE  ReplaceOf(s, r)'
<1> USE DEF TypeInv, TypeOK
<1>1. (v \in Forced => v \in {r, s}) /\ Between(r, s) /\ ReplaceOf(s, r)
  <2>1. \A f \in Runs : wrote[f] \subseteq wrote'[f]
    BY DEF Publishes
  <2>2. pos[v] \in wrote'[v]
    BY DEF Publishes
  <2>3. Between(r, s)
    BY <2>1 DEF Publishes, Between
  <2> QED
    BY <2>2, <2>3 DEF ReplaceInv, Between
<1> SUFFICES ASSUME NEW i \in wrote'[s]
             PROVE  /\ s \notin struck' => holder'[Dest[s][i]] \in {s, r}
                    /\ Lasting(s)' /\ i \in 1..Shares[s] /\ Sure(s, i)'
                         => mayHold'[Dest[s][i]] \subseteq {s, r}
  BY DEF ReplaceOf
<1>2. /\ Dest[s][i] \in Paths /\ struck' = struck /\ (Lasting(s)' <=> Lasting(s))
      /\ holder[Dest[s][i]] \in mayHold[Dest[s][i]]
      /\ mayHold'[Dest[s][i]] \subseteq mayHold[Dest[s][i]] \cup {holder'[Dest[s][i]]}
  <2>1. Dest[s][i] \in Paths
    BY Sizes DEF Publishes
  <2> QED
    BY <2>1 DEF Publishes, Lasting, ProgressInv, Owned
<1>3. CASE i \in wrote[s]
  <2>1. holder[Dest[s][i]] \in {s, r} => holder'[Dest[s][i]] \in {s, r}
    <3>1. holder[Here(v)] = "absent" \/ v \in {r, s}
      BY <1>1 DEF Publishes, Available
    <3>2. holder[Dest[s][i]] \in {s, r} /\ v \notin {r, s} => Here(v) # Dest[s][i]
      BY <3>1
    <3> QED
      BY <1>2, <3>2 DEF Publishes
  <2>2. s \notin struck => holder[Dest[s][i]] \in {s, r}
    BY <1>1, <1>3 DEF ReplaceOf
  <2>3. ASSUME Lasting(s)', i \in 1..Shares[s], Sure(s, i)'
        PROVE  mayHold'[Dest[s][i]] \subseteq {s, r}
    <3>1. Sure(s, i)
      BY <1>3, <2>3, SureBefore
    <3>2. mayHold[Dest[s][i]] \subseteq {s, r}
      BY <1>1, <1>2, <1>3, <2>3, <3>1 DEF ReplaceOf
    <3> QED
      BY <1>2, <2>1, <3>2
  <2> QED
    BY <1>2, <2>1, <2>2, <2>3
<1>4. CASE i \notin wrote[s]
  <2>1. v = s /\ i = pos[s] /\ Dest[s][i] = Here(s)
    BY <1>4 DEF Publishes, Here
  <2>2. holder'[Dest[s][i]] = s
    BY <1>2, <2>1 DEF Publishes
  <2>3. ASSUME Lasting(s)', i \in 1..Shares[s], Sure(s, i)'
        PROVE  mayHold'[Dest[s][i]] \subseteq {s, r}
    <3>1. Directory[Here(s)] \in SyncedDirs
      <4>1. s \notin Earlier
        BY <2>1, NewRun DEF Publishes, At
      <4> QED
        BY <1>2, <2>1, <2>3, <4>1, ShareDestinations DEF Lasting
    <3>2. pc'[s] # "failed"
      <4>1. pc'[s] = "failed" => pos'[s] = pos[s]
        BY <2>1, OwnStep DEF Publishes, At
      <4> QED
        BY <2>1, <2>3, <4>1 DEF Sure
    <3> QED
      BY <2>1, <3>1, <3>2 DEF Publishes
  <2> QED
    BY <2>2, <2>3
<1> QED
  BY <1>3, <1>4

LEMMA ReplaceStep ==
  ASSUME TypeInv, ProgressInv, ReplaceInv, [Next]_vars PROVE ReplaceInv'
<1> SUFFICES ASSUME NEW s \in Runs, NEW r \in Runs, Between(r, s)' PROVE ReplaceOf(s, r)'
  BY DEF ReplaceInv
<1>1. CASE \E v \in Runs : Publishes(v)
  BY <1>1, ReplacePublication
<1>2. CASE Untouched /\ meddling' = meddling
  <2>1. ReplaceOf(s, r) /\ (Lasting(s)' <=> Lasting(s))
    BY <1>2 DEF Untouched, ReplaceInv, Between, Lasting
  <2>2. \A i \in wrote[s] : Sure(s, i)' => Sure(s, i)
    BY SureBefore
  <2> QED
    BY <1>2, <2>1, <2>2 DEF ReplaceOf, Untouched
<1>3. CASE Lost
  <2>1. ReplaceOf(s, r) /\ (Lasting(s)' <=> Lasting(s)) /\ wrote' = wrote
    BY <1>3 DEF Lost, ReplaceInv, Between, Lasting
  <2>2. wrote[s] # {} => s \in struck'
    <3>1. wrote[s] # {} => pc[s] # "start"
      BY DEF ProgressInv, Progress
    <3> QED
      BY <1>3, <3>1 DEF Lost
  <2>3. ASSUME NEW i \in wrote[s], Lasting(s), i \in 1..Shares[s], Sure(s, i)'
        PROVE  mayHold'[Dest[s][i]] \subseteq {s, r}
    <3>1. Sure(s, i)
      BY <2>3, SureBefore
    <3>2. mayHold[Dest[s][i]] \subseteq {s, r}
      BY <2>1, <2>3, <3>1 DEF ReplaceOf
    <3>3. Dest[s][i] \in Paths /\ Directory[Dest[s][i]] \in old
      BY <2>3, ShareDestinations DEF Lasting
    <3>4. holder'[Dest[s][i]] \in mayHold[Dest[s][i]]
      BY <1>3, <3>3 DEF Lost
    <3> QED
      BY <1>3, <3>2, <3>3, <3>4 DEF Lost
  <2> QED
    BY <2>1, <2>2, <2>3 DEF ReplaceOf
<1> QED
  BY <1>1, <1>2, <1>3, DirectoryStep DEF Meddled, Between

\* A forced replacement, interrupted anywhere, and two forced runs at the same
\* time leave one recoverable set.
THEOREM ReplacementCorrect == Spec => []ReplacementKeepsASet
<1>1. Init => ReplaceInv
  <2> SUFFICES ASSUME Init, NEW s \in Runs, NEW r \in Runs, NEW i \in wrote[s]
               PROVE  /\ holder[Dest[s][i]] \in {s, r}
                      /\ mayHold[Dest[s][i]] \subseteq {s, r}
    BY DEF ReplaceInv, ReplaceOf
  <2>1. s \in Earlier /\ i \in 1..Size(s)
    BY DEF Init
  <2>2. Dest[s][i] \in Paths /\ holder[Dest[s][i]] = s
    BY <2>1, Sizes DEF Init
  <2> QED
    BY <2>2 DEF Init
<1>2. TypeInv /\ ProgressInv /\ ReplaceInv => ReplacementKeepsASet
  <2> SUFFICES ASSUME TypeInv, ProgressInv, ReplaceInv,
                      NEW s \in Runs, NEW r \in Runs, Between(r, s),
                      SharePaths(r) = SharePaths(s), 1..Shares[s] \subseteq wrote[s],
                      s \in struck => Lasting(s) /\ Reported(s),
                      Threshold[r] + Threshold[s] <= Cardinality(SharePaths(s)) + 1
               PROVE  Recoverable(s) \/ Recoverable(r)
    BY DEF ReplacementKeepsASet, Between
  <2>1. s \in Runs /\ r \in Runs /\ r # s
    BY DEF Between
  <2>2. SharePaths(s) = OnDisk(s) \cup OnDisk(r)
    <3>1. ASSUME NEW p \in SharePaths(s) PROVE holder[p] \in {s, r}
      <4>1. PICK i \in 1..Shares[s] : p = Dest[s][i]
        BY <3>1 DEF SharePaths, SharePath
      <4>2. ReplaceOf(s, r) /\ i \in wrote[s] /\ p \in Paths
        BY <2>1, <4>1, ShareDestinations DEF ReplaceInv
      <4>3. CASE s \notin struck
        BY <4>1, <4>2, <4>3 DEF ReplaceOf
      <4>4. CASE s \in struck
        <5>1. Lasting(s) /\ Sure(s, i)
          BY <4>4 DEF Sure, Reported, At
        <5>2. holder[p] \in mayHold[p]
          BY <4>2 DEF ProgressInv, Owned
        <5> QED
          BY <4>1, <4>2, <5>1, <5>2 DEF ReplaceOf
      <4> QED
        BY <4>3, <4>4
    <3> QED
      BY <3>1 DEF OnDisk
  <2>3. OnDisk(s) \cap OnDisk(r) = {}
    BY <2>1 DEF OnDisk
  <2>4. IsFiniteSet(OnDisk(s)) /\ IsFiniteSet(OnDisk(r))
    BY <2>1, SharePathsFinite, FS_Subset DEF OnDisk
  <2>5. Cardinality(SharePaths(s)) = Cardinality(OnDisk(s)) + Cardinality(OnDisk(r))
    <3>1. Cardinality(OnDisk(s) \cap OnDisk(r)) = 0
      BY <2>3, FS_EmptySet
    <3>2. Cardinality(OnDisk(s)) \in Nat /\ Cardinality(OnDisk(r)) \in Nat
      BY <2>4, FS_CardinalityType
    <3>3. Cardinality(OnDisk(s) \cup OnDisk(r))
            = Cardinality(OnDisk(s)) + Cardinality(OnDisk(r))
              - Cardinality(OnDisk(s) \cap OnDisk(r))
      BY <2>4, FS_Union
    <3> QED
      BY <2>2, <3>1, <3>2, <3>3
  <2>6. Cardinality(OnDisk(s)) \in Nat /\ Cardinality(OnDisk(r)) \in Nat
    BY <2>4, FS_CardinalityType
  <2>7. Threshold[s] \in Nat /\ Threshold[r] \in Nat
    BY <2>1
  <2> QED
    BY <2>5, <2>6, <2>7 DEF Recoverable
<1> QED
  BY <1>1, <1>2, ReplaceStep, TypeInvCorrect, ProgressCorrect, PTL DEF Spec

-----------------------------------------------------------------------------
(* All or nothing.  The first file decides: only its owner has written     *)
(* anything, and what the owner saw free in the preflight stays free.      *)

Contend == Quiet /\ SameStart

NobodyWrote == \A r \in Runs : wrote[r] = {}

Free(r, i) == holder[Dest[r][i]] = "absent"

FirstOf(r) ==
  /\ wrote[r] # {} => holder[Dest[r][1]] = r
  /\ pc[r] = "start" => pos[r] = 1
  /\ pc[r] = "preflight" /\ NobodyWrote => \A i \in 1..(pos[r] - 1) : Free(r, i)
  /\ pc[r] = "write" /\ (wrote[r] # {} \/ NobodyWrote) =>
       \A i \in pos[r]..Size(r) : Free(r, i)
  /\ pc[r] \in Ended => wrote[r] \in {{}, 1..Size(r)}

FirstInv == \A r \in Runs \ Forced : FirstOf(r)

\* What disturbs the contest stays disturbed.
LEMMA ContendBefore ==
  ASSUME TypeInv, [Next]_vars, Contend' PROVE Contend
<1> USE Sizes DEF TypeInv, TypeOK
<1>1. \A r \in Runs : wrote[r] \subseteq wrote'[r]
  <2>1. ASSUME NEW v \in Runs, WriteFile(v) \/ WriteFault(v), NEW r \in Runs
        PROVE  wrote[r] \subseteq wrote'[r]
    <3>1. \/ wrote' = wrote
          \/ wrote' = [wrote EXCEPT ![v] = @ \cup {pos[v]}]
      BY <2>1 DEF WriteFile, WriteFault, Publish
    <3>2. CASE r = v
      BY <3>1, <3>2
    <3>3. CASE r # v
      BY <3>1, <3>3
    <3> QED
      BY <3>2, <3>3
  <2>2. ASSUME NEW v \in Runs, \/ SelfTest(v) \/ Preflight(v) \/ WriteRefused(v)
                               \/ ReadBack(v) \/ VerifyReadBack(v)
        PROVE  wrote' = wrote
    BY <2>2 DEF SelfTest, Preflight, WriteRefused, ReadBack, VerifyReadBack
  <2>3. Crash \/ (\E p \in Paths : Meddle(p)) \/ UNCHANGED vars => wrote' = wrote
    BY DEF Crash, Meddle, vars
  <2> QED
    BY <2>1, <2>2, <2>3 DEF Next, Step, AllEnded
<1>2. faults \in Nat /\ meddling \in Nat /\ crashes \in Nat
  BY BoundAssumption
<1>3. faults' # 0 \/ faults' = faults
  <2>1. ASSUME NEW v \in Runs, WriteFault(v) PROVE faults' # 0
    BY <1>2, <2>1 DEF WriteFault
  <2>2. ASSUME NEW v \in Runs, Step(v) PROVE faults' = faults
    BY <2>2 DEF Step, SelfTest, Preflight, WriteFile, WriteRefused, ReadBack, VerifyReadBack
  <2>3. Crash \/ (\E p \in Paths : Meddle(p)) \/ UNCHANGED vars => faults' = faults
    BY DEF Crash, Meddle, vars
  <2> QED
    BY <2>1, <2>2, <2>3 DEF Next, AllEnded
<1>4. meddling' # 0 \/ meddling' = meddling
  <2>1. ASSUME NEW p \in Paths, Meddle(p) PROVE meddling' # 0
    BY <1>2, <2>1 DEF Meddle
  <2>2. ASSUME NEW v \in Runs, Step(v) \/ WriteFault(v) PROVE meddling' = meddling
    BY <2>2 DEF Step, SelfTest, Preflight, WriteFile, WriteRefused, ReadBack,
                VerifyReadBack, WriteFault
  <2>3. Crash \/ UNCHANGED vars => meddling' = meddling
    BY DEF Crash, vars
  <2> QED
    BY <2>1, <2>2, <2>3 DEF Next, AllEnded
<1>5. crashes' # 0 \/ crashes' = crashes
  <2>1. Crash => crashes' # 0
    BY <1>2 DEF Crash
  <2>2. ASSUME NEW v \in Runs, Step(v) \/ WriteFault(v) PROVE crashes' = crashes
    BY <2>2 DEF Step, SelfTest, Preflight, WriteFile, WriteRefused, ReadBack,
                VerifyReadBack, WriteFault
  <2>3. (\E p \in Paths : Meddle(p)) \/ UNCHANGED vars => crashes' = crashes
    BY DEF Meddle, vars
  <2> QED
    BY <2>1, <2>2, <2>3 DEF Next, AllEnded
<1>6. Quiet
  BY <1>1, <1>3, <1>4, <1>5 DEF Contend, Quiet
<1>7. SameStart
  BY <1>1 DEF Contend, SameStart
<1> QED
  BY <1>6, <1>7 DEF Contend

\* A publication, when the runs contend: the run is the owner of the first
\* path, or nobody has written yet and it takes the first path now.
LEMMA PublicationStep ==
  ASSUME Contend, Contend', TypeInv, ProgressInv, FirstInv, NEW v \in Runs, WriteFile(v)
  PROVE  /\ holder[Here(v)] = "absent" /\ wrote'[v] # {} /\ Injective(v)
         /\ \A r \in Runs : r # v => wrote[r] = {}
         /\ \A i \in pos[v]..Size(v) : Free(v, i)
<1>1. /\ holder[Here(v)] = "absent" /\ pos[v] \in 1..Size(v)
      /\ wrote'[v] = wrote[v] \cup {pos[v]} /\ pc[v] = "write"
  <2>1. /\ pos[v] \in 1..Size(v) /\ pc[v] = "write"
        /\ wrote' = [wrote EXCEPT ![v] = @ \cup {pos[v]}]
    BY DEF WriteFile, Publish, TypeInv, TypeOK, At
  <2>2. wrote'[v] = wrote[v] \cup {pos[v]}
    BY <2>1 DEF TypeInv, TypeOK
  <2>3. v \notin Forced
    BY <2>2 DEF Contend, Quiet
  <2> QED
    BY <2>1, <2>2, <2>3 DEF WriteFile, Available
<1>2. Injective(v) /\ wrote[v] = 1..(pos[v] - 1)
  BY <1>1 DEF ProgressInv, Progress
<1>3. \A r \in Runs : wrote[r] # {} => holder[Dest[v][1]] = r
  <2> SUFFICES ASSUME NEW r \in Runs, wrote[r] # {} PROVE holder[Dest[v][1]] = r
    OBVIOUS
  <2>1. wrote'[r] # {} /\ wrote'[v] # {}
    BY <1>1 DEF WriteFile, Publish, TypeInv, TypeOK
  <2>2. Dest[r][1] = Dest[v][1]
    BY <2>1 DEF Contend, SameStart
  <2>3. r \notin Forced
    BY DEF Contend, Quiet
  <2> QED
    BY <2>2, <2>3 DEF FirstInv, FirstOf
<1>4. \A r \in Runs : r # v => wrote[r] = {}
  <2>1. CASE wrote[v] # {}
    BY <1>3, <2>1
  <2>2. CASE wrote[v] = {}
    <3>1. pos[v] = 1
      <4>1. pos[v] \in Nat /\ pos[v] >= 1
        BY <1>1, Sizes
      <4>2. pos[v] # 1 => 1 \in 1..(pos[v] - 1)
        BY <4>1
      <4> QED
        BY <1>2, <2>2, <4>2
    <3> QED
      BY <1>1, <1>3, <3>1 DEF Here
  <2> QED
    BY <2>1, <2>2
<1>5. wrote[v] # {} \/ NobodyWrote
  BY <1>4 DEF NobodyWrote
<1> QED
  <2>1. v \notin Forced
    BY <1>1 DEF Contend, Quiet
  <2> QED
    BY <1>1, <1>2, <1>4, <1>5, <2>1 DEF FirstInv, FirstOf

LEMMA FirstSame ==
  ASSUME NEW r \in Runs, FirstOf(r), Untouched, UNCHANGED <<pc[r], pos[r]>>
  PROVE  FirstOf(r)'
  BY DEF FirstOf, Untouched, NobodyWrote, Free

LEMMA FirstStep ==
  ASSUME Contend, Contend', TypeInv, ProgressInv, FirstInv, [Next]_vars
  PROVE  FirstInv'
<1> USE Sizes DEF TypeInv, TypeOK, At, Goto
<1> SUFFICES ASSUME NEW r \in Runs \ Forced PROVE FirstOf(r)'
  BY DEF FirstInv
<1>a. FirstOf(r) /\ Progress(r)
  BY DEF FirstInv, ProgressInv
<1>1. ASSUME NEW v \in Runs, SelfTest(v) PROVE FirstOf(r)'
  <2>1. Untouched /\ pos' = pos /\ pc[v] = "start"
    BY <1>1 DEF SelfTest, Untouched
  <2>2. CASE v = r
    <3>1. wrote'[r] = {} /\ pos'[r] = 1 /\ pc'[r] \in {"preflight", "failed"}
      BY <1>1, <1>a, <2>1, <2>2 DEF SelfTest, Untouched, FirstOf, Progress
    <3> QED
      BY <3>1 DEF FirstOf
  <2>3. CASE v # r
    BY <1>1, <1>a, <2>1, <2>3, FirstSame DEF SelfTest
  <2> QED
    BY <2>2, <2>3
<1>2. ASSUME NEW v \in Runs, Preflight(v) PROVE FirstOf(r)'
  <2>1. Untouched /\ pc[v] = "preflight"
    BY <1>2 DEF Preflight, Untouched
  <2>2. CASE v # r
    BY <1>2, <1>a, <2>1, <2>2, FirstSame DEF Preflight, Advance
  <2>3. CASE v = r
    <3>1. wrote'[r] = {}
      BY <1>a, <2>1, <2>3 DEF Progress, Untouched
    <3>2. CASE Goto(v, "failed")
      BY <2>3, <3>1, <3>2 DEF FirstOf
    <3>3. CASE Free(r, pos[r]) /\ Advance(v, Size(v), "write")
      <4>1. pos[r] \in 1..Size(r)
        BY <2>1, <2>3
      <4>2. NobodyWrote' => \A i \in 1..pos[r] : Free(r, i)'
        BY <1>a, <2>1, <2>3, <3>3, <4>1 DEF FirstOf, Untouched, NobodyWrote, Free
      <4>3. \/ pc'[r] = "preflight" /\ pos'[r] = pos[r] + 1
            \/ pc'[r] = "write" /\ pos'[r] = 1 /\ pos[r] = Size(r)
        BY <2>1, <2>3, <3>3 DEF Advance
      <4> QED
        BY <3>1, <4>1, <4>2, <4>3 DEF FirstOf
    <3> QED
      BY <1>2, <2>3, <3>2, <3>3 DEF Preflight, Acceptable, Free, Here
  <2> QED
    BY <2>2, <2>3
<1>3. ASSUME NEW v \in Runs, WriteFile(v) PROVE FirstOf(r)'
  <2>1. /\ holder[Here(v)] = "absent" /\ wrote'[v] # {} /\ Injective(v)
        /\ \A s \in Runs : s # v => wrote[s] = {}
        /\ \A i \in pos[v]..Size(v) : Free(v, i)
    BY <1>3, PublicationStep
  <2>2. ~NobodyWrote'
    BY <2>1 DEF NobodyWrote
  <2>3. CASE v # r
    <3>1. wrote'[r] = {} /\ UNCHANGED <<pc[r], pos[r]>>
      BY <1>3, <2>1, <2>3 DEF WriteFile, Publish, Advance
    <3> QED
      BY <1>a, <2>2, <3>1 DEF FirstOf
  <2>4. CASE v = r
    <3>1. /\ holder' = [holder EXCEPT ![Dest[r][pos[r]]] = r]
          /\ wrote'[r] = 1..pos[r] /\ pos[r] \in 1..Size(r)
      BY <1>3, <1>a, <2>4 DEF WriteFile, Publish, Here, Progress
    <3>2. holder'[Dest[r][1]] = r
      <4>1. CASE pos[r] = 1
        BY <3>1, <4>1
      <4>2. CASE pos[r] # 1
        <5>1. wrote[r] # {}
          <6>1. wrote[r] = 1..(pos[r] - 1)
            BY <1>3, <1>a, <2>4 DEF Progress, WriteFile
          <6>2. 1 \in 1..(pos[r] - 1)
            BY <3>1, <4>2
          <6> QED
            BY <6>1, <6>2
        <5>2. Dest[r][1] # Dest[r][pos[r]]
          BY <2>1, <2>4, <3>1, <4>2 DEF Injective
        <5> QED
          BY <1>a, <3>1, <5>1, <5>2 DEF FirstOf
      <4> QED
        BY <4>1, <4>2
    <3>3. \A i \in (pos[r] + 1)..Size(r) : Free(r, i)'
      <4> TAKE i \in (pos[r] + 1)..Size(r)
      <4>1. i \in pos[r]..Size(r) /\ i \in 1..Size(r) /\ i # pos[r]
        BY <3>1
      <4>2. Dest[r][i] # Dest[r][pos[r]] /\ Free(r, i)
        BY <2>1, <2>4, <3>1, <4>1 DEF Injective
      <4> QED
        BY <3>1, <4>1, <4>2 DEF Free
    <3>4. \/ pc'[r] = "write" /\ pos'[r] = pos[r] + 1
          \/ pc'[r] \in {"read", "ok"} /\ pos[r] = Size(r)
      BY <1>3, <2>4 DEF WriteFile, Advance
    <3> QED
      BY <3>1, <3>2, <3>3, <3>4 DEF FirstOf
  <2> QED
    BY <2>3, <2>4
<1>4. ASSUME NEW v \in Runs, WriteRefused(v) PROVE FirstOf(r)'
  <2>1. Untouched /\ pos' = pos /\ pc[v] = "write" /\ pc' = [pc EXCEPT ![v] = "failed"]
    BY <1>4 DEF WriteRefused, Untouched
  <2>2. CASE v # r
    BY <1>a, <2>1, <2>2, FirstSame
  <2>3. CASE v = r
    <3>1. ~Free(r, pos[r]) /\ pos[r] \in pos[r]..Size(r)
      BY <1>4, <2>1, <2>3 DEF WriteRefused, Acceptable, Free, Here
    <3>2. wrote'[r] = {}
      BY <1>a, <2>1, <2>3, <3>1 DEF FirstOf, Untouched
    <3> QED
      BY <2>1, <2>3, <3>2 DEF FirstOf
  <2> QED
    BY <2>2, <2>3
<1>5. ASSUME NEW v \in Runs, ReadBack(v) \/ VerifyReadBack(v) PROVE FirstOf(r)'
  <2>1. Untouched /\ pc[v] = "read"
    BY <1>5 DEF ReadBack, VerifyReadBack, Untouched
  <2>2. CASE v # r
    BY <1>5, <1>a, <2>1, <2>2, FirstSame DEF ReadBack, VerifyReadBack
  <2>3. CASE v = r
    <3>1. wrote'[r] = 1..Size(r) /\ pc'[r] \in {"read", "verified", "unverified"}
      BY <1>5, <1>a, <2>1, <2>3 DEF Progress, Untouched, ReadBack, VerifyReadBack
    <3>2. holder'[Dest[r][1]] = r
      BY <1>a, <2>1, <2>3, <3>1 DEF FirstOf, Untouched
    <3> QED
      BY <3>1, <3>2 DEF FirstOf
  <2> QED
    BY <2>2, <2>3
<1>b. faults \in Nat /\ meddling \in Nat /\ crashes \in Nat
      /\ faults' = 0 /\ meddling' = 0 /\ crashes' = 0
  BY BoundAssumption DEF Contend, Quiet
<1>6. ASSUME NEW v \in Runs, WriteFault(v) PROVE FALSE
  BY <1>b, <1>6 DEF WriteFault
<1>7. ~Crash
  BY <1>b DEF Crash
<1>8. ASSUME NEW p \in Paths, Meddle(p) PROVE FALSE
  BY <1>b, <1>8 DEF Meddle
<1>9. CASE UNCHANGED vars
  BY <1>9, <1>a, FirstSame DEF vars, Untouched
<1> QED
  BY <1>1, <1>2, <1>3, <1>4, <1>5, <1>6, <1>7, <1>8, <1>9 DEF Next, Step, AllEnded

\* Contending runs write their whole set or nothing.
THEOREM AllOrNothingCorrect == Spec => []AllOrNothing
<1>1. Init => (Contend => FirstInv)
  <2> SUFFICES ASSUME Init, Contend, NEW r \in Runs \ Forced PROVE FirstOf(r)
    BY DEF FirstInv
  <2>1. CASE r \in Earlier
    <3>1. wrote[r] = 1..Size(r) /\ pc[r] = "ok"
      BY <2>1 DEF Init
    <3>2. holder[Dest[r][1]] = r
      BY <2>1, Sizes DEF Init
    <3> QED
      BY <3>1, <3>2 DEF FirstOf
  <2>2. CASE r \notin Earlier
    BY <2>2, Sizes DEF Init, FirstOf
  <2> QED
    BY <2>1, <2>2
<1>2. ASSUME Contend => FirstInv PROVE AllOrNothing
  BY <1>2 DEF AllOrNothing, Contend, Quiet, FirstInv, FirstOf
<1>4. ASSUME TypeInv, ProgressInv, Contend => FirstInv, [Next]_vars
      PROVE  (Contend => FirstInv)'
  BY <1>4, FirstStep, ContendBefore
<1> QED
  BY <1>1, <1>2, <1>4, TypeInvCorrect, ProgressCorrect, PTL DEF Spec

-----------------------------------------------------------------------------
(* A wizard vouches only for what it has read back.  A spoiled file was     *)
(* somebody else's when it was spoiled, and only the wizard, which writes   *)
(* each of its names once, could make it the wizard's again.                *)

OthersDiffer(r) == \A s \in Runs \ {r} : Secret[s] # Secret[r]

SpoiledOf(r) ==
  /\ \A p \in spoiled[r] : \E i \in wrote[r] : Dest[r][i] = p
  /\ pc[r] \in {"write", "read"} => \A i \in wrote[r] : Dest[r][i] \in spoiled[r] =>
       IF i <= Len(got[r]) THEN got[r][i] # r ELSE holder[Dest[r][i]] # r
  /\ pc[r] = "verified" /\ OthersDiffer(r) => spoiled[r] = {}

SpoiledInv == \A r \in Wizards : SpoiledOf(r)

LEMMA SpoiledSame ==
  ASSUME NEW r \in Runs, SpoiledOf(r), UNCHANGED <<holder, got[r], wrote[r], spoiled[r]>>,
         pc'[r] = pc[r] \/ pc'[r] \notin {"write", "read", "verified"}
  PROVE  SpoiledOf(r)'
  BY DEF SpoiledOf, OthersDiffer

\* Somebody else's file comes to bear the name p.
LEMMA SpoiledByOthers ==
  ASSUME TypeInv, ProgressInv, NEW r \in Wizards, SpoiledOf(r), NEW p \in Paths,
         NEW h \in Holders \ {r}, holder' = [holder EXCEPT ![p] = h], Spoil(p),
         UNCHANGED <<pc[r], got[r], wrote[r]>>
  PROVE  SpoiledOf(r)'
<1>1. r \in Runs /\ Progress(r)
  BY DEF ProgressInv
<1> DEFINE Hit == \E i \in wrote[r] : /\ Dest[r][i] = p
                                      /\ \/ pc[r] = "write"
                                         \/ pc[r] = "read" /\ pos[r] <= i
<1>2. spoiled'[r] = IF Hit THEN spoiled[r] \cup {p} ELSE spoiled[r]
  BY <1>1 DEF Spoil, At
<1>3. \A q \in spoiled'[r] : \E i \in wrote'[r] : Dest[r][i] = q
  <2> TAKE q \in spoiled'[r]
  <2>1. CASE q \in spoiled[r]
    BY <2>1 DEF SpoiledOf
  <2>2. CASE q \notin spoiled[r]
    <3>1. Hit /\ q = p
      BY <1>2, <2>2
    <3> QED
      BY <3>1
  <2> QED
    BY <2>1, <2>2
<1>4. ASSUME pc[r] \in {"write", "read"}, NEW i \in wrote[r], Dest[r][i] \in spoiled'[r]
      PROVE  IF i <= Len(got[r]) THEN got[r][i] # r ELSE holder'[Dest[r][i]] # r
  <2>1. CASE Dest[r][i] \in spoiled[r]
    BY <1>1, <1>4, <2>1 DEF SpoiledOf, TypeInv, TypeOK
  <2>2. CASE Dest[r][i] \notin spoiled[r]
    <3>1. Dest[r][i] = p /\ Hit
      BY <1>2, <1>4, <2>2
    <3>2. PICK j \in wrote[r] : /\ Dest[r][j] = p
                               /\ \/ pc[r] = "write"
                                  \/ pc[r] = "read" /\ pos[r] <= j
      BY <3>1
    <3>3. i = j
      <4>1. i \in 1..Size(r) /\ j \in 1..Size(r)
        BY <1>1 DEF TypeInv, TypeOK
      <4>2. Injective(r)
        BY <1>1, <1>4 DEF Progress
      <4> QED
        BY <3>1, <3>2, <4>1, <4>2 DEF Injective
    <3>4. ~(i <= Len(got[r]))
      <4>1. pos[r] \in Nat /\ i \in Nat \ {0}
        <5>1. pos[r] \in Nat /\ i \in 1..Size(r)
          BY <1>1 DEF TypeInv, TypeOK
        <5> QED
          BY <1>1, <5>1, Sizes
      <4>2. CASE pc[r] = "read"
        <5>1. Len(got[r]) = pos[r] - 1
          BY <1>1, <4>2 DEF TypeInv, ReadInv
        <5>2. pos[r] <= i
          BY <3>2, <3>3, <4>2
        <5> HIDE DEF Hit
        <5> QED
          BY <4>1, <5>1, <5>2
      <4>3. CASE pc[r] = "write"
        <5>1. Len(got[r]) = 0
          BY <1>1, <4>3 DEF TypeInv, ReadInv
        <5> QED
          BY <4>1, <5>1
      <4> QED
        BY <1>4, <4>2, <4>3
    <3> QED
      BY <3>1, <3>4 DEF TypeInv, TypeOK
  <2> QED
    BY <2>1, <2>2
<1>5. pc[r] = "verified" => spoiled'[r] = spoiled[r]
  BY <1>2
<1> QED
  BY <1>3, <1>4, <1>5 DEF SpoiledOf, OthersDiffer

\* The wizard writes a name that it has not written yet.
LEMMA SpoiledByOwn ==
  ASSUME TypeInv, ProgressInv, NEW r \in Wizards, SpoiledOf(r), At(r, "write"),
         NEW synced, Publish(r, synced), pc'[r] \in {"write", "read", "failed"}
  PROVE  SpoiledOf(r)'
<1>1. /\ r \in Runs /\ Injective(r) /\ wrote[r] = 1..(pos[r] - 1) /\ pos[r] \in 1..Size(r)
      /\ got[r] = <<>>
  BY DEF ProgressInv, Progress, TypeInv, TypeOK, ReadInv, At
<1>2. \A i \in wrote[r] : Dest[r][i] # Here(r)
  <2> TAKE i \in wrote[r]
  <2>1. i \in 1..Size(r) /\ i # pos[r]
    BY <1>1, Sizes DEF TypeInv, TypeOK
  <2> QED
    BY <1>1, <2>1 DEF Injective, Here
<1>3. spoiled'[r] = spoiled[r] /\ got'[r] = got[r]
  BY <1>1, <1>2 DEF Publish, Spoil
<1>4. /\ wrote'[r] = wrote[r] \cup {pos[r]}
      /\ \A i \in wrote[r] : holder'[Dest[r][i]] = holder[Dest[r][i]]
  BY <1>1, <1>2 DEF Publish, TypeInv, TypeOK
<1>5. Dest[r][pos[r]] \notin spoiled[r]
  BY <1>2 DEF SpoiledOf, Here
<1> QED
  BY <1>1, <1>3, <1>4, <1>5 DEF SpoiledOf, At

LEMMA SpoiledStep ==
  ASSUME TypeInv, ProgressInv, SpoiledInv, [Next]_vars PROVE SpoiledInv'
<1> SUFFICES ASSUME NEW r \in Wizards PROVE SpoiledOf(r)'
  BY DEF SpoiledInv
<1>a. r \in Runs /\ SpoiledOf(r)
  BY DEF SpoiledInv
<1> USE DEF At, Goto
<1>1. ASSUME NEW v \in Runs, SelfTest(v) \/ Preflight(v) \/ WriteRefused(v) PROVE SpoiledOf(r)'
  <2>1. UNCHANGED <<holder, got, wrote, spoiled>>
    BY <1>1 DEF SelfTest, Preflight, WriteRefused
  <2>2. CASE pc'[r] = pc[r] \/ pc'[r] \notin {"write", "read", "verified"}
    BY <1>a, <2>1, <2>2, SpoiledSame
  <2>3. CASE pc'[r] # pc[r] /\ pc'[r] \in {"write", "read", "verified"}
    <3>1. pc[r] = "preflight" /\ pc'[r] = "write"
      BY <1>1, <1>a, <2>3 DEF SelfTest, Preflight, WriteRefused, Advance, TypeInv, TypeOK
    <3>2. wrote[r] = {}
      BY <1>a, <3>1 DEF ProgressInv, Progress
    <3> QED
      BY <1>a, <2>1, <3>1, <3>2 DEF SpoiledOf
  <2> QED
    BY <2>2, <2>3
<1>2. ASSUME NEW v \in Runs, WriteFile(v) \/ WriteFault(v) PROVE SpoiledOf(r)'
  <2>1. ASSUME v = r, NEW synced, Publish(r, synced) PROVE SpoiledOf(r)'
    <3>1. pc'[r] \in {"write", "read", "failed"}
      <4>1. pc \in [Runs -> Running \cup Ended] /\ r \in Runs
        BY <1>a DEF TypeInv, TypeOK
      <4>2. CASE WriteFault(v)
        BY <2>1, <4>1, <4>2 DEF WriteFault
      <4>3. CASE WriteFile(v)
        <5>1. pc[r] = "write" /\ Advance(r, Size(r), IF r \in Wizards THEN "read" ELSE "ok")
          BY <2>1, <4>3 DEF WriteFile
        <5> QED
          BY <4>1, <5>1 DEF Advance
      <4> QED
        BY <1>2, <4>2, <4>3
    <3> QED
      BY <1>2, <2>1, <3>1, <1>a, SpoiledByOwn DEF WriteFile, WriteFault
  <2>2. ASSUME v # r, NEW synced, Publish(v, synced) PROVE SpoiledOf(r)'
    <3>1. Here(v) \in Paths
      BY <1>2, Sizes DEF Here, WriteFile, WriteFault, TypeInv, TypeOK
    <3>2. UNCHANGED <<pc[r], got[r], wrote[r]>>
      BY <1>2, <1>a, <2>2 DEF WriteFile, WriteFault, Publish, Advance, TypeInv, TypeOK
    <3>3. v \in Holders \ {r}
      BY <2>2
    <3> QED
      BY <1>a, <2>2, <3>1, <3>2, <3>3, SpoiledByOthers DEF Publish
  <2>3. CASE WriteFault(v) /\ UNCHANGED <<holder, got, wrote, spoiled>>
    <3>1. pc'[r] = pc[r] \/ pc'[r] = "failed"
      BY <2>3, <1>a DEF WriteFault, TypeInv, TypeOK
    <3> QED
      BY <1>a, <2>3, <3>1, SpoiledSame
  <2> QED
    BY <1>2, <2>1, <2>2, <2>3 DEF WriteFile, WriteFault
<1>3. ASSUME NEW v \in Runs, ReadBack(v) PROVE SpoiledOf(r)'
  <2>1. CASE v # r
    <3>1. UNCHANGED <<holder, got[r], wrote[r], spoiled[r], pc[r]>>
      BY <1>3, <1>a, <2>1 DEF ReadBack, TypeInv, TypeOK
    <3> QED
      BY <1>a, <3>1, SpoiledSame
  <2>2. CASE v = r /\ Goto(r, "unverified") /\ UNCHANGED got
    <3>1. pc'[r] = "unverified" /\ UNCHANGED <<holder, got[r], wrote[r], spoiled[r]>>
      BY <1>3, <1>a, <2>2 DEF ReadBack, TypeInv, TypeOK
    <3> QED
      BY <1>a, <3>1, SpoiledSame
  <2>3. CASE v = r /\ got' = [got EXCEPT ![r] = Append(@, holder[Here(r)])] /\ UNCHANGED pc
    <3>1. /\ UNCHANGED <<holder, wrote, spoiled, pc>> /\ pc[r] = "read"
          /\ got'[r] = Append(got[r], holder[Here(r)])
      BY <1>3, <1>a, <2>3 DEF ReadBack, TypeInv, TypeOK
    <3>2. Len(got[r]) = pos[r] - 1 /\ pos[r] \in Nat /\ got[r] \in Seq(Holders)
      BY <1>a, <3>1 DEF TypeInv, TypeOK, ReadInv
    <3>3. /\ Len(got'[r]) = pos[r] /\ got'[r][pos[r]] = holder[Dest[r][pos[r]]]
          /\ \A i \in 1..Len(got[r]) : got'[r][i] = got[r][i]
      BY <3>1, <3>2 DEF Here
    <3>4. ASSUME NEW i \in wrote[r], Dest[r][i] \in spoiled[r]
          PROVE  IF i <= Len(got'[r]) THEN got'[r][i] # r ELSE holder[Dest[r][i]] # r
      <4>1. IF i <= Len(got[r]) THEN got[r][i] # r ELSE holder[Dest[r][i]] # r
        BY <1>a, <3>1, <3>4 DEF SpoiledOf
      <4>2. i \in Nat \ {0}
        <5>1. i \in 1..Size(r)
          BY <1>a, <3>4 DEF TypeInv, TypeOK
        <5> QED
          BY <1>a, <5>1, Sizes
      <4>3. CASE i <= Len(got[r])
        <5>1. i \in 1..Len(got[r]) /\ i <= pos[r]
          BY <3>2, <4>2, <4>3
        <5> QED
          BY <3>3, <4>1, <4>3, <5>1
      <4>4. CASE i = pos[r]
        <5>1. ~(i <= Len(got[r]))
          BY <3>2, <4>4
        <5> QED
          BY <3>3, <4>1, <4>4, <5>1
      <4>5. CASE ~(i <= pos[r])
        <5>1. ~(i <= Len(got[r]))
          BY <3>2, <4>2, <4>5
        <5> QED
          BY <3>3, <4>1, <4>5, <5>1
      <4> QED
        BY <3>2, <4>2, <4>3, <4>4, <4>5
    <3> QED
      BY <1>a, <3>1, <3>4 DEF SpoiledOf
  <2> QED
    BY <1>3, <2>1, <2>2, <2>3 DEF ReadBack
<1>4. ASSUME NEW v \in Runs, VerifyReadBack(v) PROVE SpoiledOf(r)'
  <2>1. UNCHANGED <<holder, got, wrote, spoiled>>
    BY <1>4 DEF VerifyReadBack
  <2>2. CASE pc'[r] = pc[r] \/ pc'[r] \notin {"write", "read", "verified"}
    BY <1>a, <2>1, <2>2, SpoiledSame
  <2>3. CASE pc'[r] = "verified" /\ pc[r] # "verified"
    <3>1. /\ v = r /\ pc[r] = "read" /\ Len(got[r]) = Shares[r] /\ Recovers(r, got[r])
      BY <1>4, <1>a, <2>3 DEF VerifyReadBack, TypeInv, TypeOK
    <3>2. OthersDiffer(r) => \A i \in 1..Shares[r] : got[r][i] = r
      BY <1>a, <3>1 DEF Recovers, OthersDiffer
    <3>3. \A i \in wrote[r] : i \in 1..Shares[r] /\ i <= Len(got[r])
      <4>1. wrote[r] \subseteq 1..Size(r)
        BY <1>a DEF TypeInv, TypeOK
      <4>2. Size(r) = Shares[r] /\ Len(got[r]) = Shares[r] /\ Shares[r] \in Nat
        BY <1>a, <3>1, Sizes
      <4> HIDE DEF Size
      <4> QED
        BY <4>1, <4>2
    <3>4. OthersDiffer(r) => spoiled[r] = {}
      BY <1>a, <3>1, <3>2, <3>3 DEF SpoiledOf
    <3> QED
      BY <1>a, <2>1, <2>3, <3>4 DEF SpoiledOf, OthersDiffer
  <2> QED
    BY <1>4, <1>a, <2>2, <2>3 DEF VerifyReadBack, TypeInv, TypeOK
<1>5. CASE Crash
  <2>1. /\ UNCHANGED <<got, wrote, spoiled>> /\ pc'[r] \notin {"write", "read"}
        /\ pc'[r] = "verified" => pc[r] = "verified"
    BY <1>5, <1>a DEF Crash
  <2> QED
    BY <1>a, <2>1 DEF SpoiledOf, OthersDiffer
<1>6. ASSUME NEW p \in Paths, Meddle(p) PROVE SpoiledOf(r)'
  <2>1. PICK h \in {"absent", "foreign", "unsafe"} : holder' = [holder EXCEPT ![p] = h]
    BY <1>6 DEF Meddle
  <2>2. h \in Holders \ {r} /\ UNCHANGED <<pc[r], got[r], wrote[r]>> /\ Spoil(p)
    BY <1>6, <1>a, RunsAssumption DEF Meddle
  <2> QED
    BY <1>a, <2>1, <2>2, SpoiledByOthers
<1>7. CASE UNCHANGED vars
  BY <1>7, <1>a, SpoiledSame DEF vars
<1> QED
  BY <1>1, <1>2, <1>3, <1>4, <1>5, <1>6, <1>7 DEF Next, Step, AllEnded

\* A wizard that reports success has read back its own files.
THEOREM VerifiedCorrect == Spec => []VerifiedUntouched
<1>1. Init => SpoiledInv
  BY DEF Init, SpoiledInv, SpoiledOf
<1>2. SpoiledInv => VerifiedUntouched
  BY DEF SpoiledInv, SpoiledOf, VerifiedUntouched, OthersDiffer, At
<1> QED
  BY <1>1, <1>2, SpoiledStep, TypeInvCorrect, ProgressCorrect, PTL DEF Spec

-----------------------------------------------------------------------------
(* Labels.                                                                 *)

\* Sanitised labels that differ, and of which none is the number of another
\* position, give as many different names as there are shares.
THEOREM LabelsDistinct ==
  ASSUME NEW Names, NEW labels \in Seq(Names \cup {Empty}), NEW count \in Nat,
         \A i, j \in DOMAIN labels : i # j /\ labels[i] # Empty => labels[i] # labels[j],
         \A i \in DOMAIN labels, j \in 1..count : i # j => labels[i] # Number(j)
  PROVE  LET names == NormalizeLabels(labels, count) IN
         DOMAIN names = 1..count /\ \A i, j \in 1..count : i # j => names[i] # names[j]
<1> DEFINE names == NormalizeLabels(labels, count)
<1>1. DOMAIN names = 1..count
  BY DEF NormalizeLabels
<1>2. ASSUME NEW i \in 1..count, NEW j \in 1..count, i # j PROVE names[i] # names[j]
  <2>1. CASE Len(labels) = 1 /\ labels[1] # Empty /\ count > 1
    BY <1>2, <2>1 DEF NormalizeLabels, Numbered
  <2>2. CASE ~(Len(labels) = 1 /\ labels[1] # Empty /\ count > 1)
    <3>1. names[i] = LabelOrNumber(labels, i) /\ names[j] = LabelOrNumber(labels, j)
      BY <2>2 DEF NormalizeLabels
    <3>2. Number(i) # Number(j)
      BY <1>2 DEF Number
    <3> QED
      BY <1>2, <3>1, <3>2 DEF LabelOrNumber
  <2> QED
    BY <2>1, <2>2
<1> QED
  BY <1>1, <1>2
=============================================================================

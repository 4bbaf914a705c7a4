-------------------------- MODULE SafeWriteProofs --------------------------
(***************************************************************************)
(* Proofs about SafeWrite, for any set of calls, any faults and any number *)
(* of crashes and moves of other programs.                                 *)
(***************************************************************************)
EXTENDS SafeWrite, TLAPS

USE DEF Entries, DirKinds, Contents, Early, Late, Ended

\* Every action of a call, and the two actions that are nobody's.
LEMMA TypeStep == ASSUME TypeOK, [Next]_vars PROVE TypeOK'
<1> USE WritersAssumption, SwitchAssumption, BoundAssumption
        DEF TypeOK, At, Goto, disk, file, bounds
<1>1. ASSUME NEW w \in Writers, EnsureDir(w) PROVE TypeOK'
  BY <1>1 DEF EnsureDir
<1>2. ASSUME NEW w \in Writers, Mkdir(w) PROVE TypeOK'
  BY <1>2 DEF Mkdir
<1>3. ASSUME NEW w \in Writers, Validate(w) PROVE TypeOK'
  BY <1>3 DEF Validate
<1>4. ASSUME NEW w \in Writers, Mkstemp(w) PROVE TypeOK'
  BY <1>4 DEF Mkstemp
<1>5. ASSUME NEW w \in Writers, Write(w) PROVE TypeOK'
  BY <1>5 DEF Write
<1>6. ASSUME NEW w \in Writers, Flush(w) PROVE TypeOK'
  BY <1>6 DEF Flush
<1>7. ASSUME NEW w \in Writers, Fsync(w) PROVE TypeOK'
  BY <1>7 DEF Fsync
<1>8. ASSUME NEW w \in Writers, Revalidate(w) PROVE TypeOK'
  BY <1>8 DEF Revalidate
<1>9. ASSUME NEW w \in Writers, Replace(w) PROVE TypeOK'
  BY <1>9 DEF Replace, Install
<1>10. ASSUME NEW w \in Writers, Link(w) PROVE TypeOK'
  BY <1>10 DEF Link, Install
<1>11. ASSUME NEW w \in Writers, Refused(w) PROVE TypeOK'
  BY <1>11 DEF Refused
<1>12. ASSUME NEW w \in Writers, UnlinkTemp(w) PROVE TypeOK'
  BY <1>12 DEF UnlinkTemp
<1>13. ASSUME NEW w \in Writers, SyncDir(w) PROVE TypeOK'
  BY <1>13 DEF SyncDir, Foreign
<1>14. ASSUME NEW w \in Writers, Cleanup(w) PROVE TypeOK'
  BY <1>14 DEF Cleanup
<1>15. ASSUME NEW w \in Writers, Fail(w) PROVE TypeOK'
  BY <1>15 DEF Fail, CleanupFails, OSFault, Signal
<1>16. ASSUME Crash PROVE TypeOK'
  BY <1>16 DEF Crash, Foreign
<1>17. ASSUME Environment PROVE TypeOK'
  BY <1>17 DEF Environment, Foreign
<1>18. CASE UNCHANGED vars
  BY <1>18 DEF vars
<1> QED
  BY <1>1, <1>2, <1>3, <1>4, <1>5, <1>6, <1>7, <1>8, <1>9, <1>10, <1>11,
     <1>12, <1>13, <1>14, <1>15, <1>16, <1>17, <1>18 DEF Next, Run, AllEnded

\* The variables always have their types.
THEOREM TypeCorrect == Spec => []TypeOK
<1>1. Init => TypeOK
  BY SwitchAssumption, BoundAssumption DEF Init, TypeOK, Foreign
<1> QED
  BY <1>1, TypeStep, PTL DEF Spec

-----------------------------------------------------------------------------
(* Torn files.  What a power loss may put under the name is synchronised,  *)
(* synchronised contents are complete, and a file that is synchronised is  *)
(* never written again.                                                    *)

BeforeFsync == Early \cup {"write", "flush", "fsync"}

SyncInv ==
  /\ entry \in mayHold
  /\ \A w \in Writers :
       /\ w \in mayHold => synced[w]
       /\ synced[w] => data[w] = "complete" /\ pc[w] \notin BeforeFsync
       /\ pc[w] = "fsync" => data[w] = "complete"
       /\ pc[w] \in {"revalidate", "publish"} => synced[w]

LEMMA SyncInvStep == ASSUME TypeOK, SyncInv, [Next]_vars PROVE SyncInv'
<1> USE WritersAssumption DEF TypeOK, SyncInv, BeforeFsync, At, Goto, disk, file, bounds
<1>1. ASSUME NEW w \in Writers, EnsureDir(w) PROVE SyncInv'
  BY <1>1 DEF EnsureDir
<1>2. ASSUME NEW w \in Writers, Mkdir(w) PROVE SyncInv'
  BY <1>2 DEF Mkdir
<1>3. ASSUME NEW w \in Writers, Validate(w) PROVE SyncInv'
  BY <1>3 DEF Validate
<1>4. ASSUME NEW w \in Writers, Mkstemp(w) PROVE SyncInv'
  BY <1>4 DEF Mkstemp
<1>5. ASSUME NEW w \in Writers, Write(w) PROVE SyncInv'
  BY <1>5 DEF Write
<1>6. ASSUME NEW w \in Writers, Flush(w) PROVE SyncInv'
  BY <1>6 DEF Flush
<1>7. ASSUME NEW w \in Writers, Fsync(w) PROVE SyncInv'
  BY <1>7 DEF Fsync
<1>8. ASSUME NEW w \in Writers, Revalidate(w) PROVE SyncInv'
  BY <1>8 DEF Revalidate
<1>9. ASSUME NEW w \in Writers, Replace(w) PROVE SyncInv'
  BY <1>9 DEF Replace, Install
<1>10. ASSUME NEW w \in Writers, Link(w) PROVE SyncInv'
  BY <1>10 DEF Link, Install
<1>11. ASSUME NEW w \in Writers, Refused(w) PROVE SyncInv'
  BY <1>11 DEF Refused
<1>12. ASSUME NEW w \in Writers, UnlinkTemp(w) PROVE SyncInv'
  BY <1>12 DEF UnlinkTemp
<1>13. ASSUME NEW w \in Writers, SyncDir(w) PROVE SyncInv'
  BY <1>13 DEF SyncDir, Foreign
<1>14. ASSUME NEW w \in Writers, Cleanup(w) PROVE SyncInv'
  BY <1>14 DEF Cleanup
<1>15. ASSUME NEW w \in Writers, Fail(w) PROVE SyncInv'
  BY <1>15 DEF Fail, CleanupFails, OSFault, Signal
<1>16. ASSUME Crash PROVE SyncInv'
  BY <1>16 DEF Crash, Foreign
<1>17. ASSUME Environment PROVE SyncInv'
  BY <1>17 DEF Environment, Foreign
<1>18. CASE UNCHANGED vars
  BY <1>18 DEF vars
<1> QED
  BY <1>1, <1>2, <1>3, <1>4, <1>5, <1>6, <1>7, <1>8, <1>9, <1>10, <1>11,
     <1>12, <1>13, <1>14, <1>15, <1>16, <1>17, <1>18 DEF Next, Run, AllEnded

\* The strengthening holds in every reachable state.
LEMMA SyncCorrect == Spec => []SyncInv
<1>1. Init => SyncInv
  BY WritersAssumption DEF Init, SyncInv, BeforeFsync, Foreign
<1> QED
  BY <1>1, SyncInvStep, TypeCorrect, PTL DEF Spec

\* A name never denotes an incomplete file of a call, whatever fails and
\* however often the machine loses power.
THEOREM NeverTornCorrect == Spec => []NeverTorn
<1>1. SyncInv => NeverTorn
  BY DEF SyncInv, NeverTorn
<1> QED
  BY <1>1, SyncCorrect, PTL

-----------------------------------------------------------------------------
\* A call without force takes a free name only, and no call a directory's.
THEOREM NoClobberCorrect == Spec => NoClobber
<1> DEFINE Safe == \A w \in Writers : TakesName(w) =>
                      entry # "directory" /\ (w \in Forced \/ entry = "absent")
<1>1. ASSUME TypeOK, [Next]_vars PROVE Safe
  <2> USE DEF TakesName, disk, bounds
  <2>1. ASSUME NEW v \in Writers, Replace(v) \/ Link(v) PROVE Safe
    BY <2>1 DEF Replace, Link, Install
  <2>2. ASSUME NEW v \in Writers, Run(v), ~Replace(v), ~Link(v) PROVE entry' = entry
    BY <2>2 DEF Run, EnsureDir, Mkdir, Validate, Mkstemp, Write, Flush, Fsync,
                Revalidate, Refused, UnlinkTemp, SyncDir, Cleanup
  <2>3. ASSUME NEW v \in Writers, Fail(v) PROVE entry' = entry
    BY <2>3 DEF Fail, CleanupFails, OSFault, Signal
  <2>4. CASE Crash
    BY <2>4 DEF Crash, TypeOK
  <2>5. CASE Environment
    BY <2>5, WritersAssumption DEF Environment, Foreign
  <2>6. CASE UNCHANGED vars
    BY <2>6 DEF vars
  <2> QED
    BY <1>1, <2>1, <2>2, <2>3, <2>4, <2>5, <2>6 DEF Next, AllEnded
<1> QED
  BY <1>1, TypeCorrect, PTL DEF Spec, NoClobber

-----------------------------------------------------------------------------
(* Temporary files.  Before one is made there is none, and the ways out of *)
(* the function that leave it behind all pass through a removal.           *)

TempInv ==
  \A w \in Writers :
    /\ pc[w] \in Early \cup {"syncdir", "done"} => ~temp[w]
    /\ pc[w] = "failed" /\ {"unlink", "signal"} \cap faults = {} => ~temp[w]

LEMMA TempInvStep == ASSUME TypeOK, TempInv, [Next]_vars PROVE TempInv'
<1> USE DEF TypeOK, TempInv, At, Goto, disk, file, bounds
<1>1. ASSUME NEW w \in Writers, EnsureDir(w) PROVE TempInv'
  BY <1>1 DEF EnsureDir
<1>2. ASSUME NEW w \in Writers, Mkdir(w) PROVE TempInv'
  BY <1>2 DEF Mkdir
<1>3. ASSUME NEW w \in Writers, Validate(w) PROVE TempInv'
  BY <1>3 DEF Validate
<1>4. ASSUME NEW w \in Writers, Mkstemp(w) PROVE TempInv'
  BY <1>4 DEF Mkstemp
<1>5. ASSUME NEW w \in Writers, Write(w) PROVE TempInv'
  BY <1>5 DEF Write
<1>6. ASSUME NEW w \in Writers, Flush(w) PROVE TempInv'
  BY <1>6 DEF Flush
<1>7. ASSUME NEW w \in Writers, Fsync(w) PROVE TempInv'
  BY <1>7 DEF Fsync
<1>8. ASSUME NEW w \in Writers, Revalidate(w) PROVE TempInv'
  BY <1>8 DEF Revalidate
<1>9. ASSUME NEW w \in Writers, Replace(w) PROVE TempInv'
  BY <1>9 DEF Replace, Install
<1>10. ASSUME NEW w \in Writers, Link(w) PROVE TempInv'
  BY <1>10 DEF Link, Install
<1>11. ASSUME NEW w \in Writers, Refused(w) PROVE TempInv'
  BY <1>11 DEF Refused
<1>12. ASSUME NEW w \in Writers, UnlinkTemp(w) PROVE TempInv'
  BY <1>12 DEF UnlinkTemp
<1>13. ASSUME NEW w \in Writers, SyncDir(w) PROVE TempInv'
  BY <1>13 DEF SyncDir
<1>14. ASSUME NEW w \in Writers, Cleanup(w) PROVE TempInv'
  BY <1>14 DEF Cleanup
<1>15. ASSUME NEW w \in Writers, CleanupFails(w) PROVE TempInv'
  BY <1>15 DEF CleanupFails
<1>16. ASSUME NEW w \in Writers, OSFault(w) PROVE TempInv'
  BY <1>16 DEF OSFault
<1>17. ASSUME NEW w \in Writers, Signal(w) PROVE TempInv'
  BY <1>17 DEF Signal
<1>18. ASSUME Crash PROVE TempInv'
  BY <1>18 DEF Crash
<1>19. ASSUME Environment PROVE TempInv'
  BY <1>19 DEF Environment
<1>20. CASE UNCHANGED vars
  BY <1>20 DEF vars
<1> QED
  BY <1>1, <1>2, <1>3, <1>4, <1>5, <1>6, <1>7, <1>8, <1>9, <1>10, <1>11, <1>12,
     <1>13, <1>14, <1>15, <1>16, <1>17, <1>18, <1>19, <1>20
     DEF Next, Run, Fail, AllEnded

\* The temporary file is gone when the call has returned or has raised, unless
\* its removal failed or an interrupt fell outside the handlers.
THEOREM TempRemovedCorrect == Spec => []TempRemoved
<1>1. Init => TempInv
  BY DEF Init, TempInv
<1>2. TempInv => TempRemoved
  BY DEF TempInv, TempRemoved, At
<1> QED
  BY <1>1, <1>2, TempInvStep, TypeCorrect, PTL DEF Spec

-----------------------------------------------------------------------------
(* Durability.  From the moment a call gave the name to its file, the name *)
(* denotes that file or a forced one, so that synchronising the directory  *)
(* leaves a power loss nothing older to restore.                           *)

Published(w) == pc[w] \in {"unlink", "syncdir", "done"}

DurableInv ==
  DurabilityHolds =>
    /\ entry \in mayHold
    /\ \A w \in Writers : Published(w) => entry \in {w} \cup Forced
    /\ \A w \in Writers : At(w, "done") => mayHold \subseteq {w} \cup Forced

LEMMA DurableInvStep == ASSUME TypeOK, DurableInv, [Next]_vars PROVE DurableInv'
<1> SUFFICES ASSUME DurabilityHolds' PROVE DurableInv'
  BY DEF DurableInv
<1> USE WritersAssumption
    DEF TypeOK, DurableInv, DurabilityHolds, Published, At, Goto, disk, file, bounds
<1>1. ASSUME NEW w \in Writers, EnsureDir(w) PROVE DurableInv'
  BY <1>1 DEF EnsureDir
<1>2. ASSUME NEW w \in Writers, Mkdir(w) PROVE DurableInv'
  BY <1>2 DEF Mkdir
<1>3. ASSUME NEW w \in Writers, Validate(w) PROVE DurableInv'
  BY <1>3 DEF Validate
<1>4. ASSUME NEW w \in Writers, Mkstemp(w) PROVE DurableInv'
  BY <1>4 DEF Mkstemp
<1>5. ASSUME NEW w \in Writers, Write(w) PROVE DurableInv'
  BY <1>5 DEF Write
<1>6. ASSUME NEW w \in Writers, Flush(w) PROVE DurableInv'
  BY <1>6 DEF Flush
<1>7. ASSUME NEW w \in Writers, Fsync(w) PROVE DurableInv'
  BY <1>7 DEF Fsync
<1>8. ASSUME NEW w \in Writers, Revalidate(w) PROVE DurableInv'
  BY <1>8 DEF Revalidate
<1>9. ASSUME NEW w \in Writers, Replace(w) PROVE DurableInv'
  BY <1>9 DEF Replace, Install
<1>10. ASSUME NEW w \in Writers, Link(w) PROVE DurableInv'
  BY <1>10 DEF Link, Install, Foreign
<1>11. ASSUME NEW w \in Writers, Refused(w) PROVE DurableInv'
  BY <1>11 DEF Refused
<1>12. ASSUME NEW w \in Writers, UnlinkTemp(w) PROVE DurableInv'
  BY <1>12 DEF UnlinkTemp
<1>13. ASSUME NEW w \in Writers, SyncDir(w) PROVE DurableInv'
  BY <1>13 DEF SyncDir
<1>14. ASSUME NEW w \in Writers, Cleanup(w) PROVE DurableInv'
  BY <1>14 DEF Cleanup
<1>15. ASSUME NEW w \in Writers, Fail(w) PROVE DurableInv'
  <2>1. ASSUME CleanupFails(w) PROVE DurableInv'
    BY <2>1 DEF CleanupFails
  <2>2. ASSUME OSFault(w) PROVE DurableInv'
    BY <2>2 DEF OSFault
  <2>3. ASSUME Signal(w) PROVE DurableInv'
    BY <2>3 DEF Signal
  <2> QED
    BY <1>15, <2>1, <2>2, <2>3 DEF Fail
<1>16. ASSUME Crash PROVE DurableInv'
  BY <1>16 DEF Crash
<1>17. ASSUME Environment PROVE DurableInv'
  BY <1>17 DEF Environment, Foreign
<1>18. CASE UNCHANGED vars
  BY <1>18 DEF vars
<1> QED
  BY <1>1, <1>2, <1>3, <1>4, <1>5, <1>6, <1>7, <1>8, <1>9, <1>10, <1>11,
     <1>12, <1>13, <1>14, <1>15, <1>16, <1>17, <1>18 DEF Next, Run, AllEnded

\* Where the code can promise durability, a returned call is durable.
THEOREM DurableCorrect == Spec => []DurableWhenDone
<1>1. Init => DurableInv
  BY DEF Init, DurableInv, Published, At
<1>2. DurableInv => DurableWhenDone
  BY DEF DurableInv, DurableWhenDone
<1> QED
  BY <1>1, <1>2, DurableInvStep, TypeCorrect, PTL DEF Spec

-----------------------------------------------------------------------------
(* Refusals.  Where nothing fails and nobody interferes, the name and the   *)
(* parent only ever go from free to taken, so that a reason to refuse      *)
(* stands; and whoever took them is still on its way or has returned.      *)

Undisturbed == faults = {} /\ crashes = 0 /\ envMoves = 0

Reason(w) == \/ dir = "unsafe"
             \/ Taken(w)
             \/ ~dirSaved /\ data[w] = "none" /\ \E v \in Writers : OnItsWay(v)

\* What is known of the name and of the parent.
PlaceInv ==
  /\ dirSaved => dir = "real"
  /\ ~dirSaved => entry \in Writers \cup {"absent"}
  /\ \A w \in Writers : entry = w => pc[w] \in {"unlink", "syncdir", "done"}
  /\ dir = "real" /\ ~dirSaved => \E v \in Writers : OnItsWay(v)

CallInv(w) ==
  /\ pc[w] = "mkdir" => dir # "unsafe" /\ ~dirSaved
  /\ pc[w] \in {"ensure", "mkdir"} => data[w] = "none"
  /\ w \in Forced /\ OnItsWay(w) /\ pc[w] # "validate" => entry \notin {"symlink", "directory"}
  /\ pc[w] \in {"cleanup", "failed"} => Reason(w)

ReasonInv == Undisturbed => PlaceInv /\ \A w \in Writers : CallInv(w)

\* While nothing disturbs, each step is a step of the code of some call.
LEMMA UndisturbedStep ==
  ASSUME TypeOK, Undisturbed', Next
  PROVE  Undisturbed /\ (AllEnded \/ \E w \in Writers : Run(w))
<1>1. ASSUME NEW w \in Writers, Fail(w) PROVE FALSE
  BY <1>1 DEF Fail, CleanupFails, OSFault, Signal, Undisturbed, bounds
<1>2. ~Crash
  BY DEF Crash, Undisturbed, TypeOK
<1>3. ~Environment
  BY DEF Environment, Undisturbed, TypeOK
<1>4. ASSUME NEW w \in Writers, Run(w) PROVE Undisturbed
  BY <1>4 DEF Run, EnsureDir, Mkdir, Validate, Mkstemp, Write, Flush, Fsync, Revalidate,
     Replace, Link, Install, Refused, UnlinkTemp, SyncDir, Cleanup, Undisturbed, bounds
<1> QED BY <1>1, <1>2, <1>3, <1>4 DEF Next, AllEnded, Undisturbed, vars

\* Who takes the name or the parent from others is on its way.
LEMMA StandsAside ==
  ASSUME TypeOK, PlaceInv, NEW w \in Writers, ~dirSaved, Taken(w),
         pc[w] \notin {"unlink", "syncdir", "done"}
  PROVE  \E v \in Writers \ {w} : OnItsWay(v)
<1>1. entry \in Writers /\ entry # w
  BY WritersAssumption DEF PlaceInv, Taken, Foreign
<1>2. OnItsWay(entry)
  BY <1>1 DEF PlaceInv, OnItsWay
<1> QED BY <1>1, <1>2

LEMMA ReasonInvStep == ASSUME TypeOK, ReasonInv, Next PROVE ReasonInv'
<1> SUFFICES ASSUME Undisturbed' PROVE PlaceInv' /\ \A w \in Writers : CallInv(w)'
  BY DEF ReasonInv
<1>0. PlaceInv /\ (\A w \in Writers : CallInv(w)) /\ (AllEnded \/ \E w \in Writers : Run(w))
  BY UndisturbedStep DEF ReasonInv
<1> USE WritersAssumption DEF At, Goto, disk, file, bounds
<1>1. ASSUME NEW w \in Writers, EnsureDir(w) PROVE PlaceInv' /\ \A v \in Writers : CallInv(v)'
  BY <1>0, <1>1 DEF EnsureDir, PlaceInv, CallInv, TypeOK, OnItsWay, Reason, Taken
<1>2. ASSUME NEW w \in Writers, Mkdir(w) PROVE PlaceInv' /\ \A v \in Writers : CallInv(v)'
  BY <1>0, <1>2 DEF Mkdir, PlaceInv, CallInv, TypeOK, OnItsWay, Reason, Taken
<1>3. ASSUME NEW w \in Writers, Validate(w) PROVE PlaceInv' /\ \A v \in Writers : CallInv(v)'
  <2>1. /\ pc \in [Writers -> Early \cup Late \cup Ended]
        /\ UNCHANGED <<dir, dirSaved, entry, data>>
    BY <1>3 DEF Validate, TypeOK
  <2>2. CASE Acceptable(w)
    BY <1>0, <1>3, <2>1, <2>2 DEF Validate, Acceptable, PlaceInv, CallInv, OnItsWay, Reason, Taken, Foreign
  <2>3. CASE ~Acceptable(w)
    <3>1. Taken(w) /\ pc' = [pc EXCEPT ![w] = "failed"] /\ OnItsWay(w)
          /\ pc[w] \notin {"unlink", "syncdir", "done"}
      BY <1>0, <1>3, <2>1, <2>3 DEF Validate, Acceptable, Taken, TypeOK, OnItsWay, Foreign
    <3>2. \A v \in Writers : OnItsWay(v) /\ v # w => OnItsWay(v)'
      BY <2>1, <3>1 DEF OnItsWay
    <3>3. ~dirSaved => \E v \in Writers : OnItsWay(v)'
      BY <1>0, <3>1, <3>2, StandsAside
    <3>4. PlaceInv'
      BY <1>0, <2>1, <3>1, <3>3 DEF PlaceInv
    <3>5. \A v \in Writers : CallInv(v)'
      BY <1>0, <2>1, <3>1, <3>3 DEF CallInv, Reason, Taken, OnItsWay
    <3> QED BY <3>4, <3>5
  <2> QED BY <2>2, <2>3
<1>4. ASSUME NEW w \in Writers, Mkstemp(w) PROVE PlaceInv' /\ \A v \in Writers : CallInv(v)'
  BY <1>0, <1>4 DEF Mkstemp, PlaceInv, CallInv, TypeOK, OnItsWay, Reason, Taken
<1>5. ASSUME NEW w \in Writers, Write(w) \/ Flush(w) \/ Fsync(w)
      PROVE  PlaceInv' /\ \A v \in Writers : CallInv(v)'
  BY <1>0, <1>5 DEF Write, Flush, Fsync, PlaceInv, CallInv, TypeOK, OnItsWay, Reason, Taken
<1>6. ASSUME NEW w \in Writers, Revalidate(w) PROVE PlaceInv' /\ \A v \in Writers : CallInv(v)'
  <2>1. /\ pc \in [Writers -> Early \cup Late \cup Ended]
        /\ UNCHANGED <<dir, dirSaved, entry, data>>
    BY <1>6 DEF Revalidate, TypeOK
  <2>2. CASE Acceptable(w)
    BY <1>0, <1>6, <2>1, <2>2 DEF Revalidate, Acceptable, PlaceInv, CallInv, OnItsWay, Reason, Taken, Foreign
  <2>3. CASE ~Acceptable(w)
    <3>1. Taken(w) /\ pc' = [pc EXCEPT ![w] = "cleanup"] /\ OnItsWay(w)
          /\ pc[w] \notin {"unlink", "syncdir", "done"}
      BY <1>0, <1>6, <2>1, <2>3 DEF Revalidate, Acceptable, Taken, TypeOK, OnItsWay, Foreign
    <3>2. \A v \in Writers : OnItsWay(v) /\ v # w => OnItsWay(v)'
      BY <2>1, <3>1 DEF OnItsWay
    <3>3. ~dirSaved => \E v \in Writers : OnItsWay(v)'
      BY <1>0, <3>1, <3>2, StandsAside
    <3>4. PlaceInv'
      BY <1>0, <2>1, <3>1, <3>3 DEF PlaceInv
    <3>5. \A v \in Writers : CallInv(v)'
      BY <1>0, <2>1, <3>1, <3>3 DEF CallInv, Reason, Taken, OnItsWay
    <3> QED BY <3>4, <3>5
  <2> QED BY <2>2, <2>3
<1>7. ASSUME NEW w \in Writers, Replace(w) PROVE PlaceInv' /\ \A v \in Writers : CallInv(v)'
  <2>1. /\ entry' = w /\ pc' = [pc EXCEPT ![w] = "syncdir"] /\ pc[w] = "publish" /\ w \in Forced
        /\ UNCHANGED <<dir, dirSaved, data>> /\ entry \notin {"symlink", "directory"}
    BY <1>0, <1>7 DEF Replace, Install, CallInv, OnItsWay
  <2>2. \A v \in Writers : OnItsWay(v)' <=> OnItsWay(v)
    BY <2>1 DEF TypeOK, OnItsWay
  <2>3. PlaceInv'
    BY <1>0, <2>1, <2>2 DEF PlaceInv, TypeOK
  <2>4. ASSUME NEW v \in Writers PROVE CallInv(v)'
    <3>1. Taken(v) => Taken(v)'
      BY <2>1, WritersAssumption DEF Taken, Foreign
    <3>2. Reason(v) => Reason(v)'
      BY <2>1, <2>2, <3>1 DEF Reason
    <3> QED BY <1>0, <2>1, <2>2, <3>2 DEF CallInv, TypeOK, Foreign
  <2> QED BY <2>3, <2>4
<1>8. ASSUME NEW w \in Writers, Link(w) PROVE PlaceInv' /\ \A v \in Writers : CallInv(v)'
  BY <1>0, <1>8 DEF Link, Install, PlaceInv, CallInv, TypeOK, OnItsWay, Reason, Taken, Foreign
<1>9. ASSUME NEW w \in Writers, Refused(w) PROVE PlaceInv' /\ \A v \in Writers : CallInv(v)'
  BY <1>0, <1>9, StandsAside DEF Refused, PlaceInv, CallInv, TypeOK, OnItsWay, Reason, Taken
<1>10. ASSUME NEW w \in Writers, UnlinkTemp(w) \/ SyncDir(w) \/ Cleanup(w)
       PROVE  PlaceInv' /\ \A v \in Writers : CallInv(v)'
  BY <1>0, <1>10 DEF UnlinkTemp, SyncDir, Cleanup, PlaceInv, CallInv, TypeOK, OnItsWay, Reason, Taken
<1>11. CASE UNCHANGED vars
  BY <1>0, <1>11 DEF vars, PlaceInv, CallInv, OnItsWay, Reason, Taken
<1> QED BY <1>0, <1>1, <1>2, <1>3, <1>4, <1>5, <1>6, <1>7, <1>8, <1>9, <1>10, <1>11
        DEF Run, AllEnded

LEMMA ReasonCorrect == Spec => []ReasonInv
<1>1. Init => ReasonInv
  BY WritersAssumption DEF Init, ReasonInv, PlaceInv, CallInv, OnItsWay, Foreign
<1>2. TypeOK /\ ReasonInv /\ UNCHANGED vars => ReasonInv'
  BY DEF vars, ReasonInv, Undisturbed, PlaceInv, CallInv, OnItsWay, Reason, Taken
<1> QED
  BY <1>1, <1>2, ReasonInvStep, TypeCorrect, PTL DEF Spec

\* A call that raises while nothing fails and nobody interferes has a reason that
\* still stands, and calls never all raise because of each other.
THEOREM RefusedForAReasonCorrect == Spec => []RefusedForAReason
<1>1. TypeOK /\ ReasonInv => RefusedForAReason
  BY DEF TypeOK, ReasonInv, Undisturbed, CallInv, Reason, RefusedForAReason, Interference, At
<1> QED
  BY <1>1, ReasonCorrect, TypeCorrect, PTL

\* What SomeoneWins says of calls that have all ended, for any number of them:
\* when nothing failed and nobody interfered and yet every call raised, then the
\* parent was unusable or the name was taken before any of them began.
THEOREM NeverAllRefuse ==
  ASSUME Writers # {}
  PROVE  Spec => [](faults = {} /\ ~Interference /\ (\A w \in Writers : At(w, "failed"))
                      => dir = "unsafe" \/ entry \in Foreign \ {"absent"})
<1>1. TypeOK /\ ReasonInv =>
        (faults = {} /\ ~Interference /\ (\A w \in Writers : At(w, "failed"))
           => dir = "unsafe" \/ entry \in Foreign \ {"absent"})
  <2> SUFFICES ASSUME TypeOK, ReasonInv, faults = {}, ~Interference,
                      \A w \in Writers : At(w, "failed"), dir # "unsafe"
               PROVE  entry \in Foreign \ {"absent"}
    OBVIOUS
  <2>1. PlaceInv /\ \A w \in Writers : CallInv(w)
    BY DEF ReasonInv, Undisturbed, Interference, TypeOK
  <2>2. \A v \in Writers : ~OnItsWay(v)
    BY DEF OnItsWay, At
  <2>3. PICK w \in Writers : Taken(w)
    BY <2>1, <2>2 DEF CallInv, Reason, At
  <2>4. entry \notin Writers
    BY <2>1 DEF PlaceInv, At
  <2> QED BY <2>3, <2>4 DEF TypeOK, Taken, Foreign
<1> QED
  BY <1>1, ReasonCorrect, TypeCorrect, PTL

-----------------------------------------------------------------------------
(* Refinement.  Files are never torn, so the abstract entry is the entry;  *)
(* a step of one call moves that call's outcome alone.                     *)

PublicationStep == [Publication!Next]_(Publication!vars)

LEMMA OneOutcome ==
  ASSUME TypeOK, NEW w \in Writers, NEW label, Goto(w, label)
  PROVE  [v \in Writers |-> Outcome(v)]'
           = [[v \in Writers |-> Outcome(v)] EXCEPT ![w] = Outcome(w)']
<1>1. \A v \in Writers : v # w => Outcome(v)' = Outcome(v)
  BY DEF TypeOK, Goto, Outcome
<1> QED
  BY <1>1

\* The name stays, and the call keeps its outcome or is seen to raise.
Quiet(w) ==
  /\ \E label : Goto(w, label)
  /\ UNCHANGED <<entry, mayHold>>
  /\ \/ Outcome(w)' = Outcome(w)
     \/ Outcome(w) \in {"pending", "published"} /\ Outcome(w)' = "error"

LEMMA QuietStep ==
  ASSUME TypeOK, NeverTorn, NeverTorn', NEW w \in Writers, Quiet(w)
  PROVE  PublicationStep
<1> DEFINE R == [v \in Writers |-> Outcome(v)]
<1>1. R' = [R EXCEPT ![w] = Outcome(w)']
  BY OneOutcome DEF Quiet
<1>2. CASE Outcome(w)' = Outcome(w)
  <2>1. R' = R
    BY <1>1, <1>2
  <2> QED
    BY <2>1 DEF PublicationStep, Publication!vars, Quiet
<1>3. CASE Outcome(w) \in {"pending", "published"} /\ Outcome(w)' = "error"
  <2>1. R[w] \in {"pending", "published"} /\ R' = [R EXCEPT ![w] = "error"]
    BY <1>1, <1>3
  <2>2. Publication!Raise(w)
    BY <2>1 DEF Publication!Raise, Quiet
  <2> QED
    BY <2>2 DEF PublicationStep, Publication!Next
<1> QED
  BY <1>2, <1>3 DEF Quiet

LEMMA RefinementStep ==
  ASSUME TypeOK, NeverTorn, NeverTorn', [Next]_vars PROVE PublicationStep
<1> DEFINE R == [v \in Writers |-> Outcome(v)]
<1> USE DEF TypeOK, At, Goto, disk, file, bounds
<1>1. ASSUME NEW w \in Writers,
             \/ EnsureDir(w) \/ Mkdir(w) \/ Validate(w) \/ Mkstemp(w)
             \/ Write(w) \/ Flush(w) \/ Fsync(w) \/ Revalidate(w)
             \/ Refused(w) \/ UnlinkTemp(w) \/ Cleanup(w)
      PROVE  Quiet(w)
  BY <1>1 DEF EnsureDir, Mkdir, Validate, Mkstemp, Write, Flush, Fsync,
              Revalidate, Refused, UnlinkTemp, Cleanup, Quiet, Outcome
<1>2. ASSUME NEW w \in Writers, Fail(w) PROVE Quiet(w)
  <2>1. CASE CleanupFails(w)
    BY <2>1 DEF CleanupFails, Quiet, Outcome
  <2>2. CASE OSFault(w)
    BY <2>2 DEF OSFault, Quiet, Outcome
  <2>3. CASE Signal(w)
    BY <2>3 DEF Signal, Quiet, Outcome
  <2> QED
    BY <1>2, <2>1, <2>2, <2>3 DEF Fail
<1>3. ASSUME NEW w \in Writers, Replace(w) \/ Link(w) PROVE PublicationStep
  <2>1. Goto(w, "syncdir") \/ Goto(w, "unlink")
    BY <1>3 DEF Replace, Link
  <2>2. R[w] = "pending" /\ Outcome(w)' = "published"
    BY <1>3 DEF Replace, Link, Outcome
  <2>3. R' = [R EXCEPT ![w] = "published"]
    BY <2>1, <2>2, OneOutcome
  <2>4. Publication!Publish(w)
    BY <1>3, <2>2, <2>3 DEF Replace, Link, Install, Publication!Publish
  <2> QED
    BY <2>4 DEF PublicationStep, Publication!Next
<1>4. ASSUME NEW w \in Writers, SyncDir(w) PROVE PublicationStep
  <2>1. R[w] = "published" /\ Outcome(w)' = "ok"
    BY <1>4 DEF SyncDir, Outcome
  <2>2. R' = [R EXCEPT ![w] = "ok"]
    BY <1>4, <2>1, OneOutcome DEF SyncDir
  <2>3. entry' = entry /\ mayHold' \in {mayHold, {entry}, {entry, "absent"}}
    BY <1>4 DEF SyncDir
  <2>4. Publication!Return(w)
    BY <2>1, <2>2, <2>3 DEF Publication!Return
  <2> QED
    BY <2>4 DEF PublicationStep, Publication!Next
<1>5. ASSUME Crash PROVE PublicationStep
  <2>1. \A w \in Writers : R'[w] # R[w] =>
          R[w] \in {"pending", "published"} /\ R'[w] = "error"
    BY <1>5 DEF Crash, Outcome
  <2>2. R' \in [Writers -> Publication!Results]
    BY DEF Outcome, Publication!Results
  <2>3. entry' \in mayHold /\ mayHold' \in {{entry'}, {entry', "absent"}}
    BY <1>5 DEF Crash
  <2>4. Publication!PowerLoss
    BY <2>1, <2>2, <2>3 DEF Publication!PowerLoss
  <2> QED
    BY <2>4 DEF PublicationStep, Publication!Next
<1>6. ASSUME Environment PROVE PublicationStep
  <2>1. R' = R
    BY <1>6 DEF Environment, Outcome
  <2>2. Publication!OtherProgram
    BY <1>6, <2>1 DEF Environment, Foreign, Publication!OtherProgram, Publication!Kinds
  <2> QED
    BY <2>2 DEF PublicationStep, Publication!Next
<1>7. CASE UNCHANGED vars
  BY <1>7 DEF vars, Outcome, PublicationStep, Publication!vars
<1> QED
  BY <1>1, <1>2, <1>3, <1>4, <1>5, <1>6, <1>7, QuietStep DEF Next, Run, AllEnded

\* The code implements the abstract machine of one publication per call.
THEOREM Refinement == Spec => ImplementsPublication
<1>1. Init => Publication!Init
  <2> SUFFICES ASSUME Init PROVE Publication!Init
    OBVIOUS
  <2>1. entry \in Foreign /\ mayHold = {entry}
    BY DEF Init, Foreign
  <2>2. NeverTorn
    BY <2>1, WritersAssumption DEF NeverTorn
  <2>3. [w \in Writers |-> Outcome(w)] = [w \in Writers |-> "pending"]
    BY DEF Init, Outcome
  <2> QED
    BY <2>1, <2>2, <2>3 DEF Publication!Init, Publication!Kinds, Foreign
<1> QED
  BY <1>1, RefinementStep, TypeCorrect, NeverTornCorrect, PTL
  DEF Spec, ImplementsPublication, Publication!Spec, PublicationStep
=============================================================================

------------------------ MODULE OfflineInstallProofs ------------------------
(***************************************************************************)
(* Proofs about OfflineInstall, for any bundles, targets and releases, and *)
(* any number of installers, attempts, failures and changes.               *)
(***************************************************************************)
EXTENDS OfflineInstall, TLAPS

LEMMA Lines == /\ Len(Order) \in Nat \ {0} /\ DOMAIN Order = 1..Len(Order)
               /\ \A k \in 1..Len(Order) : Order[k] \in Names
<1>1. Order \in Seq(Shipped)
  BY NamesAssumption
<1>2. Len(Order) \in Nat /\ DOMAIN Order = 1..Len(Order)
  BY <1>1
<1>3. DOMAIN Order # {}
  BY NamesAssumption DEF Shipped
<1>4. Len(Order) # 0
  BY <1>2, <1>3
<1> QED
  BY <1>2, <1>4 DEF Names, Shipped

\* A file that a working installer collects belongs to a release or to nothing
\* known; a name of the target is one of the targets.
LEMMA Kinds ==
  /\ \A i \in Installers : BundleOf[i] \in Bundles /\ TargetOf[i] \in Targets
  /\ Requirements \in Names /\ Packages \subseteq Names
  /\ Contents \ {"absent", "symlink", "special"} = Releases \cup {"other"}
  /\ Releases \cup {"other", "absent"} \subseteq Contents
  BY NamesAssumption, InstallersAssumption DEF Names, Contents

After == {"venv", "requirements", "wheels", "install", "version", "ok"}

\* The line an installer is at stays within SHA256SUMS.
Position(i) ==
  /\ pc[i] \in {"start", "symlinks", "inventory"} => pos[i] = 1
  /\ pc[i] = "checksums" => pos[i] \in 1..Len(Order)
  /\ pc[i] \in After => pos[i] = Len(Order) + 1

TypeInv == TypeOK /\ \A i \in Installers : Position(i)

LEMMA TypeStep == ASSUME TypeInv, [Next]_vars PROVE TypeInv'
<1> USE Lines, Kinds, BoundAssumption, InstallersAssumption
        DEF TypeInv, TypeOK, Position, After, At, Goto, mine, site, world, Working
<1>1. ASSUME NEW j \in Installers, Start(j) PROVE TypeInv'
  BY <1>1 DEF Start
<1>2. ASSUME NEW j \in Installers, LookForSymlinks(j) PROVE TypeInv'
  BY <1>2 DEF LookForSymlinks
<1>3. ASSUME NEW j \in Installers, Inventory(j) PROVE TypeInv'
  BY <1>3 DEF Inventory
<1>4. ASSUME NEW j \in Installers, Checksum(j) PROVE TypeInv'
  <2>1. pos[j] \in 1..Len(Order) /\ pc[j] = "checksums"
    BY <1>4 DEF Checksum
  <2>2. CASE File(j, Order[pos[j]]) = Release(j)
    <3>1. /\ pos' = [pos EXCEPT ![j] = pos[j] + 1]
          /\ pc' = [pc EXCEPT ![j] = IF pos[j] = Len(Order) THEN "venv" ELSE "checksums"]
          /\ UNCHANGED <<reqs, todo, site, world>>
      BY <1>4, <2>2 DEF Checksum
    <3>2. /\ pos[j] + 1 \in 1..(Len(Order) + 1)
          /\ pos[j] # Len(Order) => pos[j] + 1 \in 1..Len(Order)
      BY <2>1
    <3> QED
      BY <3>1, <3>2
  <2>3. CASE File(j, Order[pos[j]]) # Release(j)
    <3>1. pc' = [pc EXCEPT ![j] = "failed"] /\ UNCHANGED <<pos, reqs, todo, site, world>>
      BY <1>4, <2>3 DEF Checksum
    <3> QED
      BY <3>1
  <2> QED
    BY <2>2, <2>3
<1>5. ASSUME NEW j \in Installers, MakeEnvironment(j) PROVE TypeInv'
  BY <1>5 DEF MakeEnvironment
<1>6. ASSUME NEW j \in Installers, ReadRequirements(j) PROVE TypeInv'
  <2>1. reqs' \in [Installers -> Releases \cup {"other", "none"}]
    <3>1. CASE File(j, Requirements) \in Releases \cup {"other"}
      <4>1. reqs' = [reqs EXCEPT ![j] = File(j, Requirements)]
        BY <1>6, <3>1 DEF ReadRequirements
      <4> QED
        BY <3>1, <4>1
    <3>2. CASE File(j, Requirements) \notin Releases \cup {"other"}
      BY <1>6, <3>2 DEF ReadRequirements
    <3> QED
      BY <3>1, <3>2
  <2>2. pc' = [pc EXCEPT ![j] = "wheels"] \/ pc' = [pc EXCEPT ![j] = "failed"]
    BY <1>6 DEF ReadRequirements
  <2>3. UNCHANGED <<pos, todo, site, world>> /\ pc[j] = "requirements"
    BY <1>6 DEF ReadRequirements
  <2>4. TypeOK'
    BY <2>1, <2>2, <2>3
  <2>5. ASSUME NEW v \in Installers PROVE Position(v)'
    BY <2>2, <2>3
  <2> QED
    BY <2>4, <2>5
<1>7. ASSUME NEW j \in Installers, CollectWheels(j) PROVE TypeInv'
  <2>1. CASE \A p \in Packages : File(j, p) = reqs[j]
    <3>1. ASSUME NEW p \in Packages PROVE File(j, p) \in Releases \cup {"other"}
      <4>1. File(j, p) \in Contents /\ File(j, p) = reqs[j]
        BY <2>1, <3>1 DEF File
      <4>2. reqs[j] \in Releases \cup {"other", "none"}
        OBVIOUS
      <4>3. "none" \notin Contents
        BY DEF Contents
      <4> QED
        BY <4>1, <4>2, <4>3
    <3>2. Wheels(j) \in SUBSET (Packages \X (Releases \cup {"other"}))
      BY <3>1 DEF Wheels
    <3> HIDE DEF Wheels
    <3> QED
      <4>1. /\ todo' = [todo EXCEPT ![j] = Wheels(j)] /\ pc' = [pc EXCEPT ![j] = "install"]
            /\ UNCHANGED <<pos, reqs, site, world>> /\ pc[j] = "wheels"
        BY <1>7, <2>1 DEF CollectWheels
      <4>2. todo' \in [Installers -> SUBSET (Packages \X (Releases \cup {"other"}))]
        BY <3>2, <4>1
      <4> QED
        BY <4>1, <4>2
  <2>2. CASE ~\A p \in Packages : File(j, p) = reqs[j]
    BY <1>7, <2>2 DEF CollectWheels
  <2> QED
    BY <2>1, <2>2
<1>8. ASSUME NEW j \in Installers, InstallWheel(j) PROVE TypeInv'
  BY <1>8 DEF InstallWheel
<1>9. ASSUME NEW j \in Installers, ShowVersion(j) PROVE TypeInv'
  BY <1>9 DEF ShowVersion
<1>10. ASSUME NEW j \in Installers, Stop(j) PROVE TypeInv'
  BY <1>10 DEF Stop
<1>11. ASSUME NEW j \in Installers, Retry(j) PROVE TypeInv'
  BY <1>11 DEF Retry
<1>12. ASSUME NEW t \in Targets, RemoveTarget(t) PROVE TypeInv'
  BY <1>12 DEF RemoveTarget, Nothing
<1>13. ASSUME NEW b \in Bundles, Change(b) PROVE TypeInv'
  <2>1. PICK names \in {Shipped} \cup {{n} : n \in Names},
             c \in Releases \cup {"other", "absent"} :
          /\ bundle' = [bundle EXCEPT ![b] = [n \in Names |-> IF n \in names THEN c ELSE @[n]]]
          /\ late' = late \cup {v \in Installers : /\ BundleOf[v] = b
                                                   /\ Requirements \in names
                                                   /\ Checked(v, Requirements)}
    BY <1>13 DEF Change
  <2>3. bundle' \in [Bundles -> [Names -> Contents]]
    BY <2>1, Kinds
  <2> QED
    BY <1>13, <2>3 DEF Change
<1>14. CASE UNCHANGED vars
  BY <1>14 DEF vars
<1> QED
  BY <1>1, <1>2, <1>3, <1>4, <1>5, <1>6, <1>7, <1>8, <1>9,
     <1>10, <1>11, <1>12, <1>13, <1>14
     DEF Next, Run, AllInstalled

LEMMA TypeInvCorrect == Spec => []TypeInv
<1>1. ASSUME Init PROVE TypeInv
  <2>1. env \in [Targets -> [Packages -> Releases \cup {"other", "none"}]]
    BY <1>1 DEF Init, Nothing
  <2>2. pos \in [Installers -> 1..(Len(Order) + 1)] /\ \A i \in Installers : Position(i)
    BY <1>1, Lines DEF Init, Position, After
  <2>3. there \in [Targets -> {"absent", "foreign", "environment"}]
    <3>1. there \in [Targets -> InitTargets]
      BY <1>1 DEF Init
    <3>2. \A t \in InitTargets : t \in {"absent", "foreign", "environment"}
      BY InstallersAssumption
    <3> QED
      BY <3>1, <3>2
  <2>4. bundle \in [Bundles -> [Names -> Contents]]
    <3>1. UNION {Transferred(b) : b \in Bundles} \subseteq [Names -> Contents]
      BY DEF Transferred
    <3> QED
      BY <1>1, <3>1 DEF Init
  <2> QED
    BY <1>1, <2>1, <2>2, <2>3, <2>4, BoundAssumption DEF Init, TypeInv, TypeOK, Working
<1> QED
  BY <1>1, TypeStep, PTL DEF Spec

\* The variables always have their types.
THEOREM TypeCorrect == Spec => []TypeOK
<1>1. TypeInv => TypeOK
  BY DEF TypeInv
<1> QED
  BY <1>1, TypeInvCorrect, PTL

-----------------------------------------------------------------------------
(* What was checked.  While nothing changes, and for the requirements file *)
(* until it changes, the lines passed are those of files that still match. *)

Agrees(i) ==
  /\ changes = 0 /\ pc[i] \in After \cup {"checksums"} => Present(i) = Shipped
  /\ changes = 0 /\ pc[i] \in After \cup {"inventory", "checksums"} =>
       \A n \in Names : File(i, n) # "symlink"
  /\ \A k \in 1..Len(Order) :
       k < pos[i] /\ (changes = 0 \/ (Order[k] = Requirements /\ i \notin late)) =>
         File(i, Order[k]) = Release(i)

AgreeInv == \A i \in Installers : Agrees(i)

\* An installer keeps what it found while it goes on, or gives up.
LEMMA AgreeSame ==
  ASSUME NEW i \in Installers, Agrees(i), UNCHANGED <<pos[i], bundle, changes, late>>,
         \/ pc'[i] = pc[i]
         \/ pc'[i] \in {"start", "symlinks", "failed"}
         \/ pc[i] \in After /\ pc'[i] \in After
  PROVE  Agrees(i)'
  BY DEF Agrees, After, File, Release, Present

LEMMA AgreeStep == ASSUME TypeInv, AgreeInv, [Next]_vars PROVE AgreeInv'
<1> USE DEF TypeInv, TypeOK, At, Goto, mine, site, world
<1>1. ASSUME NEW j \in Installers, Start(j) PROVE AgreeInv'
  <2> SUFFICES ASSUME NEW i \in Installers PROVE Agrees(i)'
    BY DEF AgreeInv
  <2>1. Agrees(i) /\ UNCHANGED <<pos[i], bundle, changes, late>>
    BY <1>1 DEF AgreeInv, Start
  <2>2. \/ pc'[i] = pc[i]
        \/ pc'[i] \in {"start", "symlinks", "failed"}
        \/ pc[i] \in After /\ pc'[i] \in After
    BY <1>1 DEF Start, After
  <2> QED
    BY <2>1, <2>2, AgreeSame
<1>2. ASSUME NEW j \in Installers, LookForSymlinks(j) PROVE AgreeInv'
  <2> SUFFICES ASSUME NEW i \in Installers PROVE Agrees(i)'
    BY DEF AgreeInv
  <2>1. Agrees(i)
    BY DEF AgreeInv
  <2>2. CASE i # j
    <3>1. pc'[i] = pc[i] /\ UNCHANGED <<pos[i], bundle, changes, late>>
      BY <1>2, <2>2 DEF LookForSymlinks
    <3> QED
      BY <2>1, <3>1, AgreeSame
  <2>3. CASE i = j
    BY <1>2, <2>1, <2>3, Lines, Kinds DEF LookForSymlinks, Agrees, After, File, Release, Present, Position, TypeInv
  <2> QED
    BY <2>2, <2>3
<1>3. ASSUME NEW j \in Installers, Inventory(j) PROVE AgreeInv'
  <2> SUFFICES ASSUME NEW i \in Installers PROVE Agrees(i)'
    BY DEF AgreeInv
  <2>1. Agrees(i)
    BY DEF AgreeInv
  <2>2. CASE i # j
    <3>1. pc'[i] = pc[i] /\ UNCHANGED <<pos[i], bundle, changes, late>>
      BY <1>3, <2>2 DEF Inventory
    <3> QED
      BY <2>1, <3>1, AgreeSame
  <2>3. CASE i = j
    BY <1>3, <2>1, <2>3, Lines, Kinds DEF Inventory, Agrees, After, File, Release, Present, Position, TypeInv
  <2> QED
    BY <2>2, <2>3
<1>4. ASSUME NEW j \in Installers, Checksum(j) PROVE AgreeInv'
  <2> SUFFICES ASSUME NEW i \in Installers PROVE Agrees(i)'
    BY DEF AgreeInv
  <2>1. Agrees(i)
    BY DEF AgreeInv
  <2>2. CASE i # j
    <3>1. pc'[i] = pc[i] /\ UNCHANGED <<pos[i], bundle, changes, late>>
      BY <1>4, <2>2 DEF Checksum
    <3> QED
      BY <2>1, <3>1, AgreeSame
  <2>3. CASE i = j
    BY <1>4, <2>1, <2>3, Lines, Kinds DEF Checksum, Agrees, After, File, Release, Present, Position, TypeInv
  <2> QED
    BY <2>2, <2>3
<1>5. ASSUME NEW j \in Installers, MakeEnvironment(j) PROVE AgreeInv'
  <2> SUFFICES ASSUME NEW i \in Installers PROVE Agrees(i)'
    BY DEF AgreeInv
  <2>1. Agrees(i) /\ UNCHANGED <<pos[i], bundle, changes, late>>
    BY <1>5 DEF AgreeInv, MakeEnvironment
  <2>2. \/ pc'[i] = pc[i]
        \/ pc'[i] \in {"start", "symlinks", "failed"}
        \/ pc[i] \in After /\ pc'[i] \in After
    BY <1>5 DEF MakeEnvironment, After
  <2> QED
    BY <2>1, <2>2, AgreeSame
<1>6. ASSUME NEW j \in Installers, ReadRequirements(j) PROVE AgreeInv'
  <2> SUFFICES ASSUME NEW i \in Installers PROVE Agrees(i)'
    BY DEF AgreeInv
  <2>1. Agrees(i) /\ UNCHANGED <<pos[i], bundle, changes, late>>
    BY <1>6 DEF AgreeInv, ReadRequirements
  <2>2. \/ pc'[i] = pc[i]
        \/ pc'[i] \in {"start", "symlinks", "failed"}
        \/ pc[i] \in After /\ pc'[i] \in After
    BY <1>6 DEF ReadRequirements, After
  <2> QED
    BY <2>1, <2>2, AgreeSame
<1>7. ASSUME NEW j \in Installers, CollectWheels(j) PROVE AgreeInv'
  <2> SUFFICES ASSUME NEW i \in Installers PROVE Agrees(i)'
    BY DEF AgreeInv
  <2>1. Agrees(i) /\ UNCHANGED <<pos[i], bundle, changes, late>>
    BY <1>7 DEF AgreeInv, CollectWheels
  <2>2. \/ pc'[i] = pc[i]
        \/ pc'[i] \in {"start", "symlinks", "failed"}
        \/ pc[i] \in After /\ pc'[i] \in After
    BY <1>7 DEF CollectWheels, After
  <2> QED
    BY <2>1, <2>2, AgreeSame
<1>8. ASSUME NEW j \in Installers, InstallWheel(j) PROVE AgreeInv'
  <2> SUFFICES ASSUME NEW i \in Installers PROVE Agrees(i)'
    BY DEF AgreeInv
  <2>1. Agrees(i) /\ UNCHANGED <<pos[i], bundle, changes, late>>
    BY <1>8 DEF AgreeInv, InstallWheel
  <2>2. \/ pc'[i] = pc[i]
        \/ pc'[i] \in {"start", "symlinks", "failed"}
        \/ pc[i] \in After /\ pc'[i] \in After
    BY <1>8 DEF InstallWheel, After
  <2> QED
    BY <2>1, <2>2, AgreeSame
<1>9. ASSUME NEW j \in Installers, ShowVersion(j) PROVE AgreeInv'
  <2> SUFFICES ASSUME NEW i \in Installers PROVE Agrees(i)'
    BY DEF AgreeInv
  <2>1. Agrees(i) /\ UNCHANGED <<pos[i], bundle, changes, late>>
    BY <1>9 DEF AgreeInv, ShowVersion
  <2>2. \/ pc'[i] = pc[i]
        \/ pc'[i] \in {"start", "symlinks", "failed"}
        \/ pc[i] \in After /\ pc'[i] \in After
    BY <1>9 DEF ShowVersion, After
  <2> QED
    BY <2>1, <2>2, AgreeSame
<1>10. ASSUME NEW j \in Installers, Stop(j) PROVE AgreeInv'
  <2> SUFFICES ASSUME NEW i \in Installers PROVE Agrees(i)'
    BY DEF AgreeInv
  <2>1. Agrees(i) /\ UNCHANGED <<pos[i], bundle, changes, late>>
    BY <1>10 DEF AgreeInv, Stop
  <2>2. \/ pc'[i] = pc[i]
        \/ pc'[i] \in {"start", "symlinks", "failed"}
        \/ pc[i] \in After /\ pc'[i] \in After
    BY <1>10 DEF Stop, After
  <2> QED
    BY <2>1, <2>2, AgreeSame
<1>11. ASSUME NEW j \in Installers, Retry(j) PROVE AgreeInv'
  <2> SUFFICES ASSUME NEW i \in Installers PROVE Agrees(i)'
    BY DEF AgreeInv
  <2>1. Agrees(i) /\ UNCHANGED <<bundle, changes>>
    BY <1>11 DEF AgreeInv, Retry
  <2>2. CASE i # j
    <3>1. pc'[i] = pc[i] /\ pos'[i] = pos[i] /\ (i \in late' <=> i \in late)
      BY <1>11, <2>2 DEF Retry
    <3> QED
      BY <2>1, <3>1 DEF Agrees, After, File, Release, Present
  <2>3. CASE i = j
    <3>1. pc'[i] = "start" /\ pos'[i] = 1
      BY <1>11, <2>3 DEF Retry
    <3> QED
      BY <2>1, <3>1, Lines DEF Agrees, After
  <2> QED
    BY <2>2, <2>3
<1>12. ASSUME NEW t \in Targets, RemoveTarget(t) PROVE AgreeInv'
  <2> SUFFICES ASSUME NEW i \in Installers PROVE Agrees(i)'
    BY DEF AgreeInv
  <2>1. Agrees(i) /\ UNCHANGED <<pos[i], bundle, changes, late>>
    BY <1>12 DEF AgreeInv, RemoveTarget
  <2>2. \/ pc'[i] = pc[i]
        \/ pc'[i] \in {"start", "symlinks", "failed"}
        \/ pc[i] \in After /\ pc'[i] \in After
    BY <1>12 DEF RemoveTarget, After
  <2> QED
    BY <2>1, <2>2, AgreeSame
<1>13. ASSUME NEW b \in Bundles, Change(b) PROVE AgreeInv'
  <2> SUFFICES ASSUME NEW i \in Installers PROVE Agrees(i)'
    BY DEF AgreeInv
  <2>1. Agrees(i) /\ UNCHANGED <<pc, pos>> /\ changes' # 0
    BY <1>13, BoundAssumption DEF AgreeInv, Change
  <2>2. ASSUME NEW k \in 1..Len(Order), k < pos'[i], Order[k] = Requirements, i \notin late'
        PROVE  bundle'[BundleOf[i]][Order[k]] = Listed[BundleOf[i]]
    <3>1. PICK names \in {Shipped} \cup {{n} : n \in Names},
               c \in Releases \cup {"other", "absent"} :
            /\ bundle' = [bundle EXCEPT ![b] = [n \in Names |-> IF n \in names THEN c ELSE @[n]]]
            /\ late' = late \cup {v \in Installers : /\ BundleOf[v] = b
                                                     /\ Requirements \in names
                                                     /\ Checked(v, Requirements)}
      BY <1>13 DEF Change
    <3>2. Checked(i, Requirements)
      BY <2>1, <2>2, Lines DEF Checked
    <3>3. i \notin late /\ ~(BundleOf[i] = b /\ Requirements \in names)
      BY <2>2, <3>1, <3>2
    <3>4. bundle'[BundleOf[i]][Requirements] = bundle[BundleOf[i]][Requirements]
      BY <3>1, <3>3, Kinds
    <3>5. bundle[BundleOf[i]][Order[k]] = Listed[BundleOf[i]]
      BY <2>1, <2>2, <3>3 DEF Agrees, File, Release
    <3> QED
      BY <2>2, <3>4, <3>5
  <2> QED
    BY <2>1, <2>2 DEF Agrees, File, Release
<1>14. CASE UNCHANGED vars
  <2> SUFFICES ASSUME NEW i \in Installers PROVE Agrees(i)'
    BY DEF AgreeInv
  <2>1. Agrees(i) /\ UNCHANGED <<pos[i], bundle, changes, late>>
    BY <1>14 DEF AgreeInv, vars
  <2>2. \/ pc'[i] = pc[i]
        \/ pc'[i] \in {"start", "symlinks", "failed"}
        \/ pc[i] \in After /\ pc'[i] \in After
    BY <1>14 DEF vars, After
  <2> QED
    BY <2>1, <2>2, AgreeSame
<1> QED
  BY <1>1, <1>2, <1>3, <1>4, <1>5, <1>6, <1>7, <1>8, <1>9,
     <1>10, <1>11, <1>12, <1>13, <1>14
     DEF Next, Run, AllInstalled

LEMMA AgreeCorrect == Spec => []AgreeInv
<1>1. Init => AgreeInv
  BY Lines DEF Init, AgreeInv, Agrees, After
<1> QED
  BY <1>1, AgreeStep, TypeInvCorrect, PTL DEF Spec

\* What is installed comes from a bundle in which every published file is as
\* published, and nothing was added that the inventory can see, unless the bundle
\* was changed.
THEOREM InstalledFromPublishedCorrect == Spec => []InstalledFromPublished
<1>1. ASSUME TypeInv, AgreeInv PROVE InstalledFromPublished
  <2> SUFFICES ASSUME NEW i \in Installers, At(i, "ok"), changes = 0,
                      NEW n \in Wrong(BundleOf[i])
               PROVE  n \in Unseen(BundleOf[i])
    BY DEF InstalledFromPublished
  <2>1. Agrees(i) /\ Present(i) = Shipped /\ pos[i] = Len(Order) + 1
    BY <1>1 DEF AgreeInv, Agrees, At, After, TypeInv, Position
  <2>2. n \in Names /\ File(i, n) # IF n \in Shipped THEN Release(i) ELSE "absent"
    BY DEF Wrong, Differ, Published, File, Release
  <2>3. CASE n \in Shipped
    <3>1. PICK k \in 1..Len(Order) : n = Order[k]
      BY <2>3, Lines DEF Shipped
    <3>2. k < pos[i]
      BY <2>1, <3>1, Lines
    <3> QED
      BY <2>1, <2>2, <2>3, <3>1, <3>2 DEF Agrees
  <2>4. CASE n \notin Shipped
    <3>1. n \in Overlooked \/ File(i, n) \in {"absent", "symlink", "special"}
      BY <2>1, <2>2, <2>4 DEF Present
    <3>2. File(i, n) # "symlink"
      BY <2>1, <2>2 DEF Agrees, After, At
    <3> QED
      BY <2>2, <2>4, <3>1, <3>2 DEF Names, Unseen, File
  <2> QED
    BY <2>3, <2>4
<1> QED
  BY <1>1, AgreeCorrect, TypeInvCorrect, PTL

-----------------------------------------------------------------------------
(* What is installed.  The only installer of an environment fills it with  *)
(* the wheels that its requirements list.                                  *)

Inside == {"requirements", "wheels", "install", "version", "ok"}

Fills(i) ==
  /\ pc[i] \in Inside => i \in made[TargetOf[i]]
  /\ pc[i] = "install" => \A wheel \in todo[i] : wheel[2] = reqs[i]
  /\ made[TargetOf[i]] = {i} /\ pc[i] \in {"install", "version", "ok"} =>
       \A p \in Packages : \/ Env(i)[p] = reqs[i]
                           \/ pc[i] = "install" /\ \E wheel \in todo[i] : wheel[1] = p
  /\ pc[i] \in {"wheels", "install", "version", "ok"} /\ i \notin late => reqs[i] = Release(i)

FillInv == \A i \in Installers : Fills(i)

\* A step that leaves an installer's work and its own environment alone keeps
\* what it found.
LEMMA FillSame ==
  ASSUME NEW i \in Installers, Fills(i),
         pc'[i] = pc[i] \/ pc'[i] \notin Inside,
         UNCHANGED <<todo[i], reqs[i]>>, i \notin late' => i \notin late,
         made[TargetOf[i]] \subseteq made'[TargetOf[i]] \/ pc'[i] \notin Inside,
         made'[TargetOf[i]] = {i} /\ pc'[i] \in Inside =>
           made[TargetOf[i]] = {i} /\ UNCHANGED env[TargetOf[i]]
  PROVE  Fills(i)'
<1>1. CASE pc'[i] \notin Inside
  BY <1>1 DEF Fills, Inside
<1>2. CASE pc'[i] = pc[i] /\ pc'[i] \in Inside
  BY <1>2 DEF Fills, Inside, Env, Release
<1> QED
  BY <1>1, <1>2

LEMMA FillStep == ASSUME TypeInv, AgreeInv, FillInv, [Next]_vars PROVE FillInv'
<1> SUFFICES ASSUME NEW i \in Installers PROVE Fills(i)'
  BY DEF FillInv
<1> DEFINE T == TargetOf[i]
<1> USE Kinds DEF At, Goto, mine, site, world
<1>a. Fills(i) /\ T \in Targets
  BY DEF FillInv
<1>b. /\ pc \in [Installers -> Working \cup {"start", "ok", "failed"}]
      /\ reqs \in [Installers -> Releases \cup {"other", "none"}]
      /\ todo \in [Installers -> SUBSET (Packages \X (Releases \cup {"other"}))]
      /\ env \in [Targets -> [Packages -> Releases \cup {"other", "none"}]]
      /\ made \in [Targets -> SUBSET Installers]
  BY DEF TypeInv, TypeOK
<1>1. ASSUME NEW j \in Installers, Start(j) PROVE Fills(i)'
  <2>1. (pc'[i] = pc[i] \/ pc'[i] \notin Inside) /\ UNCHANGED <<todo, reqs, late, made, env>>
    BY <1>b, <1>1 DEF Start, Inside
  <2> QED
    BY <1>a, <2>1, FillSame
<1>2. ASSUME NEW j \in Installers, LookForSymlinks(j) PROVE Fills(i)'
  <2>1. (pc'[i] = pc[i] \/ pc'[i] \notin Inside) /\ UNCHANGED <<todo, reqs, late, made, env>>
    BY <1>b, <1>2 DEF LookForSymlinks, Inside
  <2> QED
    BY <1>a, <2>1, FillSame
<1>3. ASSUME NEW j \in Installers, Inventory(j) PROVE Fills(i)'
  <2>1. (pc'[i] = pc[i] \/ pc'[i] \notin Inside) /\ UNCHANGED <<todo, reqs, late, made, env>>
    BY <1>b, <1>3 DEF Inventory, Inside
  <2> QED
    BY <1>a, <2>1, FillSame
<1>4. ASSUME NEW j \in Installers, Checksum(j) PROVE Fills(i)'
  <2>1. (pc'[i] = pc[i] \/ pc'[i] \notin Inside) /\ UNCHANGED <<todo, reqs, late, made, env>>
    BY <1>b, <1>4 DEF Checksum, Inside
  <2> QED
    BY <1>a, <2>1, FillSame
<1>5. ASSUME NEW j \in Installers, MakeEnvironment(j) PROVE Fills(i)'
  <2>1. UNCHANGED <<todo, reqs, late, env>>
    BY <1>5 DEF MakeEnvironment
  <2>2. made'[T] = made[T] \/ (TargetOf[j] = T /\ made'[T] = made[T] \cup {j})
    BY <1>a, <1>b, <1>5 DEF MakeEnvironment
  <2>3. CASE i = j
    <3>1. pc'[i] = "requirements" /\ i \in made'[T]
      BY <1>a, <1>b, <1>5, <2>3 DEF MakeEnvironment
    <3> QED
      BY <3>1 DEF Fills
  <2>4. CASE i # j
    <3>1. pc'[i] = pc[i]
      BY <1>b, <1>5, <2>4 DEF MakeEnvironment
    <3>2. made'[T] = {i} => made[T] = {i}
      BY <2>2, <2>4
    <3> QED
      BY <1>a, <2>1, <2>2, <3>1, <3>2, FillSame
  <2> QED
    BY <2>3, <2>4
<1>6. ASSUME NEW j \in Installers, ReadRequirements(j) PROVE Fills(i)'
  <2>1. UNCHANGED <<todo, late, made, env>>
    BY <1>6 DEF ReadRequirements
  <2>2. CASE i # j
    <3>1. pc'[i] = pc[i] /\ reqs'[i] = reqs[i]
      BY <1>b, <1>6, <2>2 DEF ReadRequirements
    <3> QED
      BY <1>a, <2>1, <3>1, FillSame
  <2>3. CASE i = j /\ pc'[i] = "failed" /\ UNCHANGED reqs
    BY <1>a, <2>1, <2>3, FillSame DEF Inside
  <2>4. CASE i = j /\ pc'[i] = "wheels" /\ reqs'[i] = File(i, Requirements)
    <3>1. pc[i] = "requirements" /\ i \in made[T]
      BY <1>a, <1>6, <2>4 DEF ReadRequirements, Fills, Inside
    <3>2. pos[i] = Len(Order) + 1
      BY <3>1 DEF TypeInv, Position, After
    <3>3. PICK k \in 1..Len(Order) : Order[k] = Requirements
      BY NamesAssumption, Lines DEF Shipped
    <3>4. k < pos[i]
      BY <3>2, <3>3, Lines
    <3>5. i \notin late => File(i, Requirements) = Release(i)
      BY <3>3, <3>4 DEF AgreeInv, Agrees
    <3> QED
      BY <2>1, <2>4, <3>1, <3>5 DEF Fills, Release
  <2>5. i = j => \/ pc'[i] = "failed" /\ UNCHANGED reqs
                 \/ pc'[i] = "wheels" /\ reqs'[i] = File(i, Requirements)
    BY <1>b, <1>6 DEF ReadRequirements
  <2> QED
    BY <2>2, <2>3, <2>4, <2>5
<1>7. ASSUME NEW j \in Installers, CollectWheels(j) PROVE Fills(i)'
  <2>1. UNCHANGED <<reqs, late, made, env>>
    BY <1>7 DEF CollectWheels
  <2>2. CASE i # j
    <3>1. pc'[i] = pc[i] /\ todo'[i] = todo[i]
      BY <1>b, <1>7, <2>2 DEF CollectWheels
    <3> QED
      BY <1>a, <2>1, <3>1, FillSame
  <2>3. CASE i = j /\ pc'[i] = "failed" /\ UNCHANGED todo
    BY <1>a, <2>1, <2>3, FillSame DEF Inside
  <2>4. CASE /\ i = j /\ pc'[i] = "install" /\ todo'[i] = Wheels(i)
             /\ \A p \in Packages : File(i, p) = reqs[i]
    <3>1. /\ \A wheel \in todo'[i] : wheel[2] = reqs[i]
          /\ \A p \in Packages : \E wheel \in todo'[i] : wheel[1] = p
      <4>1. \A wheel \in Wheels(i) : \E p \in Packages : wheel = <<p, reqs[i]>>
        BY <2>4 DEF Wheels
      <4>2. \A p \in Packages : <<p, reqs[i]>> \in Wheels(i)
        BY <2>4 DEF Wheels
      <4>3. \A wheel \in todo'[i] : wheel[2] = reqs[i]
        BY <2>4, <4>1
      <4>4. ASSUME NEW p \in Packages PROVE \E wheel \in todo'[i] : wheel[1] = p
        <5>1. <<p, reqs[i]>> \in todo'[i] /\ <<p, reqs[i]>>[1] = p
          BY <2>4, <4>2
        <5> QED
          BY <5>1
      <4> QED
        BY <4>3, <4>4
    <3>2. i \in made[T] /\ (i \notin late => reqs[i] = Release(i))
      BY <1>a, <1>7, <2>4 DEF CollectWheels, Fills, Inside
    <3> QED
      BY <2>1, <2>4, <3>1, <3>2 DEF Fills, Release
  <2>5. i = j => \/ pc'[i] = "failed" /\ UNCHANGED todo
                 \/ /\ pc'[i] = "install" /\ todo'[i] = Wheels(i)
                    /\ \A p \in Packages : File(i, p) = reqs[i]
    BY <1>b, <1>7 DEF CollectWheels
  <2> QED
    BY <2>2, <2>3, <2>4, <2>5
<1>8. ASSUME NEW j \in Installers, InstallWheel(j) PROVE Fills(i)'
  <2>1. UNCHANGED <<reqs, late, made>> /\ pc[j] = "install"
    BY <1>8 DEF InstallWheel
  <2>2. PICK wheel \in todo[j] :
          /\ env' = [env EXCEPT ![TargetOf[j]][wheel[1]] = wheel[2]]
          /\ todo' = [todo EXCEPT ![j] = @ \ {wheel}]
          /\ Goto(j, IF todo[j] = {wheel} THEN "version" ELSE "install")
    BY <1>8 DEF InstallWheel
  <2>3. CASE i # j
    <3>1. pc'[i] = pc[i] /\ todo'[i] = todo[i]
      BY <1>b, <2>2, <2>3
    <3>2. j \in made[TargetOf[j]]
      BY <2>1 DEF FillInv, Fills, Inside
    <3>3. made[T] = {i} => env'[T] = env[T]
      BY <1>a, <1>b, <2>2, <2>3, <3>2
    <3> QED
      BY <1>a, <2>1, <3>1, <3>3, FillSame
  <2>4. CASE i = j
    <3>1. wheel[1] \in Packages /\ wheel[2] = reqs[i]
      BY <1>a, <1>b, <2>1, <2>2, <2>4 DEF Fills
    <3>2. env'[T] = [env[T] EXCEPT ![wheel[1]] = wheel[2]] /\ env[T] \in [Packages -> Releases \cup {"other", "none"}]
      BY <1>a, <1>b, <2>2, <2>4
    <3>3. todo'[i] = todo[i] \ {wheel}
      BY <1>b, <2>2, <2>4
    <3>4. \/ pc'[i] = "version" /\ todo[i] = {wheel}
          \/ pc'[i] = "install"
      BY <1>b, <2>2, <2>4
    <3>5. ASSUME NEW p \in Packages, made[T] = {i}
          PROVE  \/ env'[T][p] = reqs[i]
                 \/ pc'[i] = "install" /\ \E w \in todo'[i] : w[1] = p
      <4>1. CASE wheel[1] = p
        BY <3>1, <3>2, <4>1
      <4>2. CASE wheel[1] # p
        <5>1. env'[T][p] = env[T][p]
          BY <3>2, <4>2
        <5>2. env[T][p] = reqs[i] \/ \E w \in todo[i] : w[1] = p
          BY <1>a, <2>1, <2>4, <3>5 DEF Fills, Env
        <5> QED
          BY <3>3, <3>4, <4>2, <5>1, <5>2
      <4> QED
        BY <4>1, <4>2
    <3>6. \A w \in todo'[i] : w[2] = reqs[i]
      BY <1>a, <2>1, <2>4, <3>3 DEF Fills
    <3>7. i \in made[T] /\ (i \notin late => reqs[i] = Release(i))
      BY <1>a, <2>1, <2>4 DEF Fills, Inside
    <3> QED
      BY <2>1, <3>4, <3>5, <3>6, <3>7 DEF Fills, Env, Release
  <2> QED
    BY <2>3, <2>4
<1>9. ASSUME NEW j \in Installers, ShowVersion(j) PROVE Fills(i)'
  <2>1. UNCHANGED <<todo, reqs, late, made, env>> /\ pc[j] = "version"
    BY <1>9 DEF ShowVersion
  <2>2. pc'[i] = pc[i] \/ pc'[i] = "failed" \/ (pc[i] = "version" /\ pc'[i] = "ok")
    BY <1>b, <1>9 DEF ShowVersion
  <2>3. CASE pc'[i] = pc[i] \/ pc'[i] = "failed"
    BY <1>a, <2>1, <2>3, FillSame DEF Inside
  <2>4. CASE pc[i] = "version" /\ pc'[i] = "ok"
    BY <1>a, <2>1, <2>4 DEF Fills, Inside, Env, Release
  <2> QED
    BY <2>2, <2>3, <2>4
<1>10. ASSUME NEW j \in Installers, Stop(j) PROVE Fills(i)'
  <2>1. (pc'[i] = pc[i] \/ pc'[i] \notin Inside) /\ UNCHANGED <<todo, reqs, late, made, env>>
    BY <1>b, <1>10 DEF Stop, Inside
  <2> QED
    BY <1>a, <2>1, FillSame
<1>11. ASSUME NEW j \in Installers, Retry(j) PROVE Fills(i)'
  <2>1. UNCHANGED <<made, env>>
    BY <1>11 DEF Retry
  <2>2. CASE i = j
    <3>1. pc'[i] = "start"
      BY <1>b, <1>11, <2>2 DEF Retry
    <3> QED
      BY <3>1 DEF Fills, Inside
  <2>3. CASE i # j
    <3>1. UNCHANGED <<pc[i], todo[i], reqs[i]>> /\ (i \notin late' => i \notin late)
      BY <1>b, <1>11, <2>3 DEF Retry
    <3> QED
      BY <1>a, <2>1, <3>1, FillSame
  <2> QED
    BY <2>2, <2>3
<1>12. ASSUME NEW t \in Targets, RemoveTarget(t) PROVE Fills(i)'
  <2>1. UNCHANGED <<pc, todo, reqs, late>>
    BY <1>12 DEF RemoveTarget
  <2>2. CASE T = t
    <3>1. pc'[i] \notin Inside
      BY <1>12, <2>1, <2>2 DEF RemoveTarget, Inside, Working
    <3> QED
      BY <1>a, <2>1, <3>1, FillSame
  <2>3. CASE T # t
    <3>1. UNCHANGED <<made[T], env[T]>>
      BY <1>a, <1>b, <1>12, <2>3 DEF RemoveTarget
    <3> QED
      BY <1>a, <2>1, <3>1, FillSame
  <2> QED
    BY <2>2, <2>3
<1>13. ASSUME NEW b \in Bundles, Change(b) PROVE Fills(i)'
  <2>1. UNCHANGED <<pc, todo, reqs, made, env>> /\ late \subseteq late'
    BY <1>13 DEF Change
  <2> QED
    BY <1>a, <2>1, FillSame
<1>14. CASE UNCHANGED vars
  BY <1>14, <1>a, FillSame DEF vars
<1> QED
  BY <1>1, <1>2, <1>3, <1>4, <1>5, <1>6, <1>7, <1>8, <1>9,
     <1>10, <1>11, <1>12, <1>13, <1>14
     DEF Next, Run, AllInstalled

\* What was reported as installed is what one requirements file lists, that of
\* the bundle's checksums unless the file changed after its check.
THEOREM NeverMixedCorrect == Spec => []NeverMixed
<1>1. Init => FillInv
  BY DEF Init, FillInv, Fills, Inside
<1>2. FillInv => NeverMixed
  BY DEF FillInv, Fills, NeverMixed, At
<1> QED
  BY <1>1, <1>2, FillStep, AgreeCorrect, TypeInvCorrect, PTL DEF Spec

-----------------------------------------------------------------------------
(* Failing.  A bundle that is as published passes every check, and what pip *)
(* has collected is installed in the end, whoever else installs there.      *)

Serves(i) ==
  /\ changes = 0 /\ Wrong(BundleOf[i]) = {} /\ pc[i] = "wheels" => reqs[i] = Release(i)
  /\ pc[i] = "install" => \A p \in Packages : \/ Env(i)[p] # "none"
                                              \/ \E wheel \in todo[i] : wheel[1] = p
  /\ pc[i] = "version" => \A p \in Packages : Env(i)[p] # "none"

ServeInv == \A i \in Installers : Serves(i)

\* The files of a published bundle.
LEMMA PublishedFiles ==
  ASSUME NEW i \in Installers, Wrong(BundleOf[i]) = {}
  PROVE  /\ \A n \in Shipped : File(i, n) = Release(i) /\ File(i, n) \in Releases
         /\ \A n \in Names : File(i, n) # "symlink"
         /\ Present(i) = Shipped
<1>1. /\ \A n \in Names : File(i, n) = IF n \in Shipped THEN Release(i) ELSE "absent"
      /\ Shipped \subseteq Names
  BY DEF Wrong, Differ, Published, File, Release, Names
<1>2. Release(i) \in Releases /\ Release(i) \notin {"absent", "symlink", "special"}
  BY InstallersAssumption DEF Release
<1>3. \A n \in Shipped : File(i, n) = Release(i)
  BY <1>1
<1>4. \A n \in Names : File(i, n) # "symlink"
  BY <1>1, <1>2
<1>5. ASSUME NEW n \in Names PROVE n \in Present(i) <=> n \in Shipped
  BY <1>1, <1>2, <1>5, NamesAssumption DEF Present
<1>6. Present(i) = Shipped
  BY <1>1, <1>5 DEF Present
<1> QED
  BY <1>2, <1>3, <1>4, <1>6

\* An installer that is at the same step, with as many packages as before.
LEMMA ServeSame ==
  ASSUME NEW i \in Installers, Serves(i),
         pc'[i] = pc[i] \/ pc'[i] \notin {"wheels", "install", "version"},
         UNCHANGED <<todo[i], reqs[i]>>, changes' = 0 => UNCHANGED <<bundle, changes>>,
         \A p \in Packages : pc'[i] \in {"install", "version"} /\ Env(i)[p] # "none" =>
                               Env(i)'[p] # "none"
  PROVE  Serves(i)'
<1>1. Wrong(BundleOf[i])' = Wrong(BundleOf[i]) \/ changes' # 0
  BY DEF Wrong
<1>2. Release(i)' = Release(i)
  BY DEF Release
<1> QED
  BY <1>1, <1>2 DEF Serves

LEMMA ServeStep == ASSUME TypeInv, ServeInv, [Next]_vars PROVE ServeInv'
<1> SUFFICES ASSUME NEW i \in Installers PROVE Serves(i)'
  BY DEF ServeInv
<1> DEFINE T == TargetOf[i]
           Deep == {"wheels", "install", "version"}
<1> USE Kinds DEF At, Goto, mine, site, world
<1>a. Serves(i) /\ T \in Targets
  BY DEF ServeInv
<1>b. /\ pc \in [Installers -> Working \cup {"start", "ok", "failed"}]
      /\ reqs \in [Installers -> Releases \cup {"other", "none"}]
      /\ todo \in [Installers -> SUBSET (Packages \X (Releases \cup {"other"}))]
      /\ env \in [Targets -> [Packages -> Releases \cup {"other", "none"}]]
      /\ changes \in Nat
  BY DEF TypeInv, TypeOK
<1>1. ASSUME NEW j \in Installers,
             \/ Start(j) \/ LookForSymlinks(j) \/ Inventory(j) \/ Checksum(j)
             \/ MakeEnvironment(j) \/ ShowVersion(j) \/ Stop(j)
      PROVE  Serves(i)'
  <2>1. UNCHANGED <<todo, reqs, env, bundle, changes>>
    BY <1>1 DEF Start, LookForSymlinks, Inventory, Checksum, MakeEnvironment, ShowVersion, Stop
  <2>2. pc'[i] = pc[i] \/ pc'[i] \notin Deep
    BY <1>b, <1>1 DEF Start, LookForSymlinks, Inventory, Checksum, MakeEnvironment, ShowVersion,
                      Stop
  <2> QED
    BY <1>a, <2>1, <2>2, ServeSame DEF Env
<1>2. ASSUME NEW j \in Installers, ReadRequirements(j) PROVE Serves(i)'
  <2>1. UNCHANGED <<todo, env, bundle, changes>>
    BY <1>2 DEF ReadRequirements
  <2>2. CASE j # i
    <3>1. pc'[i] = pc[i] /\ reqs'[i] = reqs[i]
      BY <1>b, <1>2, <2>2 DEF ReadRequirements
    <3> QED
      BY <1>a, <2>1, <3>1, ServeSame DEF Env
  <2>3. CASE j = i
    <3>1. pc'[i] \in {"wheels", "failed"}
      BY <1>b, <1>2, <2>3 DEF ReadRequirements
    <3>2. pc'[i] = "wheels" => reqs'[i] = File(i, Requirements)
      BY <1>b, <1>2, <2>3 DEF ReadRequirements
    <3>3. Wrong(BundleOf[i]) = {} => File(i, Requirements) = Release(i)
      BY PublishedFiles, NamesAssumption
    <3>4. Wrong(BundleOf[i])' = Wrong(BundleOf[i]) /\ Release(i)' = Release(i)
      BY <2>1 DEF Wrong, Release
    <3> QED
      BY <3>1, <3>2, <3>3, <3>4 DEF Serves
  <2> QED
    BY <2>2, <2>3
<1>3. ASSUME NEW j \in Installers, CollectWheels(j) PROVE Serves(i)'
  <2>1. UNCHANGED <<reqs, env, bundle, changes>>
    BY <1>3 DEF CollectWheels
  <2>2. CASE j # i
    <3>1. pc'[i] = pc[i] /\ todo'[i] = todo[i]
      BY <1>b, <1>3, <2>2 DEF CollectWheels
    <3> QED
      BY <1>a, <2>1, <3>1, ServeSame DEF Env
  <2>3. CASE j = i
    <3>1. pc'[i] \in {"install", "failed"}
      BY <1>b, <1>3, <2>3 DEF CollectWheels
    <3>2. pc'[i] = "install" => todo'[i] = Wheels(i)
      BY <1>b, <1>3, <2>3 DEF CollectWheels
    <3>3. \A p \in Packages : \E wheel \in Wheels(i) : wheel[1] = p
      <4>1. ASSUME NEW p \in Packages PROVE \E wheel \in Wheels(i) : wheel[1] = p
        <5>1. <<p, File(i, p)>> \in Wheels(i) /\ <<p, File(i, p)>>[1] = p
          BY DEF Wheels
        <5> QED
          BY <5>1
      <4> QED
        BY <4>1
    <3> QED
      BY <3>1, <3>2, <3>3 DEF Serves
  <2> QED
    BY <2>2, <2>3
<1>4. ASSUME NEW j \in Installers, InstallWheel(j) PROVE Serves(i)'
  <2>1. PICK wheel \in todo[j] :
          /\ env' = [env EXCEPT ![TargetOf[j]][wheel[1]] = wheel[2]]
          /\ todo' = [todo EXCEPT ![j] = todo[j] \ {wheel}]
          /\ pc' = [pc EXCEPT ![j] = IF todo[j] = {wheel} THEN "version" ELSE "install"]
    BY <1>4 DEF InstallWheel
  <2>2. pc[j] = "install" /\ UNCHANGED <<reqs, bundle, changes>>
    BY <1>4 DEF InstallWheel
  <2>3. wheel[1] \in Packages /\ wheel[2] # "none" /\ TargetOf[j] \in Targets
    <3>1. wheel \in Packages \X (Releases \cup {"other"})
      BY <1>b, <2>1
    <3>2. "none" \notin Releases \cup {"other"}
      BY InstallersAssumption
    <3> QED
      BY <1>b, <3>1, <3>2
  <2>4. /\ \A p \in Packages : env[T][p] # "none" => env'[T][p] # "none"
        /\ TargetOf[j] = T => env'[T][wheel[1]] # "none"
    BY <1>a, <1>b, <2>1, <2>3
  <2>5. CASE j # i
    <3>1. pc'[i] = pc[i] /\ todo'[i] = todo[i]
      BY <1>b, <2>1, <2>5
    <3> QED
      BY <1>a, <2>2, <2>4, <3>1, ServeSame DEF Env
  <2>6. CASE j = i
    <3>1. /\ todo'[i] = todo[i] \ {wheel}
          /\ pc'[i] = IF todo[i] = {wheel} THEN "version" ELSE "install"
      BY <1>b, <2>1, <2>6
    <3>2. \A p \in Packages : \/ env[T][p] # "none"
                              \/ \E w \in todo[i] : w[1] = p
      BY <1>a, <2>2, <2>6 DEF Serves, Env
    <3>3. \A p \in Packages : \/ env'[T][p] # "none"
                              \/ \E w \in todo[i] \ {wheel} : w[1] = p
      BY <2>4, <2>6, <3>2
    <3> QED
      BY <3>1, <3>3 DEF Serves, Env
  <2> QED
    BY <2>5, <2>6
<1>5. ASSUME NEW j \in Installers, Retry(j) PROVE Serves(i)'
  <2>1. UNCHANGED <<env, bundle, changes>>
    BY <1>5 DEF Retry
  <2>2. (pc'[i] = pc[i] /\ UNCHANGED <<todo[i], reqs[i]>>) \/ pc'[i] = "start"
    BY <1>b, <1>5 DEF Retry
  <2>3. CASE pc'[i] = "start"
    BY <2>3 DEF Serves
  <2> QED
    BY <1>a, <2>1, <2>2, <2>3, ServeSame DEF Env
<1>6. ASSUME NEW t \in Targets, RemoveTarget(t) PROVE Serves(i)'
  <2>1. UNCHANGED <<pc, todo, reqs, bundle, changes>>
    BY <1>6 DEF RemoveTarget
  <2>2. pc[i] \in {"install", "version"} => env'[T] = env[T]
    BY <1>a, <1>b, <1>6 DEF RemoveTarget, Working
  <2> QED
    BY <1>a, <2>1, <2>2, ServeSame DEF Env
<1>7. ASSUME NEW b \in Bundles, Change(b) PROVE Serves(i)'
  <2>1. UNCHANGED <<pc, todo, reqs, env>> /\ changes' # 0
    BY <1>b, <1>7 DEF Change
  <2> QED
    BY <1>a, <2>1, ServeSame DEF Env
<1>8. CASE UNCHANGED vars
  BY <1>8, <1>a, ServeSame DEF vars, Env
<1> QED
  BY <1>1, <1>2, <1>3, <1>4, <1>5, <1>6, <1>7, <1>8 DEF Next, Run, AllInstalled

\* The safety half of EventuallyInstalled: what a bundle that is as published
\* may be refused for.  On a suitable machine, while nothing changes the bundle
\* and no command fails of itself, an installer fails only at its first look,
\* because its target is there; no later check can stop it, although others
\* install at the same target.
OnlyTheTargetRefuses ==
  [][\A i \in Supported :
       /\ pc[i] # "failed" /\ pc'[i] = "failed"
       /\ Wrong(BundleOf[i]) = {} /\ changes = 0 /\ stops' = 0
       => At(i, "start") /\ there[TargetOf[i]] # "absent"]_vars

THEOREM OnlyTheTargetRefusesCorrect == Spec => OnlyTheTargetRefuses
<1>1. Init => ServeInv
  BY DEF Init, ServeInv, Serves
<1>2. ASSUME TypeInv, ServeInv, Next, NEW i \in Supported, pc[i] # "failed", pc'[i] = "failed",
             Wrong(BundleOf[i]) = {}, changes = 0, stops' = 0
      PROVE  At(i, "start") /\ there[TargetOf[i]] # "absent"
  <2> USE DEF At, Goto
  <2>1. /\ i \in Installers /\ Serves(i) /\ Position(i)
        /\ pc \in [Installers -> Working \cup {"start", "ok", "failed"}]
    BY <1>2, InstallersAssumption DEF ServeInv, TypeInv, TypeOK
  <2>2. /\ \A n \in Shipped : File(i, n) = Release(i) /\ File(i, n) \in Releases
        /\ \A n \in Names : File(i, n) # "symlink"
        /\ Present(i) = Shipped
    BY <1>2, <2>1, PublishedFiles
  <2>3. ~Stop(i)
    BY <1>2 DEF Stop, TypeInv, TypeOK
  <2>4. Run(i)
    <3>1. ASSUME NEW j \in Installers, j # i PROVE ~Run(j)
      BY <1>2, <2>1, <3>1 DEF Run, Start, LookForSymlinks, Inventory, Checksum,
         MakeEnvironment, ReadRequirements, CollectWheels, InstallWheel, ShowVersion
    <3>2. ASSUME NEW j \in Installers PROVE ~Retry(j) /\ (j # i => ~Stop(j))
      BY <1>2, <2>1, <3>2 DEF Stop, Retry
    <3>3. pc' # pc
      BY <1>2
    <3>4. /\ \A t \in Targets : ~RemoveTarget(t)
          /\ \A b \in Bundles : ~Change(b)
          /\ ~AllInstalled
      BY <3>3 DEF RemoveTarget, Change, AllInstalled, vars
    <3> QED
      BY <1>2, <2>3, <3>1, <3>2, <3>4 DEF Next
  <2>5. ~LookForSymlinks(i) /\ ~Inventory(i)
    BY <1>2, <2>1, <2>2 DEF LookForSymlinks, Inventory
  <2>6. ~Checksum(i)
    <3>1. ASSUME pc[i] = "checksums" PROVE File(i, Order[pos[i]]) = Release(i)
      BY <2>1, <2>2, <3>1, Lines DEF Position, Shipped
    <3>2. ASSUME Checksum(i), File(i, Order[pos[i]]) = Release(i) PROVE pc'[i] # "failed"
      BY <2>1, <3>2 DEF Checksum
    <3> QED
      BY <1>2, <3>1, <3>2 DEF Checksum
  <2>7. ~MakeEnvironment(i) /\ ~InstallWheel(i)
    BY <1>2, <2>1 DEF MakeEnvironment, InstallWheel
  <2>8. ~ReadRequirements(i)
    BY <1>2, <2>1, <2>2, NamesAssumption DEF ReadRequirements
  <2>9. ~CollectWheels(i)
    BY <1>2, <2>1, <2>2, NamesAssumption DEF CollectWheels, Serves
  <2>10. ~ShowVersion(i)
    BY <1>2, <2>1 DEF ShowVersion, Serves
  <2>11. Start(i)
    BY <2>4, <2>5, <2>6, <2>7, <2>8, <2>9, <2>10 DEF Run
  <2> QED
    BY <1>2, <2>1, <2>11 DEF Start
<1>3. TypeInv /\ ServeInv /\ [Next]_vars =>
        [\A i \in Supported :
           /\ pc[i] # "failed" /\ pc'[i] = "failed"
           /\ Wrong(BundleOf[i]) = {} /\ changes = 0 /\ stops' = 0
           => At(i, "start") /\ there[TargetOf[i]] # "absent"]_vars
  BY <1>2
<1> QED
  BY <1>1, <1>3, ServeStep, TypeInvCorrect, PTL DEF Spec, OnlyTheTargetRefuses
=============================================================================

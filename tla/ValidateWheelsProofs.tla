----------------------- MODULE ValidateWheelsProofs -----------------------
(***************************************************************************)
(* Proofs about ValidateWheels, for any wheelhouse.  The queue holds only  *)
(* needed pairs, and what it has let through has been followed completely, *)
(* so that an empty queue leaves a closed set, which is the needed one.    *)
(***************************************************************************)
EXTENDS ValidateWheels, FiniteSetTheorems, TLAPS

Asked == Range(requested) \subseteq Project.provides
Checked == /\ Len(wheels) > 1 /\ Distinct
           /\ \A w \in Range(wheels) : w.sound /\ w.python
Acceptable ==
  /\ Len(wheels) > 1 /\ Distinct
  /\ \A w \in Range(wheels) : /\ w.sound /\ w.python
                              /\ \A q \in Range(w.requires) : ~q.bad
  /\ Asked
  /\ \A c \in Needed : \A q \in Activated(c) : Satisfied(q)

\* Pairs that are queued or were taken: this set only grows.
Known == Range(work) \cup processed
Followed(c, q) == /\ ~q.bad
                  /\ c[2] \in q.when => /\ Satisfied(q)
                                        /\ \A z \in q.extras : <<q.to, z>> \in Known

AtHand == {"require", "extras"}
Seeded == AtHand \cup {"next", "accepted"}

CheckedInv ==
  /\ phase \in Seeded \cup {"seed"} => Checked
  /\ phase \in Seeded => Asked
  /\ phase \in {"inspect", "seed"} => processed = {} /\ work = <<>>

QueueInv ==
  phase \in Seeded =>
    /\ Known \subseteq Needed /\ Roots \subseteq Known
    /\ phase = "accepted" => work = <<>>
    /\ phase \in AtHand => pair \in processed

FollowedInv ==
  phase \in Seeded =>
    /\ \A c \in processed : (phase \in AtHand => c # pair) =>
         \A q \in Range(ByName(c[1]).requires) : Followed(c, q)
    /\ phase \in AtHand => \A i \in 1..(pos - 1) : Followed(pair, Requires[i])
    /\ phase = "extras" =>
         /\ ~Requires[pos].bad /\ pair[2] \in Requires[pos].when
         /\ Present(Requires[pos].to) /\ Requires[pos].fits
         /\ \A z \in Requires[pos].extras \ pending :
              z \in ByName(Requires[pos].to).provides /\ <<Requires[pos].to, z>> \in Known

RefusedInv == phase = "refused" => ~Acceptable

IInv == TypeOK /\ CheckedInv /\ QueueInv /\ FollowedInv /\ RefusedInv

-----------------------------------------------------------------------------
(* Sequences                                                               *)

LEMMA AppendRange ==
  ASSUME NEW T, NEW s \in Seq(T), NEW e \in T
  PROVE  Range(Append(s, e)) = Range(s) \cup {e}
<1>1. /\ DOMAIN s = 1..Len(s) /\ DOMAIN Append(s, e) = 1..(Len(s) + 1)
      /\ Append(s, e)[Len(s) + 1] = e
      /\ \A i \in 1..Len(s) : Append(s, e)[i] = s[i]
  OBVIOUS
<1>2. Len(s) \in Nat
  OBVIOUS
<1> QED
  BY <1>1, <1>2 DEF Range

LEMMA HeadTailRange ==
  ASSUME NEW T, NEW s \in Seq(T), s # <<>>
  PROVE  /\ Head(s) \in T /\ Tail(s) \in Seq(T)
         /\ Range(s) = {Head(s)} \cup Range(Tail(s))
<1>1. /\ DOMAIN s = 1..Len(s) /\ Len(s) \in Nat \ {0}
      /\ Head(s) = s[1] /\ Head(s) \in T /\ Tail(s) \in Seq(T)
      /\ DOMAIN Tail(s) = 1..(Len(s) - 1)
      /\ \A i \in 1..(Len(s) - 1) : Tail(s)[i] = s[i + 1]
  OBVIOUS
<1>2. ASSUME NEW i \in 1..Len(s) PROVE s[i] \in {Head(s)} \cup Range(Tail(s))
  <2>1. CASE i = 1
    BY <1>1, <2>1
  <2>2. CASE i # 1
    <3>1. i - 1 \in 1..(Len(s) - 1) /\ (i - 1) + 1 = i
      BY <1>1, <2>2
    <3> QED
      BY <1>1, <3>1 DEF Range
  <2> QED
    BY <2>1, <2>2
<1>3. ASSUME NEW i \in 1..(Len(s) - 1) PROVE Tail(s)[i] \in Range(s)
  <2>1. i + 1 \in 1..Len(s)
    BY <1>1
  <2> QED
    BY <1>1, <2>1 DEF Range
<1>4. Head(s) \in Range(s)
  BY <1>1 DEF Range
<1>5. Range(s) \subseteq {Head(s)} \cup Range(Tail(s))
  BY <1>1, <1>2 DEF Range
<1>6. Range(Tail(s)) \subseteq Range(s)
  BY <1>1, <1>3 DEF Range
<1> QED
  BY <1>1, <1>4, <1>5, <1>6

-----------------------------------------------------------------------------
(* Wheels and pairs                                                        *)

\* The metadata that a name leads to.
LEMMA ByNameFacts ==
  ASSUME TypeOK, NEW n, Present(n)
  PROVE  /\ ByName(n) \in Range(wheels) /\ ByName(n) \in Wheel /\ ByName(n).name = n
         /\ ByName(n).requires \in Seq(Requirement)
         /\ Distinct => \A w \in Range(wheels) : w.name = n => w = ByName(n)
<1>1. \E i \in DOMAIN wheels : wheels[i].name = n
  BY DEF Present, Range
<1> DEFINE i == CHOOSE i \in DOMAIN wheels : wheels[i].name = n
<1>2. i \in DOMAIN wheels /\ wheels[i].name = n
  BY <1>1
<1>3. ByName(n) = wheels[i]
  BY DEF ByName
<1>4. wheels[i] \in Wheel
  BY <1>2 DEF TypeOK
<1>5. wheels[i].requires \in Seq(Requirement)
  BY <1>4 DEF Wheel
<1>6. Distinct => \A w \in Range(wheels) : w.name = n => w = ByName(n)
  BY <1>2, <1>3 DEF Distinct, Range
<1> QED
  BY <1>2, <1>3, <1>4, <1>5, <1>6 DEF Range

LEMMA ActivatedFacts ==
  ASSUME TypeOK, Distinct, NEW c, Present(c[1])
  PROVE  Activated(c) = {q \in Range(ByName(c[1]).requires) : c[2] \in q.when}
BY ByNameFacts DEF Activated

\* The least closed set: it holds the roots, it is closed, and no closed set
\* is without one of its members.
LEMMA NeededFacts ==
  /\ Roots \cap Offered \subseteq Needed
  /\ \A c \in Needed : Leads(c) \subseteq Needed
  /\ \A S \in SUBSET Offered : Closed(S) => Needed \subseteq S
<1>1. Roots \cap Offered \subseteq Needed
  BY DEF Needed, Closed
<1>2. ASSUME NEW c \in Needed, NEW d \in Leads(c) PROVE d \in Needed
  <2>1. d \in Offered
    BY DEF Leads
  <2>2. ASSUME NEW S \in SUBSET Offered, Closed(S) PROVE d \in S
    BY <2>2 DEF Needed, Closed
  <2> QED
    BY <2>1, <2>2 DEF Needed
<1> QED
  BY <1>1, <1>2 DEF Needed

\* A pair that is offered has a wheel.
LEMMA OfferedPresent == \A c \in Offered : c \in Pairs /\ Present(c[1])
BY DEF Offered, Present

LEMMA NeededPresent == \A c \in Needed : c \in Offered /\ c \in Pairs /\ Present(c[1])
BY OfferedPresent DEF Needed

\* What depends on the input only.
LEMMA SameInput ==
  ASSUME UNCHANGED input
  PROVE  /\ Needed' = Needed /\ Roots' = Roots /\ Checked' = Checked /\ Asked' = Asked
         /\ Acceptable' = Acceptable
         /\ \A n : Present(n)' = Present(n) /\ ByName(n)' = ByName(n)
         /\ \A q : Satisfied(q)' = Satisfied(q)
<1> USE DEF input
<1>1. wheels' = wheels /\ requested' = requested
  OBVIOUS
<1>2. /\ Offered' = Offered /\ Roots' = Roots
      /\ \A n : Present(n)' = Present(n) /\ ByName(n)' = ByName(n)
      /\ \A q : Satisfied(q)' = Satisfied(q)
  BY <1>1 DEF Offered, Roots, Project, Present, ByName, Satisfied
<1>3. \A c : Activated(c)' = Activated(c)
  BY <1>1 DEF Activated
<1>4. \A c : Leads(c)' = Leads(c)
  BY <1>2, <1>3 DEF Leads
<1>5. \A S : Closed(S)' = Closed(S)
  BY <1>2, <1>4 DEF Closed
<1>6. Needed' = Needed
  BY <1>2, <1>5 DEF Needed
<1>7. Asked' = Asked /\ Checked' = Checked /\ Distinct' = Distinct
  BY <1>1 DEF Asked, Checked, Project, Distinct
<1>8. Acceptable' = Acceptable
  BY <1>1, <1>2, <1>3, <1>6, <1>7 DEF Acceptable
<1> QED
  BY <1>2, <1>6, <1>7, <1>8

\* What has been queued stays known, and what is known grows.
LEMMA FollowedGrows ==
  ASSUME UNCHANGED input, Known \subseteq Known', NEW c, NEW q, Followed(c, q)
  PROVE  Followed(c, q)'
BY SameInput DEF Followed

\* The queue as it is seeded.
LEMMA SeedsFacts ==
  ASSUME TypeOK, Asked
  PROVE  /\ Seeds \in Seq(Pairs) /\ Range(Seeds) = Roots /\ Roots \subseteq Offered
<1> DEFINE m == Len(wheels)
           n == Len(requested)
<1>1. /\ m \in Nat \ {0} /\ n \in Nat
      /\ DOMAIN wheels = 1..m /\ DOMAIN requested = 1..n
      /\ \A i \in 1..m : wheels[i] \in Wheel /\ wheels[i] \in Range(wheels)
      /\ \A j \in 1..n : requested[j] \in Extras /\ requested[j] \in Range(requested)
  BY DEF TypeOK, Range
<1>2. Project \in Wheel /\ Project \in Range(wheels)
  BY <1>1 DEF Project
<1>3. /\ \A i \in 1..m : wheels[i].name \in Names
      /\ Project.name \in Names
  BY <1>1, <1>2 DEF Wheel
<1>4. DOMAIN Seeds = 1..(m + n)
  BY DEF Seeds
<1>5. ASSUME NEW i \in 1..m PROVE i \in 1..(m + n) /\ Seeds[i] = <<wheels[i].name, NoExtra>>
  BY <1>1 DEF Seeds
<1>6. ASSUME NEW j \in 1..n
      PROVE  m + j \in 1..(m + n) /\ Seeds[m + j] = <<Project.name, requested[j]>>
  <2>1. m + j \in 1..(m + n) /\ ~(m + j <= m) /\ (m + j) - m = j
    BY <1>1
  <2> QED
    BY <2>1 DEF Seeds
<1>7. ASSUME NEW k \in 1..(m + n)
      PROVE  \/ \E i \in 1..m : Seeds[k] = <<wheels[i].name, NoExtra>>
             \/ \E j \in 1..n : Seeds[k] = <<Project.name, requested[j]>>
  <2>1. CASE k <= m
    <3>1. k \in 1..m
      BY <1>1, <2>1
    <3> QED
      BY <1>5, <3>1
  <2>2. CASE ~(k <= m)
    <3>1. k - m \in 1..n /\ k = m + (k - m)
      BY <1>1, <2>2
    <3> QED
      BY <1>6, <3>1
  <2> QED
    BY <2>1, <2>2
<1> HIDE DEF m, n
<1>8. ASSUME NEW k \in 1..(m + n) PROVE Seeds[k] \in Pairs
  <2>1. ASSUME NEW i \in 1..m PROVE <<wheels[i].name, NoExtra>> \in Pairs
    BY <1>3 DEF Pairs, Active
  <2>2. ASSUME NEW j \in 1..n PROVE <<Project.name, requested[j]>> \in Pairs
    BY <1>1, <1>3 DEF Pairs, Active
  <2> QED
    BY <1>7, <2>1, <2>2
<1>9. Seeds \in Seq(Pairs)
  <2>1. m + n \in Nat
    BY <1>1
  <2>2. Seeds \in [1..(m + n) -> Pairs]
    BY <1>8 DEF Seeds, m, n
  <2> QED
    BY <2>1, <2>2
<1>10. Range(Seeds) \subseteq Roots
  BY <1>1, <1>4, <1>7 DEF Range, Roots
<1>11. Roots \subseteq Range(Seeds)
  <2>1. ASSUME NEW w \in Range(wheels) PROVE <<w.name, NoExtra>> \in Range(Seeds)
    <3>1. PICK i \in 1..m : w = wheels[i]
      BY <1>1 DEF Range
    <3> QED
      BY <1>4, <1>5, <3>1 DEF Range
  <2>2. ASSUME NEW z \in Range(requested) PROVE <<Project.name, z>> \in Range(Seeds)
    <3>1. PICK j \in 1..n : z = requested[j]
      BY <1>1 DEF Range
    <3> QED
      BY <1>4, <1>6, <3>1 DEF Range
  <2> QED
    BY <2>1, <2>2 DEF Roots
<1>12. Roots \subseteq Offered
  <2>1. ASSUME NEW w \in Range(wheels) PROVE <<w.name, NoExtra>> \in Offered
    <3>1. w.name \in Names
      BY <1>1, <1>3 DEF Range
    <3> QED
      BY <3>1 DEF Offered, Pairs, Active
  <2>2. ASSUME NEW z \in Range(requested) PROVE <<Project.name, z>> \in Offered
    <3>1. z \in Extras /\ z \in Project.provides
      BY <1>1 DEF Range, Asked
    <3> QED
      BY <1>2, <1>3, <3>1 DEF Offered, Pairs, Active
  <2> QED
    BY <2>1, <2>2 DEF Roots
<1> QED
  BY <1>9, <1>10, <1>11, <1>12

-----------------------------------------------------------------------------
(* The steps, one lemma for each.                                          *)

LEMMA InitEstablishes == Init => IInv
<1> SUFFICES ASSUME Init PROVE IInv
  OBVIOUS
<1>1. wheels \in Seq(Wheel) /\ wheels # <<>> /\ requested \in Seq(Extras)
  BY InputsAssumption DEF Init
<1>2. Project \in Range(wheels) /\ Project.name \in Names
  <2>1. Len(wheels) \in DOMAIN wheels /\ Project \in Wheel
    BY <1>1 DEF Project
  <2> QED
    BY <2>1 DEF Project, Range, Wheel
<1>3. TypeOK
  BY <1>1, <1>2 DEF Init, TypeOK, Pairs, Active, Present
<1> QED
  BY <1>3 DEF Init, IInv, CheckedInv, QueueInv, FollowedInv, RefusedInv, Seeded, AtHand

LEMMA InspectPreserves == IInv /\ Inspect => IInv'
<1> SUFFICES ASSUME IInv, Inspect PROVE IInv'
  OBVIOUS
<1> USE DEF Inspect
<1>1. UNCHANGED input /\ phase' \in {"seed", "refused"} /\ (phase' = "seed" <=> Checked)
  BY DEF Checked
<1>2. TypeOK'
  BY <1>1 DEF IInv, TypeOK, input, Present, Requires, ByName
<1>3. CheckedInv'
  BY <1>1, SameInput DEF IInv, CheckedInv, Seeded, AtHand
<1>4. RefusedInv'
  <2>1. ~Checked => ~Acceptable
    BY DEF Checked, Acceptable
  <2> QED
    BY <1>1, <2>1, SameInput DEF RefusedInv
<1> QED
  BY <1>1, <1>2, <1>3, <1>4 DEF IInv, QueueInv, FollowedInv, Seeded, AtHand

LEMMA SeedPreserves == IInv /\ Seed => IInv'
<1> SUFFICES ASSUME IInv, Seed PROVE IInv'
  OBVIOUS
<1>1. /\ UNCHANGED <<input, processed, pair, pos, pending>> /\ Checked /\ processed = {}
      /\ TypeOK
      /\ \/ Asked /\ phase' = "next" /\ work' = Seeds
         \/ ~Asked /\ phase' = "refused" /\ UNCHANGED work
  BY DEF Seed, IInv, CheckedInv, Asked
<1>2. CASE ~Asked
  <2>1. TypeOK'
    BY <1>1, <1>2 DEF TypeOK, input, Present, Requires, ByName
  <2>2. ~Acceptable
    BY <1>2 DEF Acceptable
  <2> QED
    BY <1>1, <1>2, <2>1, <2>2, SameInput
    DEF IInv, CheckedInv, QueueInv, FollowedInv, RefusedInv, Seeded, AtHand
<1>3. CASE Asked
  <2>1. phase' = "next" /\ work' = Seeds
    BY <1>1, <1>3
  <2>2. /\ Seeds \in Seq(Pairs) /\ Range(Seeds) = Roots /\ Roots \subseteq Offered
    BY <1>1, <1>3, SeedsFacts
  <2>3. TypeOK'
    BY <1>1, <2>1, <2>2 DEF TypeOK, input, Present, Requires, ByName
  <2>4. Known' = Roots
    BY <1>1, <2>1, <2>2 DEF Known, input
  <2>5. Roots \subseteq Needed
    BY <2>2, NeededFacts
  <2>6. QueueInv'
    BY <1>1, <2>1, <2>4, <2>5, SameInput DEF QueueInv, AtHand
  <2>7. FollowedInv' /\ RefusedInv'
    BY <1>1, <2>1 DEF FollowedInv, RefusedInv, AtHand
  <2>8. CheckedInv'
    BY <1>1, <1>3, <2>1, SameInput DEF CheckedInv
  <2> QED
    BY <2>3, <2>6, <2>7, <2>8 DEF IInv
<1> QED
  BY <1>2, <1>3
LEMMA TakePreserves == IInv /\ Take => IInv'
<1> SUFFICES ASSUME IInv, Take PROVE IInv'
  OBVIOUS
<1>1. /\ phase = "next" /\ work # <<>> /\ Head(work) \notin processed
      /\ pair' = Head(work) /\ work' = Tail(work) /\ processed' = processed \cup {pair'}
      /\ phase' = "require" /\ pos' = 1 /\ UNCHANGED <<input, pending>>
  BY DEF Take
<1>2. TypeOK /\ CheckedInv /\ QueueInv /\ FollowedInv
  BY DEF IInv
<1>3. /\ Head(work) \in Pairs /\ Tail(work) \in Seq(Pairs)
      /\ Range(work) = {Head(work)} \cup Range(Tail(work))
  <2>1. work \in Seq(Pairs)
    BY <1>2 DEF TypeOK
  <2> QED
    BY <1>1, <2>1, HeadTailRange
<1>4. Known' = Known
  BY <1>1, <1>3 DEF Known
<1>5. Known \subseteq Needed /\ Roots \subseteq Known
  BY <1>1, <1>2 DEF QueueInv, Seeded
<1>6. TypeOK'
  <2>1. Len(ByName(pair'[1]).requires) \in Nat /\ Present(pair'[1])
    <3>1. Present(pair'[1])
      BY <1>1, <1>3, <1>5, NeededPresent DEF Known
    <3>2. ByName(pair'[1]).requires \in Seq(Requirement)
      BY <1>2, <3>1, ByNameFacts
    <3> QED
      BY <3>1, <3>2
  <2>2. Present(pair[1])' /\ Requires' = ByName(pair'[1]).requires
    BY <1>1, <2>1 DEF input, Present, Requires, ByName
  <2>3. pos' <= Len(Requires') + 1
    BY <1>1, <2>1, <2>2
  <2> QED
    BY <1>1, <1>2, <1>3, <2>2, <2>3 DEF TypeOK, input
<1>7. CheckedInv'
  BY <1>1, <1>2, SameInput DEF CheckedInv, Seeded, AtHand
<1>8. QueueInv'
  BY <1>1, <1>4, <1>5, SameInput DEF QueueInv, AtHand
<1>9. FollowedInv'
  <2>1. ASSUME NEW c \in processed, NEW q \in Range(ByName(c[1]).requires)
        PROVE  Followed(c, q)'
    <3>1. Followed(c, q)
      BY <1>1, <1>2 DEF FollowedInv, Seeded, AtHand
    <3> QED
      BY <1>1, <1>4, <3>1, FollowedGrows
  <2>2. \A c : ByName(c[1])' = ByName(c[1])
    BY <1>1, SameInput
  <2>3. ASSUME NEW c \in processed', c # pair',
               NEW q \in Range(ByName(c[1])'.requires)
        PROVE  Followed(c, q)'
    BY <1>1, <2>1, <2>2, <2>3
  <2>4. \A i \in 1..(pos' - 1) : FALSE
    BY <1>1
  <2> QED
    BY <1>1, <2>3, <2>4 DEF FollowedInv, AtHand
<1> QED
  BY <1>1, <1>6, <1>7, <1>8, <1>9 DEF IInv, RefusedInv

LEMMA SkipPreserves == IInv /\ Skip => IInv'
<1> SUFFICES ASSUME IInv, Skip PROVE IInv'
  OBVIOUS
<1>1. /\ phase = "next" /\ work # <<>> /\ Head(work) \in processed
      /\ work' = Tail(work) /\ UNCHANGED <<input, phase, processed, pair, pos, pending>>
  BY DEF Skip
<1>2. TypeOK /\ CheckedInv /\ QueueInv /\ FollowedInv
  BY DEF IInv
<1>3. Tail(work) \in Seq(Pairs) /\ Range(work) = {Head(work)} \cup Range(Tail(work))
  <2>1. work \in Seq(Pairs)
    BY <1>2 DEF TypeOK
  <2> QED
    BY <1>1, <2>1, HeadTailRange
<1>4. Known' = Known
  BY <1>1, <1>3 DEF Known
<1>5. TypeOK'
  BY <1>1, <1>2, <1>3 DEF TypeOK, input, Present, Requires, ByName
<1>6. CheckedInv' /\ QueueInv'
  BY <1>1, <1>2, <1>4, SameInput DEF CheckedInv, QueueInv, Seeded, AtHand
<1>7. FollowedInv'
  <2>1. ASSUME NEW c \in processed, NEW q \in Range(ByName(c[1]).requires)
        PROVE  Followed(c, q)'
    <3>1. Followed(c, q)
      BY <1>1, <1>2 DEF FollowedInv, Seeded, AtHand
    <3> QED
      BY <1>1, <1>4, <3>1, FollowedGrows
  <2>2. \A c : ByName(c[1])' = ByName(c[1])
    BY <1>1, SameInput
  <2> QED
    BY <1>1, <2>1, <2>2 DEF FollowedInv, AtHand
<1> QED
  BY <1>1, <1>5, <1>6, <1>7 DEF IInv, RefusedInv

\* Steps that change neither the queue nor what was processed, and go from
\* one of the phases after seeding to another.
LEMMA QuietQueue ==
  ASSUME IInv, phase \in Seeded, UNCHANGED <<input, work, processed, pair>>,
         phase' \in Seeded,
         phase' = "accepted" => work = <<>>,
         phase' \in AtHand => phase \in AtHand
  PROVE  CheckedInv' /\ QueueInv' /\ RefusedInv'
<1>1. Known' = Known
  BY DEF Known
<1>2. CheckedInv' /\ QueueInv'
  BY <1>1, SameInput DEF IInv, CheckedInv, QueueInv, Seeded, AtHand
<1> QED
  BY <1>2 DEF RefusedInv, Seeded, AtHand

LEMMA AcceptPreserves == IInv /\ Accept => IInv'
<1> SUFFICES ASSUME IInv, Accept PROVE IInv'
  OBVIOUS
<1>1. /\ phase = "next" /\ work = <<>> /\ phase' = "accepted"
      /\ UNCHANGED <<input, work, processed, pair, pos, pending>>
  BY DEF Accept
<1>2. TypeOK'
  BY <1>1 DEF IInv, TypeOK, input, Present, Requires, ByName
<1>3. CheckedInv' /\ QueueInv' /\ RefusedInv'
  BY <1>1, QuietQueue DEF Seeded, AtHand
<1>4. FollowedInv'
  <2>1. Known' = Known
    BY <1>1 DEF Known
  <2>2. ASSUME NEW c \in processed, NEW q \in Range(ByName(c[1]).requires)
        PROVE  Followed(c, q)'
    <3>1. Followed(c, q)
      BY <1>1 DEF IInv, FollowedInv, Seeded, AtHand
    <3> QED
      BY <1>1, <2>1, <3>1, FollowedGrows
  <2>3. \A c : ByName(c[1])' = ByName(c[1])
    BY <1>1, SameInput
  <2> QED
    BY <1>1, <2>2, <2>3 DEF FollowedInv, AtHand
<1> QED
  BY <1>2, <1>3, <1>4 DEF IInv
\* The pair at hand and its requirements.
LEMMA AtHandFacts ==
  ASSUME IInv, phase \in AtHand
  PROVE  /\ TypeOK /\ Distinct /\ pair \in processed /\ pair \in Needed
         /\ Present(pair[1]) /\ ByName(pair[1]) \in Range(wheels)
         /\ Requires = ByName(pair[1]).requires
         /\ Requires \in Seq(Requirement) /\ DOMAIN Requires = 1..Len(Requires)
         /\ Len(Requires) \in Nat
         /\ \A i \in 1..Len(Requires) : Requires[i] \in Requirement /\ Requires[i] \in Range(Requires)
         /\ Activated(pair) = {q \in Range(Requires) : pair[2] \in q.when}
<1>1. TypeOK /\ Distinct /\ pair \in processed /\ pair \in Needed
  BY DEF IInv, CheckedInv, Checked, QueueInv, Seeded, AtHand, Known
<1>2. Present(pair[1])
  BY <1>1, NeededPresent
<1>3. ByName(pair[1]) \in Range(wheels) /\ Requires \in Seq(Requirement)
  BY <1>1, <1>2, ByNameFacts DEF Requires
<1>4. Activated(pair) = {q \in Range(Requires) : pair[2] \in q.when}
  BY <1>1, <1>2, ActivatedFacts DEF Requires
<1>5. /\ DOMAIN Requires = 1..Len(Requires) /\ Len(Requires) \in Nat
      /\ \A i \in 1..Len(Requires) : Requires[i] \in Requirement
  BY <1>3
<1> QED
  BY <1>1, <1>2, <1>3, <1>4, <1>5 DEF Requires, Range

\* A requirement that its pair activates and no wheel satisfies.
LEMMA Unsatisfied ==
  ASSUME IInv, phase \in AtHand, NEW i \in 1..Len(Requires),
         \/ Requires[i].bad
         \/ pair[2] \in Requires[i].when /\ ~Satisfied(Requires[i])
  PROVE  ~Acceptable
<1>1. /\ pair \in Needed /\ ByName(pair[1]) \in Range(wheels)
      /\ Requires = ByName(pair[1]).requires /\ Requires[i] \in Range(Requires)
      /\ Activated(pair) = {q \in Range(Requires) : pair[2] \in q.when}
  BY AtHandFacts
<1> QED
  BY <1>1 DEF Acceptable

\* The only wheel that can satisfy a requirement is the one of that name.
LEMMA SatisfiedByName ==
  ASSUME TypeOK, Distinct, NEW q
  PROVE  Satisfied(q) <=> /\ Present(q.to) /\ q.fits
                          /\ q.extras \subseteq ByName(q.to).provides
<1>1. CASE ~Present(q.to)
  BY <1>1 DEF Present, Satisfied
<1>2. CASE Present(q.to)
  <2>1. /\ ByName(q.to) \in Range(wheels) /\ ByName(q.to).name = q.to
        /\ \A w \in Range(wheels) : w.name = q.to => w = ByName(q.to)
    BY <1>2, ByNameFacts
  <2> QED
    BY <1>2, <2>1 DEF Satisfied
<1> QED
  BY <1>1, <1>2

\* What was followed stays so when the pair at hand and the processed pairs
\* stay and what is known does not shrink.
LEMMA FollowedKept ==
  ASSUME IInv, phase \in AtHand, UNCHANGED <<input, processed, pair>>, Known \subseteq Known'
  PROVE  /\ \A c \in processed' : c # pair' =>
              \A q \in Range(ByName(c[1])'.requires) : Followed(c, q)'
         /\ \A i \in 1..(pos - 1) : Followed(pair, Requires[i])'
         /\ Requires' = Requires
<1>1. \A c : ByName(c[1])' = ByName(c[1])
  BY SameInput
<1>2. Requires' = Requires
  BY <1>1 DEF Requires
<1>3. ASSUME NEW c \in processed, c # pair, NEW q \in Range(ByName(c[1]).requires)
      PROVE  Followed(c, q)'
  <2>1. Followed(c, q)
    BY <1>3 DEF IInv, FollowedInv, Seeded
  <2> QED
    BY <2>1, FollowedGrows
<1>4. ASSUME NEW i \in 1..(pos - 1) PROVE Followed(pair, Requires[i])'
  <2> DEFINE q == Requires[i]
  <2>1. Followed(pair, q)
    BY DEF IInv, FollowedInv, Seeded
  <2>2. q' = q /\ pair' = pair
    BY <1>2
  <2> HIDE DEF q
  <2>3. Followed(pair, q)'
    BY <2>1, <2>2, SameInput DEF Followed
  <2> QED
    BY <2>3 DEF q
<1> QED
  BY <1>1, <1>2, <1>3, <1>4

LEMMA RequirePreserves == IInv /\ Require => IInv'
<1> SUFFICES ASSUME IInv, Require PROVE IInv'
  OBVIOUS
<1> DEFINE q == Requires[pos]
           applies == pair[2] \in q.when
           met == Present(q.to) /\ q.fits
<1>1. /\ phase = "require" /\ pos <= Len(Requires)
      /\ UNCHANGED <<input, work, processed, pair>>
      /\ \/ (q.bad \/ (applies /\ ~met)) /\ phase' = "refused" /\ UNCHANGED <<pos, pending>>
         \/ ~q.bad /\ ~applies /\ pos' = pos + 1 /\ UNCHANGED <<phase, pending>>
         \/ ~q.bad /\ applies /\ met /\ phase' = "extras" /\ pending' = q.extras /\ UNCHANGED pos
  BY DEF Require
<1>2. phase \in AtHand /\ TypeOK /\ pos \in Nat \ {0} /\ pos \in 1..Len(Requires)
  BY <1>1, AtHandFacts DEF AtHand, IInv, TypeOK
<1>3. q \in Requirement /\ Distinct
  BY <1>2, AtHandFacts
<1>4. Known' = Known
  BY <1>1 DEF Known
<1>5. /\ \A c \in processed' : c # pair' =>
              \A r \in Range(ByName(c[1])'.requires) : Followed(c, r)'
      /\ \A i \in 1..(pos - 1) : Followed(pair, Requires[i])'
      /\ Requires' = Requires
  BY <1>1, <1>2, <1>4, FollowedKept
<1>6. Present(pair[1])'
  BY <1>1, <1>2, SameInput, AtHandFacts
<1>7. CASE (q.bad \/ (applies /\ ~met)) /\ phase' = "refused" /\ UNCHANGED <<pos, pending>>
  <2>1. q.bad \/ (pair[2] \in q.when /\ ~Satisfied(q))
    BY <1>2, <1>3, <1>7, SatisfiedByName
  <2>2. ~Acceptable
    BY <1>2, <2>1, Unsatisfied
  <2>3. TypeOK'
    BY <1>1, <1>2, <1>6, <1>7 DEF TypeOK, input
  <2> QED
    BY <1>1, <1>7, <2>2, <2>3, SameInput
    DEF IInv, CheckedInv, QueueInv, FollowedInv, RefusedInv, Seeded, AtHand
<1>8. CASE ~q.bad /\ ~applies /\ pos' = pos + 1 /\ UNCHANGED <<phase, pending>>
  <2>1. TypeOK'
    <3>1. pos' <= Len(Requires') + 1 /\ pos' \in Nat \ {0}
      BY <1>2, <1>5, <1>8, AtHandFacts
    <3> QED
      BY <1>1, <1>2, <1>6, <1>8, <3>1 DEF TypeOK, input
  <2>2. CheckedInv' /\ QueueInv' /\ RefusedInv'
    BY <1>1, <1>2, <1>8, QuietQueue DEF Seeded, AtHand
  <2>3. FollowedInv'
    <3>1. ASSUME NEW i \in {pos} PROVE Followed(pair, Requires[i])'
      BY <1>1, <1>5, <1>8, <3>1 DEF Followed
    <3>2. 1..(pos' - 1) = 1..(pos - 1) \cup {pos}
      BY <1>2, <1>8
    <3>3. \A i \in 1..(pos' - 1) : Followed(pair, Requires[i])'
      BY <1>5, <3>1, <3>2
    <3> QED
      BY <1>1, <1>5, <1>8, <3>3 DEF FollowedInv, AtHand
  <2> QED
    BY <2>1, <2>2, <2>3 DEF IInv
<1>9. CASE ~q.bad /\ applies /\ met /\ phase' = "extras" /\ pending' = q.extras /\ UNCHANGED pos
  <2>1. TypeOK'
    <3>1. pending' \subseteq Extras /\ pending' \subseteq Requires'[pos'].extras
      BY <1>3, <1>5, <1>9 DEF Requirement
    <3>2. pos' <= Len(Requires')
      BY <1>1, <1>5, <1>9
    <3> QED
      BY <1>1, <1>2, <1>6, <1>9, <3>1, <3>2 DEF TypeOK, input
  <2>2. CheckedInv' /\ QueueInv' /\ RefusedInv'
    BY <1>1, <1>2, <1>9, QuietQueue DEF Seeded, AtHand
  <2>3. FollowedInv'
    <3>1. ~q'.bad /\ pair'[2] \in q'.when /\ Present(q.to)' /\ q'.fits /\ q'.extras \subseteq pending'
      BY <1>1, <1>5, <1>9, SameInput
    <3> QED
      BY <1>1, <1>5, <1>9, <3>1 DEF FollowedInv, AtHand
  <2> QED
    BY <2>1, <2>2, <2>3 DEF IInv
<1> QED
  BY <1>1, <1>7, <1>8, <1>9
LEMMA RequiredPreserves == IInv /\ Required => IInv'
<1> SUFFICES ASSUME IInv, Required PROVE IInv'
  OBVIOUS
<1>1. /\ phase = "require" /\ pos > Len(Requires) /\ phase' = "next"
      /\ UNCHANGED <<input, work, processed, pair, pos, pending>>
  BY DEF Required
<1>2. phase \in AtHand /\ TypeOK /\ pos \in Nat \ {0}
  BY <1>1, AtHandFacts DEF AtHand, IInv, TypeOK
<1>3. Known' = Known
  BY <1>1 DEF Known
<1>4. /\ \A c \in processed' : c # pair' =>
              \A r \in Range(ByName(c[1])'.requires) : Followed(c, r)'
      /\ \A i \in 1..(pos - 1) : Followed(pair, Requires[i])'
      /\ Requires' = Requires
  BY <1>1, <1>2, <1>3, FollowedKept
<1>5. TypeOK'
  BY <1>1, <1>2 DEF TypeOK, input, Present, Requires, ByName
<1>6. CheckedInv' /\ QueueInv' /\ RefusedInv'
  BY <1>1, <1>2, QuietQueue DEF Seeded, AtHand
<1>7. ASSUME NEW r \in Range(ByName(pair[1])'.requires) PROVE Followed(pair, r)'
  <2>1. r \in Range(Requires) /\ DOMAIN Requires = 1..Len(Requires) /\ Len(Requires) \in Nat
    BY <1>1, <1>2, <1>7, SameInput, AtHandFacts
  <2>2. PICK i \in 1..Len(Requires) : r = Requires[i]
    BY <2>1 DEF Range
  <2>3. i \in 1..(pos - 1)
    BY <1>1, <1>2, <2>1
  <2>4. Followed(pair, Requires[i])'
    BY <1>4, <2>3
  <2> QED
    BY <1>4, <2>2, <2>4
<1>8. FollowedInv'
  <2>1. ASSUME NEW c \in processed', NEW r \in Range(ByName(c[1])'.requires)
        PROVE  Followed(c, r)'
    <3>1. CASE c = pair
      BY <1>1, <1>7, <3>1 DEF Followed
    <3>2. CASE c # pair
      BY <1>1, <1>4, <3>2
    <3> QED
      BY <3>1, <3>2
  <2> QED
    BY <1>1, <2>1 DEF FollowedInv, AtHand
<1> QED
  BY <1>5, <1>6, <1>8 DEF IInv

LEMMA ExtraPreserves == IInv /\ Extra => IInv'
<1> SUFFICES ASSUME IInv, Extra PROVE IInv'
  OBVIOUS
<1> DEFINE q == Requires[pos]
<1>1. PICK z \in pending :
        /\ phase = "extras" /\ UNCHANGED <<input, processed, pair, pos>>
        /\ \/ /\ z \in ByName(q.to).provides
              /\ work' = Append(work, <<q.to, z>>) /\ pending' = pending \ {z}
              /\ UNCHANGED phase
           \/ /\ z \notin ByName(q.to).provides
              /\ phase' = "refused" /\ UNCHANGED <<work, pending>>
  BY DEF Extra
<1>2. phase \in AtHand /\ TypeOK /\ pos \in 1..Len(Requires) /\ z \in q.extras /\ z \in Extras
  BY <1>1, AtHandFacts DEF AtHand, IInv, TypeOK
<1>3. /\ q \in Requirement /\ Distinct /\ pair \in Needed /\ q \in Activated(pair)
      /\ pair[2] \in q.when /\ Present(q.to) /\ q.fits
      /\ \A y \in q.extras \ pending : y \in ByName(q.to).provides /\ <<q.to, y>> \in Known
  BY <1>1, <1>2, AtHandFacts DEF IInv, FollowedInv, Seeded
<1>4. Present(pair[1])' /\ Requires' = Requires
  BY <1>1, <1>2, SameInput, AtHandFacts DEF Requires
<1>5. CASE z \notin ByName(q.to).provides /\ phase' = "refused" /\ UNCHANGED <<work, pending>>
  <2>1. ~Satisfied(q)
    BY <1>2, <1>3, <1>5, SatisfiedByName
  <2>2. ~Acceptable
    BY <1>2, <1>3, <2>1, Unsatisfied
  <2>3. TypeOK'
    BY <1>1, <1>2, <1>4, <1>5 DEF TypeOK, input
  <2> QED
    BY <1>1, <1>5, <2>2, <2>3, SameInput
    DEF IInv, CheckedInv, QueueInv, FollowedInv, RefusedInv, Seeded, AtHand
<1>6. CASE /\ z \in ByName(q.to).provides
           /\ work' = Append(work, <<q.to, z>>) /\ pending' = pending \ {z}
           /\ UNCHANGED phase
  <2>1. <<q.to, z>> \in Pairs /\ work \in Seq(Pairs)
    BY <1>2, <1>3 DEF Requirement, Pairs, Active, TypeOK
  <2>2. work' \in Seq(Pairs) /\ Range(work') = Range(work) \cup {<<q.to, z>>}
    BY <1>6, <2>1, AppendRange
  <2>3. Known' = Known \cup {<<q.to, z>>}
    BY <1>1, <2>2 DEF Known
  <2>4. <<q.to, z>> \in Needed
    <3>1. ByName(q.to) \in Range(wheels) /\ ByName(q.to).name = q.to
      BY <1>2, <1>3, ByNameFacts
    <3>2. <<q.to, z>> \in Offered
      BY <1>6, <2>1, <3>1 DEF Offered
    <3>3. <<q.to, z>> \in Leads(pair)
      BY <1>2, <1>3, <3>2 DEF Leads
    <3> QED
      BY <1>3, <3>3, NeededFacts
  <2>5. TypeOK'
    BY <1>1, <1>2, <1>4, <1>6, <2>2 DEF TypeOK, input
  <2>6. CheckedInv' /\ RefusedInv'
    BY <1>1, <1>6, SameInput DEF IInv, CheckedInv, RefusedInv, Seeded, AtHand
  <2>7. QueueInv'
    <3>1. Known \subseteq Needed /\ Roots \subseteq Known /\ pair \in processed
      BY <1>1 DEF IInv, QueueInv, Seeded, AtHand
    <3> QED
      BY <1>1, <1>6, <2>3, <2>4, <3>1, SameInput DEF QueueInv, AtHand
  <2>8. FollowedInv'
    <3>1. /\ \A c \in processed' : c # pair' =>
              \A r \in Range(ByName(c[1])'.requires) : Followed(c, r)'
          /\ \A i \in 1..(pos - 1) : Followed(pair, Requires[i])'
      BY <1>1, <1>2, <2>3, FollowedKept
    <3>2. ~q.bad
      BY <1>1 DEF IInv, FollowedInv, Seeded, AtHand
    <3>3. ASSUME NEW y \in q.extras \ pending'
          PROVE  y \in ByName(q.to).provides /\ <<q.to, y>> \in Known'
      <4>1. CASE y = z
        BY <1>6, <2>3, <4>1
      <4>2. CASE y # z
        BY <1>3, <1>6, <2>3, <3>3, <4>2
      <4> QED
        BY <4>1, <4>2
    <3>4. wheels' = wheels /\ Requires' = Requires /\ pos' = pos /\ pair' = pair /\ phase' = "extras"
      BY <1>1, <1>4, <1>6 DEF input
    <3>5. /\ ~Requires'[pos'].bad /\ pair'[2] \in Requires'[pos'].when /\ Requires'[pos'].fits
          /\ Present(Requires[pos].to)'
      BY <1>3, <3>2, <3>4 DEF Present
    <3>6. \A y \in Requires'[pos'].extras \ pending' :
            y \in ByName(Requires[pos].to)'.provides /\ <<Requires'[pos'].to, y>> \in Known'
      BY <3>3, <3>4 DEF ByName
    <3> QED
      BY <3>1, <3>4, <3>5, <3>6 DEF FollowedInv, AtHand
  <2> QED
    BY <2>5, <2>6, <2>7, <2>8 DEF IInv
<1> QED
  BY <1>1, <1>5, <1>6
LEMMA ExtrasQueuedPreserves == IInv /\ ExtrasQueued => IInv'
<1> SUFFICES ASSUME IInv, ExtrasQueued PROVE IInv'
  OBVIOUS
<1>1. /\ phase = "extras" /\ pending = {} /\ phase' = "require" /\ pos' = pos + 1
      /\ UNCHANGED <<input, work, processed, pair, pending>>
  BY DEF ExtrasQueued
<1>2. /\ phase \in AtHand /\ TypeOK /\ Distinct /\ pos \in 1..Len(Requires) /\ pos \in Nat \ {0}
      /\ Len(Requires) \in Nat
  BY <1>1, AtHandFacts DEF AtHand, IInv, TypeOK
<1>3. Known' = Known
  BY <1>1 DEF Known
<1>4. /\ \A c \in processed' : c # pair' =>
              \A r \in Range(ByName(c[1])'.requires) : Followed(c, r)'
      /\ \A i \in 1..(pos - 1) : Followed(pair, Requires[i])'
      /\ Requires' = Requires
  BY <1>1, <1>2, <1>3, FollowedKept
<1>5. TypeOK'
  <2>1. Present(pair[1])'
    BY <1>1, <1>2, SameInput, AtHandFacts
  <2>2. pos' <= Len(Requires') + 1 /\ pos' \in Nat \ {0}
    BY <1>1, <1>2, <1>4
  <2> QED
    BY <1>1, <1>2, <2>1, <2>2 DEF TypeOK, input
<1>6. CheckedInv' /\ QueueInv' /\ RefusedInv'
  BY <1>1, <1>2, QuietQueue DEF Seeded, AtHand
<1>7. ASSUME NEW i \in {pos} PROVE Followed(pair, Requires[i])'
  <2>1. /\ ~Requires[i].bad /\ Present(Requires[i].to) /\ Requires[i].fits
        /\ \A z \in Requires[i].extras :
             z \in ByName(Requires[i].to).provides /\ <<Requires[i].to, z>> \in Known
    BY <1>1 DEF IInv, FollowedInv, Seeded, AtHand
  <2>2. Satisfied(Requires[i])
    BY <1>2, <2>1, SatisfiedByName
  <2>3. Followed(pair, Requires[i])
    BY <2>1, <2>2 DEF Followed
  <2> QED
    BY <1>1, <1>4, <2>1, <2>2, SameInput, <1>3 DEF Followed
<1>8. FollowedInv'
  <2>1. 1..(pos' - 1) = 1..(pos - 1) \cup {pos}
    BY <1>1, <1>2
  <2>2. \A i \in 1..(pos' - 1) : Followed(pair, Requires[i])'
    BY <1>4, <1>7, <2>1
  <2> QED
    BY <1>1, <1>4, <2>2 DEF FollowedInv, AtHand
<1> QED
  BY <1>5, <1>6, <1>8 DEF IInv

LEMMA StutterPreserves == IInv /\ UNCHANGED vars => IInv'
<1> SUFFICES ASSUME IInv, UNCHANGED vars PROVE IInv'
  OBVIOUS
<1>1. UNCHANGED <<input, phase, work, processed, pair, pos, pending>>
  BY DEF vars
<1>2. TypeOK'
  BY <1>1 DEF IInv, TypeOK, input, Present, Requires, ByName
<1>3. Known' = Known
  BY <1>1 DEF Known
<1>4. CheckedInv' /\ QueueInv' /\ RefusedInv'
  BY <1>1, <1>3, SameInput DEF IInv, CheckedInv, QueueInv, RefusedInv
<1>5. FollowedInv'
  <2>1. wheels' = wheels /\ Requires' = Requires
    BY <1>1 DEF input, Requires, ByName
  <2>2. \A c, r : Followed(c, r)' <=> Followed(c, r)
    BY <1>1, <1>3, SameInput DEF Followed
  <2>3. \A n : ByName(n)' = ByName(n) /\ Present(n)' = Present(n)
    BY <1>1, SameInput
  <2> QED
    BY <1>1, <1>3, <2>1, <2>2, <2>3 DEF IInv, FollowedInv, Followed, Present, ByName, Satisfied
<1> QED
  BY <1>2, <1>4, <1>5 DEF IInv

\* IInv is inductive.
LEMMA Invariance == Spec => []IInv
<1>1. Init => IInv
  BY InitEstablishes
<1>2. IInv /\ [Next]_vars => IInv'
  <2> SUFFICES ASSUME IInv, [Next]_vars PROVE IInv'
    OBVIOUS
  <2>1. CASE Inspect  BY <2>1, InspectPreserves
  <2>2. CASE Seed  BY <2>2, SeedPreserves
  <2>3. CASE Take  BY <2>3, TakePreserves
  <2>4. CASE Skip  BY <2>4, SkipPreserves
  <2>5. CASE Accept  BY <2>5, AcceptPreserves
  <2>6. CASE Require  BY <2>6, RequirePreserves
  <2>7. CASE Required  BY <2>7, RequiredPreserves
  <2>8. CASE Extra  BY <2>8, ExtraPreserves
  <2>9. CASE ExtrasQueued  BY <2>9, ExtrasQueuedPreserves
  <2>10. CASE UNCHANGED vars  BY <2>10, StutterPreserves
  <2>11. CASE Ended  BY <2>11, StutterPreserves DEF Ended
  <2> QED
    BY <2>1, <2>2, <2>3, <2>4, <2>5, <2>6, <2>7, <2>8, <2>9, <2>10, <2>11 DEF Next
<1> QED
  BY <1>1, <1>2, PTL DEF Spec

\* Every variable keeps its type, and a pair at hand has a wheel, for any
\* wheelhouse (main of validate-release-wheels.py).
THEOREM TypeCorrect == Spec => []TypeOK
<1>1. IInv => TypeOK
  BY DEF IInv
<1> QED
  BY <1>1, Invariance, PTL

\* For any wheelhouse, requirements and extras, circular ones too, and in any
\* order of the extras: what is accepted is the wheelhouses in which all that
\* is needed is satisfied, and no other is refused.
THEOREM AcceptsExactlyCorrect == Spec => []AcceptsExactly
<1>1. IInv => AcceptsExactly
  <2> SUFFICES ASSUME IInv, phase \in {"accepted", "refused"}
               PROVE  phase = "accepted" <=> Acceptable
    BY DEF AcceptsExactly, Acceptable, Asked
  <2>1. CASE phase = "refused"
    BY <2>1 DEF IInv, RefusedInv
  <2>2. CASE phase = "accepted"
    <3>1. /\ TypeOK /\ Checked /\ Asked /\ Distinct /\ work = <<>>
          /\ Known \subseteq Needed /\ Roots \subseteq Known
      BY <2>2 DEF IInv, CheckedInv, QueueInv, Seeded, Checked
    <3>2. Known = processed
      BY <3>1 DEF Known, Range
    <3>3. ASSUME NEW c \in processed, NEW q \in Range(ByName(c[1]).requires)
          PROVE  Followed(c, q)
      BY <2>2 DEF IInv, FollowedInv, Seeded, AtHand
    <3>4. ASSUME NEW c \in processed
          PROVE  /\ \A q \in Activated(c) : Satisfied(q) /\ \A z \in q.extras : <<q.to, z>> \in processed
                 /\ c \in Offered
      <4>1. c \in Offered /\ Present(c[1])
        BY <3>1, <3>2, NeededPresent
      <4> QED
        BY <3>1, <3>2, <3>3, <4>1, ActivatedFacts DEF Followed
    <3>5. Closed(processed)
      <4>1. Roots \cap Offered \subseteq processed
        BY <3>1, <3>2
      <4>2. ASSUME NEW c \in processed, NEW d \in Leads(c) PROVE d \in processed
        <5>1. PICK q \in Activated(c) : q.to = d[1] /\ d[2] \in q.extras
          BY DEF Leads
        <5>2. d = <<d[1], d[2]>>
          BY DEF Leads, Offered, Pairs
        <5> QED
          BY <3>4, <5>1, <5>2
      <4> QED
        BY <4>1, <4>2 DEF Closed
    <3>6. Needed \subseteq processed
      BY <3>4, <3>5, NeededFacts
    <3>7. ASSUME NEW w \in Range(wheels), NEW q \in Range(w.requires) PROVE ~q.bad
      <4>1. <<w.name, NoExtra>> \in processed
        BY <3>1, <3>2 DEF Roots
      <4>2. w = ByName(w.name)
        BY <3>1, ByNameFacts DEF Present
      <4> QED
        BY <3>3, <4>1, <4>2 DEF Followed
    <3> QED
      BY <2>2, <3>1, <3>4, <3>6, <3>7 DEF Acceptable, Checked
  <2> QED
    BY <2>1, <2>2
<1> QED
  BY <1>1, Invariance, PTL

-----------------------------------------------------------------------------
(* Getting nearer to the end.  A step takes a pair that was not taken       *)
(* before, of those that are needed, or it leaves the set of the taken ones *)
(* and goes on in a stage that cannot last.                                 *)

Stage == CASE phase = "inspect" -> 4
           [] phase = "seed" -> 3
           [] phase \in AtHand -> 2
           [] phase = "next" -> 1
           [] OTHER -> 0
\* Of the pair at hand, the requirements that are left, each in two phases, and
\* between the pairs what is queued.
ToGo == CASE phase = "require" -> 2 * (Len(Requires) + 1 - pos) + 1
          [] phase = "extras" -> 2 * (Len(Requires) + 1 - pos)
          [] OTHER -> Len(work)

Nearer ==
  /\ Needed' = Needed /\ processed \subseteq Needed /\ processed' \subseteq Needed
  /\ \/ processed \subseteq processed' /\ processed' # processed
     \/ /\ processed' = processed
        /\ \/ Stage' < Stage
           \/ Stage' = Stage /\ ToGo' < ToGo
           \/ /\ Stage' = Stage /\ ToGo' = ToGo
              /\ pending' \subseteq pending /\ pending' # pending

\* The work that a wheelhouse can make is bounded, whatever circles its extras
\* form and however often a pair is asked for.
AlwaysNearer == [][Nearer]_vars

LEMMA RanksAreNumbers == ASSUME IInv PROVE Stage \in Nat /\ ToGo \in Nat
<1>1. Stage \in Nat
  BY DEF Stage
<1>2. Len(work) \in Nat
  BY DEF IInv, TypeOK
<1>3. CASE phase \in AtHand
  <2>1. Len(Requires) \in Nat /\ pos \in Nat /\ pos <= Len(Requires) + 1
    BY <1>3, AtHandFacts DEF TypeOK, AtHand
  <2>2. \A n \in Nat : pos <= n + 1 => 2 * (n + 1 - pos) \in Nat /\ 2 * (n + 1 - pos) + 1 \in Nat
    BY <2>1
  <2>3. \/ ToGo = 2 * (Len(Requires) + 1 - pos) + 1
        \/ ToGo = 2 * (Len(Requires) + 1 - pos)
    BY <1>3 DEF ToGo, AtHand
  <2> QED
    BY <1>1, <2>1, <2>2, <2>3
<1>4. CASE phase \notin AtHand
  <2>1. ToGo = Len(work)
    BY <1>4 DEF ToGo, AtHand
  <2> QED
    BY <1>1, <1>2, <2>1
<1> QED
  BY <1>1, <1>3, <1>4

LEMMA NearerStep == ASSUME IInv, IInv', Next, vars' # vars PROVE Nearer
<1>1. TypeOK /\ TypeOK'
  BY DEF IInv
<1>2. UNCHANGED input
  BY DEF Next, Inspect, Seed, Take, Skip, Accept, Require, Required, Extra, ExtrasQueued, Ended,
         vars
<1>3. Needed' = Needed
  BY <1>2, SameInput
<1>4. /\ phase \in Seeded \cup {"inspect", "seed"} => processed \subseteq Needed
      /\ phase' \in Seeded => processed' \subseteq Needed
  BY <1>3 DEF IInv, QueueInv, CheckedInv, Known
<1>5. ASSUME UNCHANGED pair PROVE Len(Requires') = Len(Requires)
  BY <1>2, <1>5, SameInput DEF Requires
<1> USE DEF Seeded, AtHand
<1>6. CASE Inspect
  <2>1. Stage' < Stage
    BY <1>6 DEF Inspect, Stage
  <2> QED
    BY <1>3, <1>4, <1>6, <2>1 DEF Inspect, Nearer
<1>7. CASE Seed
  <2>1. Stage' < Stage
    BY <1>7 DEF Seed, Stage
  <2> QED
    BY <1>3, <1>4, <1>7, <2>1 DEF Seed, Nearer
<1>8. CASE Take
  <2>1. /\ phase = "next" /\ phase' = "require"
        /\ processed' = processed \cup {Head(work)} /\ Head(work) \notin processed
    BY <1>8 DEF Take
  <2>2. processed \subseteq processed' /\ processed' # processed
    BY <2>1
  <2> QED
    BY <1>3, <1>4, <2>1, <2>2 DEF Nearer
<1>9. CASE Skip
  <2>1. phase = "next" /\ phase' = "next" /\ work # <<>> /\ work' = Tail(work)
        /\ processed' = processed
    BY <1>9 DEF Skip
  <2>2. Len(work') < Len(work)
    BY <1>1, <2>1 DEF TypeOK
  <2>3. Stage' = Stage /\ ToGo' < ToGo
    BY <2>1, <2>2 DEF Stage, ToGo
  <2> QED
    BY <1>3, <1>4, <2>1, <2>3 DEF Nearer
<1>10. CASE Accept
  <2>1. Stage' < Stage
    BY <1>10 DEF Accept, Stage
  <2> QED
    BY <1>3, <1>4, <1>10, <2>1 DEF Accept, Nearer
<1>11. CASE Require
  <2>1. phase = "require" /\ UNCHANGED <<processed, pair>>
    BY <1>11 DEF Require
  <2>2. Len(Requires) \in Nat /\ pos \in Nat /\ Len(Requires') = Len(Requires)
    BY <1>1, <1>5, <2>1, AtHandFacts DEF TypeOK
  <2>3. \/ phase' = "refused"
        \/ phase' = "require" /\ pos' = pos + 1
        \/ phase' = "extras" /\ pos' = pos
    BY <1>11, <2>1 DEF Require
  <2>4. CASE phase' = "refused"
    <3>1. Stage' < Stage
      BY <2>1, <2>4 DEF Stage
    <3> QED
      BY <1>3, <1>4, <2>1, <3>1 DEF Nearer
  <2>5. CASE phase' = "require" /\ pos' = pos + 1
    <3>1. \A n \in Nat : 2 * (n + 1 - (pos + 1)) + 1 < 2 * (n + 1 - pos) + 1
      BY <2>2
    <3>2. ToGo' < ToGo /\ Stage' = Stage
      BY <2>1, <2>2, <2>5, <3>1 DEF ToGo, Stage
    <3> QED
      BY <1>3, <1>4, <2>1, <3>2 DEF Nearer
  <2>6. CASE phase' = "extras" /\ pos' = pos
    <3>1. \A n \in Nat : 2 * (n + 1 - pos) < 2 * (n + 1 - pos) + 1
      BY <2>2
    <3>2. ToGo' < ToGo /\ Stage' = Stage
      BY <2>1, <2>2, <2>6, <3>1 DEF ToGo, Stage
    <3> QED
      BY <1>3, <1>4, <2>1, <3>2 DEF Nearer
  <2> QED
    BY <2>3, <2>4, <2>5, <2>6
<1>12. CASE Required
  <2>1. Stage' < Stage
    BY <1>12 DEF Required, Stage
  <2> QED
    BY <1>3, <1>4, <1>12, <2>1 DEF Required, Nearer
<1>13. CASE Extra
  <2>1. phase = "extras" /\ UNCHANGED <<processed, pair, pos>>
    BY <1>13 DEF Extra
  <2>2. \/ phase' = "refused"
        \/ phase' = "extras" /\ pending' \subseteq pending /\ pending' # pending
    BY <1>13, <2>1 DEF Extra
  <2>3. CASE phase' = "refused"
    <3>1. Stage' < Stage
      BY <2>1, <2>3 DEF Stage
    <3> QED
      BY <1>3, <1>4, <2>1, <3>1 DEF Nearer
  <2>4. CASE phase' = "extras" /\ pending' \subseteq pending /\ pending' # pending
    <3>1. ToGo' = ToGo /\ Stage' = Stage
      BY <1>5, <2>1, <2>4 DEF ToGo, Stage
    <3> QED
      BY <1>3, <1>4, <2>1, <2>4, <3>1 DEF Nearer
  <2> QED
    BY <2>2, <2>3, <2>4
<1>14. CASE ExtrasQueued
  <2>1. /\ phase = "extras" /\ phase' = "require" /\ pos' = pos + 1
        /\ UNCHANGED <<processed, pair>>
    BY <1>14 DEF ExtrasQueued
  <2>2. Len(Requires) \in Nat /\ pos \in Nat /\ Len(Requires') = Len(Requires)
    BY <1>1, <1>5, <2>1, AtHandFacts DEF TypeOK
  <2>3. \A n \in Nat : 2 * (n + 1 - (pos + 1)) + 1 < 2 * (n + 1 - pos)
    BY <2>2
  <2>4. ToGo' < ToGo /\ Stage' = Stage
    BY <2>1, <2>2, <2>3 DEF ToGo, Stage
  <2> QED
    BY <1>3, <1>4, <2>1, <2>4 DEF Nearer
<1> QED
  BY <1>6, <1>7, <1>8, <1>9, <1>10, <1>11, <1>12, <1>13, <1>14 DEF Next, Ended

\* What an order of sets needs to be well-founded: the pairs that can be needed
\* are finitely many, since each wheel provides finitely many extras.
LEMMA NeededIsFinite ==
  ASSUME TypeOK, \A w \in Range(wheels) : IsFiniteSet(w.provides)
  PROVE  IsFiniteSet(Needed)
<1> DEFINE Of(w) == {<<w.name, z>> : z \in w.provides \cup {NoExtra}}
           Each == {Of(w) : w \in Range(wheels)}
<1>1. ASSUME NEW w \in Range(wheels) PROVE IsFiniteSet(Of(w))
  <2> DEFINE S == w.provides \cup {NoExtra}
             f == [z \in S |-> <<w.name, z>>]
  <2>1. IsFiniteSet(S)
    BY <1>1, FS_AddElement
  <2>2. f \in Surjection(S, Of(w))
    BY DEF Surjection
  <2> QED
    BY <2>1, <2>2, FS_Surjection
<1>2. IsFiniteSet(Range(wheels))
  <2>1. DOMAIN wheels = 1..Len(wheels) /\ Len(wheels) \in Nat
    BY DEF TypeOK
  <2>2. IsFiniteSet(DOMAIN wheels)
    BY <2>1, FS_Interval
  <2>3. wheels \in Surjection(DOMAIN wheels, Range(wheels))
    BY <2>1 DEF Surjection, Range, TypeOK
  <2> QED
    BY <2>2, <2>3, FS_Surjection
<1>3. IsFiniteSet(Each)
  <2> DEFINE g == [w \in Range(wheels) |-> Of(w)]
  <2> HIDE DEF Of
  <2>1. g \in Surjection(Range(wheels), Each)
    BY DEF Surjection
  <2> QED
    BY <1>2, <2>1, FS_Surjection
<1>4. IsFiniteSet(UNION Each)
  BY <1>1, <1>3, FS_UNION
<1>5. Needed \subseteq UNION Each
  <2> SUFFICES ASSUME NEW c \in Needed PROVE \E w \in Range(wheels) : c \in Of(w)
    OBVIOUS
  <2>1. c \in Pairs /\ \E w \in Range(wheels) :
          w.name = c[1] /\ c[2] \in w.provides \cup {NoExtra}
    BY DEF Needed, Offered
  <2>2. c = <<c[1], c[2]>>
    BY <2>1 DEF Pairs
  <2> QED
    BY <2>1, <2>2
<1> QED
  BY <1>4, <1>5, FS_Subset

\* Each step comes nearer to the end in a well-founded order, and the needed
\* pairs, of which one more is taken or none, never change.
THEOREM AlwaysNearerCorrect == Spec => AlwaysNearer
<1>1. IInv /\ IInv' /\ [Next]_vars => [Nearer]_vars
  BY NearerStep
<1> QED
  BY <1>1, Invariance, PTL DEF Spec, AlwaysNearer
===========================================================================

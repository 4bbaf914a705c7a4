--------------------------- MODULE ValidateWheels ---------------------------
(***************************************************************************)
(* scripts/validate-release-wheels.py, which the build container runs      *)
(* before it hands out the project wheel: starting from every wheel and    *)
(* from the extras asked of the project, a queue of (project, extra) pairs *)
(* follows the requirements that each pair activates.  Extras activate     *)
(* requirements that ask for extras, of other wheels, of their own or of   *)
(* the project, in circles too.                                            *)
(*                                                                         *)
(* A wheel is its metadata.  A requirement tells whether it is acceptable  *)
(* at all, under which extras its marker holds on the target, what it asks *)
(* for and whether the version that is there will do.  Names and extras    *)
(* are normalised, and the packaging library is right about versions and   *)
(* markers.                                                                *)
(***************************************************************************)
EXTENDS Naturals, Sequences, Functions

CONSTANTS
  Names,    \* projects, those for which there is no wheel included
  Extras,
  NoExtra,  \* the empty name, under which a wheel is looked at by itself
  Inputs    \* wheelhouses in the order of their file names, the project last

Active == Extras \cup {NoExtra}
Pairs == Names \X Active

Requirement == [bad : BOOLEAN, when : SUBSET Active, to : Names, fits : BOOLEAN,
                extras : SUBSET Extras]
Wheel == [sound : BOOLEAN, python : BOOLEAN, name : Names, provides : SUBSET Extras,
          requires : Seq(Requirement)]

ASSUME NoExtraAssumption == NoExtra \notin Extras
ASSUME InputsAssumption ==
  Inputs \subseteq {in \in [wheels : Seq(Wheel), requested : Seq(Extras)] : in.wheels # <<>>}

VARIABLES
  wheels, requested,
  phase,      \* "inspect", "seed", "next", "require", "extras", "accepted", "refused"
  work,       \* the queue
  processed,
  pair, pos,  \* the pair at hand, and its requirement
  pending     \* the extras of this requirement that are not queued yet: a set,
              \* in the order of its hashes

input == <<wheels, requested>>
vars == <<input, phase, work, processed, pair, pos, pending>>

Project == wheels[Len(wheels)]
\* A function to be applied after the names were found distinct.
ByName(n) == wheels[CHOOSE i \in DOMAIN wheels : wheels[i].name = n]
Present(n) == \E w \in Range(wheels) : w.name = n

Init == /\ \E in \in Inputs : wheels = in.wheels /\ requested = in.requested
        /\ phase = "inspect" /\ work = <<>> /\ processed = {}
        /\ pair = <<Project.name, NoExtra>> /\ pos = 1 /\ pending = {}

-----------------------------------------------------------------------------
Distinct == \A i, j \in DOMAIN wheels : wheels[i].name = wheels[j].name => i = j

\* Every wheel is inspected, and runs on the target Python.
Inspect ==
  /\ phase = "inspect"
  /\ phase' = IF /\ Len(wheels) > 1
                 /\ \A w \in Range(wheels) : w.sound /\ w.python
                 /\ Distinct
              THEN "seed" ELSE "refused"
  /\ UNCHANGED <<input, work, processed, pair, pos, pending>>

Seeds == [i \in 1..(Len(wheels) + Len(requested)) |->
            IF i <= Len(wheels) THEN <<wheels[i].name, NoExtra>>
                                ELSE <<Project.name, requested[i - Len(wheels)]>>]

Seed ==
  /\ phase = "seed"
  /\ IF Range(requested) \subseteq Project.provides
     THEN phase' = "next" /\ work' = Seeds
     ELSE phase' = "refused" /\ UNCHANGED work
  /\ UNCHANGED <<input, processed, pair, pos, pending>>

-----------------------------------------------------------------------------
\* Operators marked [bug] are what the code could plausibly have been; no
\* specification uses them.  They show that the properties can fail.

\* [bug] a pair is taken as often as it is asked for.
TakeAgain ==
  /\ phase = "next" /\ work # <<>>
  /\ pair' = Head(work) /\ work' = Tail(work)
  /\ processed' = processed \cup {pair'}
  /\ phase' = "require" /\ pos' = 1
  /\ UNCHANGED <<input, pending>>

\* [bug] the requirements of a pair are gone through from where the last ended.
TakeWithoutReset ==
  /\ phase = "next" /\ work # <<>> /\ Head(work) \notin processed
  /\ pair' = Head(work) /\ work' = Tail(work)
  /\ processed' = processed \cup {pair'}
  /\ phase' = "require"
  /\ UNCHANGED <<input, pos, pending>>

Take ==
  /\ phase = "next" /\ work # <<>> /\ Head(work) \notin processed
  /\ pair' = Head(work) /\ work' = Tail(work)
  /\ processed' = processed \cup {pair'}
  /\ phase' = "require" /\ pos' = 1
  /\ UNCHANGED <<input, pending>>

\* [bug] a project is looked at under one extra only.
SkipByName ==
  /\ phase = "next" /\ work # <<>>
  /\ \E c \in processed : c = Head(work) \/ (c[1] = Head(work)[1] /\ c[2] # NoExtra)
  /\ work' = Tail(work)
  /\ UNCHANGED <<input, phase, processed, pair, pos, pending>>

Skip ==
  /\ phase = "next" /\ work # <<>> /\ Head(work) \in processed
  /\ work' = Tail(work)
  /\ UNCHANGED <<input, phase, processed, pair, pos, pending>>

Accept ==
  /\ phase = "next" /\ work = <<>>
  /\ phase' = "accepted"
  /\ UNCHANGED <<input, work, processed, pair, pos, pending>>

Requires == ByName(pair[1]).requires

\* One requirement of the pair; what is no good at all is refused even if its
\* marker would not hold.
Require ==
  /\ phase = "require" /\ pos <= Len(Requires)
  /\ LET q == Requires[pos]
         applies == pair[2] \in q.when
         met == Present(q.to) /\ q.fits
     IN \/ (q.bad \/ (applies /\ ~met)) /\ phase' = "refused" /\ UNCHANGED <<pos, pending>>
        \/ ~q.bad /\ ~applies /\ pos' = pos + 1 /\ UNCHANGED <<phase, pending>>
        \/ ~q.bad /\ applies /\ met /\ phase' = "extras" /\ pending' = q.extras /\ UNCHANGED pos
  /\ UNCHANGED <<input, work, processed, pair>>

Required ==
  /\ phase = "require" /\ pos > Len(Requires)
  /\ phase' = "next"
  /\ UNCHANGED <<input, work, processed, pair, pos, pending>>

\* One of the extras that the requirement asks for, and the end of them.
Extra ==
  /\ phase = "extras"
  /\ LET to == Requires[pos].to IN
     \E x \in pending :
       \/ /\ x \in ByName(to).provides
          /\ work' = Append(work, <<to, x>>) /\ pending' = pending \ {x}
          /\ UNCHANGED phase
       \/ /\ x \notin ByName(to).provides
          /\ phase' = "refused" /\ UNCHANGED <<work, pending>>
  /\ UNCHANGED <<input, processed, pair, pos>>

ExtrasQueued ==
  /\ phase = "extras" /\ pending = {}
  /\ phase' = "require" /\ pos' = pos + 1
  /\ UNCHANGED <<input, work, processed, pair, pending>>

Ended == phase \in {"accepted", "refused"} /\ UNCHANGED vars

Next == \/ Inspect \/ Seed \/ Take \/ Skip \/ Accept \/ Require \/ Required
        \/ Extra \/ ExtrasQueued \/ Ended

Spec == Init /\ [][Next]_vars
\* The program runs.
FairSpec == Spec /\ WF_vars(Next)

-----------------------------------------------------------------------------
(* Properties                                                              *)

\* Types; and while a pair is at hand it is one of a wheel that is there.
TypeOK ==
  /\ wheels \in Seq(Wheel) /\ wheels # <<>> /\ requested \in Seq(Extras)
  /\ phase \in {"inspect", "seed", "next", "require", "extras", "accepted", "refused"}
  /\ work \in Seq(Pairs) /\ processed \subseteq Pairs /\ pair \in Pairs
  /\ pos \in Nat \ {0} /\ pending \subseteq Extras
  /\ Present(pair[1])
  /\ phase = "require" => pos <= Len(Requires) + 1
  /\ phase = "extras" => pos <= Len(Requires) /\ pending \subseteq Requires[pos].extras

\* What pip would install: the pairs that a wheel can be asked for, those that
\* one of them activates, and the least set that holds the roots and all that
\* its members activate.
Offered == {a \in Pairs : \E w \in Range(wheels) :
              w.name = a[1] /\ a[2] \in w.provides \cup {NoExtra}}
Activated(a) == {q \in UNION {Range(w.requires) : w \in {v \in Range(wheels) : v.name = a[1]}} :
                   a[2] \in q.when}
Leads(a) == {b \in Offered : \E q \in Activated(a) : q.to = b[1] /\ b[2] \in q.extras}
Roots == {<<w.name, NoExtra>> : w \in Range(wheels)}
            \cup {<<Project.name, x>> : x \in Range(requested)}
Closed(S) == Roots \cap Offered \subseteq S /\ \A a \in S : Leads(a) \subseteq S
Needed == {a \in Offered : \A S \in SUBSET Offered : Closed(S) => a \in S}

Satisfied(q) == \E w \in Range(wheels) : w.name = q.to /\ q.fits /\ q.extras \subseteq w.provides

\* The verdict: wheels are accepted exactly when each is good, no requirement
\* is unacceptable, and everything that the wheels and the requested extras
\* activate, at any distance and in any order, is satisfied by a wheel.
AcceptsExactly ==
  phase \in {"accepted", "refused"} =>
    (phase = "accepted" <=>
       /\ Len(wheels) > 1 /\ Distinct
       /\ \A w \in Range(wheels) : /\ w.sound /\ w.python
                                   /\ \A q \in Range(w.requires) : ~q.bad
       /\ Range(requested) \subseteq Project.provides
       /\ \A a \in Needed : \A q \in Activated(a) : Satisfied(q))

\* It ends, although extras may ask for each other in circles.
Terminates == <>(phase \in {"accepted", "refused"})
=============================================================================

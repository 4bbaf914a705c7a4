--------------------------- MODULE RecoveryProofs ---------------------------
(***************************************************************************)
(* Proofs about Recovery, for any protect runs, any list of shards and any *)
(* limit.                                                                  *)
(*                                                                         *)
(* The cryptographic half is about one list of shards: its combinations    *)
(* are finite in number (HeaderFacts, AskFacts), a header has an           *)
(* authenticating combination exactly when the secret is present under it  *)
(* (AuthenticatingFacts), and then the combinations that authenticate      *)
(* cover exactly the genuine shares.  The other half is the inductive      *)
(* invariant IInv, which says what each phase has established of the list. *)
(***************************************************************************)
EXTENDS Recovery, FiniteSetTheorems, TLAPS

(***************************************************************************)
(* Subsets of a given size.                                                *)
(***************************************************************************)

\* A finite set has a subset of each size up to its own.
LEMMA SubsetOfSize ==
  ASSUME NEW S, IsFiniteSet(S), NEW k \in Nat, k <= Cardinality(S)
  PROVE  \E T \in SUBSET S : IsFiniteSet(T) /\ Cardinality(T) = k
<1>1. PICK f : f \in Bijection(1..Cardinality(S), S)
  BY FS_CardinalityType DEF ExistsBijection
<1> DEFINE T == {f[i] : i \in 1..k}
           g == [i \in 1..k |-> f[i]]
<1>2. 1..k \subseteq 1..Cardinality(S)
  BY FS_CardinalityType
<1>3. T \subseteq S
  BY <1>1, <1>2 DEF Bijection, Injection, Surjection
<1>4. g \in Bijection(1..k, T)
  BY <1>1, <1>2 DEF Bijection, Injection, Surjection, IsInjective
<1>5. IsFiniteSet(1..k) /\ Cardinality(1..k) = k
  BY FS_Interval
<1> HIDE DEF T, g
<1>6. IsFiniteSet(T) /\ Cardinality(T) = k
  BY <1>4, <1>5, FS_Bijection DEF ExistsBijection
<1> QED BY <1>3, <1>6

\* Every element of a large enough set is in some subset of the given size.
LEMMA SubsetWithElement ==
  ASSUME NEW S, IsFiniteSet(S), NEW k \in Nat \ {0}, k <= Cardinality(S), NEW x \in S
  PROVE  \E T \in SUBSET S : IsFiniteSet(T) /\ Cardinality(T) = k /\ x \in T
<1>1. IsFiniteSet(S \ {x}) /\ Cardinality(S \ {x}) = Cardinality(S) - 1
  BY FS_RemoveElement
<1>2. Cardinality(S) \in Nat
  BY FS_CardinalityType
<1>3. PICK T \in SUBSET (S \ {x}) : IsFiniteSet(T) /\ Cardinality(T) = k - 1
  <2>1. k - 1 \in Nat /\ k - 1 <= Cardinality(S \ {x})
    BY <1>1, <1>2
  <2> QED BY <1>1, <2>1, SubsetOfSize
<1>4. IsFiniteSet(T \cup {x}) /\ Cardinality(T \cup {x}) = k
  BY <1>3, FS_AddElement
<1> QED BY <1>3, <1>4

(***************************************************************************)
(* One list of well-formed shards.                                         *)
(***************************************************************************)
GoodList(l) == l \in Seq(Shard) /\ \A p \in DOMAIN l : WellFormed(l[p])
Clean(l, H) == \A h \in H : ~Conflicting(l, h)

\* Of a header of such a list: its parts are in range, its indices are finite
\* in number, and it has a combination exactly when it has enough of them.
LEMMA HeaderFacts ==
  ASSUME NEW l, GoodList(l), NEW h \in HeadersIn(l)
  PROVE  /\ h \in Headers /\ h.threshold \in 2..255
         /\ Indices(l, h) \subseteq 1..255 /\ IsFiniteSet(Indices(l, h))
         /\ Cardinality(Indices(l, h)) \in Nat
         /\ Indices(l, h) # {}
         /\ IsFiniteSet(Combinations(l, h)) /\ Cardinality(Combinations(l, h)) \in Nat
         /\ Combinations(l, h) # {} <=> Enough(l, h)
<1>1. PICK p \in DOMAIN l : h = Header(l[p])
  BY DEF HeadersIn, Range
<1>2. \A q \in DOMAIN l : l[q] \in Shard /\ WellFormed(l[q])
  BY DEF GoodList
<1>3. h \in Headers /\ h.threshold \in 2..255
  BY <1>1, <1>2 DEF Header, Headers, Shard, WellFormed
<1>4. Indices(l, h) \subseteq 1..255
  BY <1>2 DEF Indices, Positions, Shard, WellFormed
<1>5. IsFiniteSet(Indices(l, h)) /\ Cardinality(Indices(l, h)) \in Nat
  <2>1. IsFiniteSet(1..255)
    <3>1. 1 \in Int /\ 255 \in Int
      OBVIOUS
    <3> QED BY <3>1, FS_Interval
  <2> QED BY <1>4, <2>1, FS_Subset, FS_CardinalityType
<1>6. Indices(l, h) # {}
  BY <1>1 DEF Indices, Positions
<1>7. IsFiniteSet(Combinations(l, h)) /\ Cardinality(Combinations(l, h)) \in Nat
  <2>1. IsFiniteSet(SUBSET Indices(l, h))
    BY <1>5, FS_SUBSET
  <2>2. Combinations(l, h) \in SUBSET (SUBSET Indices(l, h))
    BY DEF Combinations, kSubset
  <2> QED BY <2>1, <2>2, FS_Subset, FS_CardinalityType
<1>8. ASSUME Combinations(l, h) # {} PROVE Enough(l, h)
  <2>1. PICK c \in SUBSET Indices(l, h) : Cardinality(c) = h.threshold
    BY <1>8 DEF Combinations, kSubset
  <2>2. Cardinality(c) <= Cardinality(Indices(l, h))
    BY <1>5, FS_Subset
  <2> QED BY <1>3, <1>5, <2>1, <2>2 DEF Enough
<1>9. ASSUME Enough(l, h) PROVE Combinations(l, h) # {}
  <2>1. h.threshold \in Nat /\ h.threshold <= Cardinality(Indices(l, h))
    BY <1>3, <1>5, <1>9 DEF Enough
  <2> QED BY <1>5, <2>1, SubsetOfSize DEF Combinations, kSubset
<1> QED BY <1>3, <1>4, <1>5, <1>6, <1>7, <1>8, <1>9

\* Where duplicates agree, the share kept of an index is any shard that has it.
LEMMA KeyFacts ==
  ASSUME NEW l, NEW h, ~Conflicting(l, h), NEW p \in Positions(l, h)
  PROVE  KeyOf(l, h, l[p].index) = l[p].key
<1> DEFINE i == l[p].index
           Kept == CHOOSE s \in Range(l) : Header(s) = h /\ s.index = i
<1>1. l[p] \in Range(l) /\ Header(l[p]) = h /\ l[p].index = i
  BY DEF Positions, Range
<1>2. Kept \in Range(l) /\ Header(Kept) = h /\ Kept.index = i
  BY <1>1
<1>3. PICK q \in DOMAIN l : l[q] = Kept
  BY <1>2 DEF Range
<1>4. q \in Positions(l, h)
  BY <1>2, <1>3 DEF Positions
<1>5. l[q].key = l[p].key
  BY <1>2, <1>3, <1>4 DEF Conflicting
<1> QED BY <1>3, <1>5 DEF KeyOf

\* A header has an authenticating combination exactly when its secret is
\* present, and such combinations then cover exactly its genuine shares.
LEMMA AuthenticatingFacts ==
  ASSUME NEW l, GoodList(l), NEW h \in HeadersIn(l), ~Conflicting(l, h)
  PROVE  /\ Authenticating(l, h) # {} <=> Present(l, h)
         /\ Present(l, h) => UNION Authenticating(l, h) = GenuineUnder(l, h)
<1> DEFINE G == GenuineUnder(l, h)
<1>1. \A i \in Indices(l, h) : KeyOf(l, h, i) = <<h.body, i>> <=> i \in G
  <2> SUFFICES ASSUME NEW i \in Indices(l, h)
               PROVE  KeyOf(l, h, i) = <<h.body, i>> <=> i \in G
    OBVIOUS
  <2>1. PICK p \in Positions(l, h) : l[p].index = i
    BY DEF Indices
  <2>2. \A q \in Positions(l, h) : l[q].index = i => KeyOf(l, h, i) = l[q].key
    BY KeyFacts
  <2> QED BY <2>1, <2>2 DEF GenuineUnder
<1>2. G \subseteq Indices(l, h)
  BY DEF GenuineUnder
<1>3. /\ h.threshold \in 2..255 /\ IsFiniteSet(Indices(l, h))
      /\ IsFiniteSet(G) /\ Cardinality(G) \in Nat
  BY <1>2, HeaderFacts, FS_Subset, FS_CardinalityType
<1>4. \A c \in Authenticating(l, h) : c \subseteq G /\ Cardinality(c) = h.threshold
  BY <1>1 DEF Authenticating, Authenticates, Combinations, kSubset
<1>5. ASSUME NEW c \in Authenticating(l, h) PROVE Present(l, h)
  <2>1. Sealed(h) /\ Cardinality(c) >= Threshold[h.body]
    BY DEF Authenticating, Authenticates
  <2>2. Cardinality(c) <= Cardinality(G)
    BY <1>3, <1>4, FS_Subset
  <2>3. Threshold[h.body] \in Nat
    BY <2>1, SetsAssumption DEF Sealed
  <2> QED BY <1>3, <1>4, <2>1, <2>2, <2>3 DEF Present
<1>6. ASSUME Present(l, h), NEW i \in G
      PROVE  \E c \in Authenticating(l, h) : i \in c
  <2>1. /\ h.threshold \in Nat \ {0} /\ h.threshold <= Cardinality(G)
        /\ Sealed(h) /\ h.threshold >= Threshold[h.body]
    BY <1>3, <1>6 DEF Present
  <2>2. PICK c \in SUBSET G : Cardinality(c) = h.threshold /\ i \in c
    BY <1>3, <2>1, SubsetWithElement
  <2>3. c \in Combinations(l, h)
    BY <1>2, <2>2 DEF Combinations, kSubset
  <2>4. Authenticates(l, h, c)
    BY <1>1, <1>2, <2>1, <2>2 DEF Authenticates
  <2> QED BY <2>2, <2>3, <2>4 DEF Authenticating
<1>7. ASSUME Present(l, h) PROVE G # {}
  <2>1. Cardinality(G) >= 2
    BY <1>3, <1>7 DEF Present
  <2> QED BY <2>1, FS_EmptySet
<1>8. Present(l, h) => Authenticating(l, h) # {}
  BY <1>6, <1>7
<1>9. Present(l, h) => UNION Authenticating(l, h) = G
  BY <1>4, <1>6
<1> QED BY <1>5, <1>8, <1>9

(***************************************************************************)
(* Counting combinations.                                                  *)
(***************************************************************************)

\* What a finite set of headers asks for grows by the combinations of a header
\* that was not in it.
LEMMA AskGrows ==
  ASSUME NEW l, GoodList(l), NEW H \in SUBSET HeadersIn(l), IsFiniteSet(Ask(l, H)),
         NEW h \in HeadersIn(l), h \notin H
  PROVE  /\ IsFiniteSet(Ask(l, H \cup {h}))
         /\ Cardinality(Ask(l, H \cup {h})) =
              Cardinality(Ask(l, H)) + Cardinality(Combinations(l, h))
<1> DEFINE C == Combinations(l, h)
           N == {h} \X C
<1>1. IsFiniteSet(C) /\ Cardinality(C) \in Nat
  BY HeaderFacts
<1>2. IsFiniteSet(N) /\ Cardinality(N) = Cardinality(C)
  <2>1. IsFiniteSet({h}) /\ Cardinality({h}) = 1
    BY FS_Singleton
  <2>2. IsFiniteSet(N) /\ Cardinality(N) = 1 * Cardinality(C)
    BY <1>1, <2>1, FS_Product
  <2> QED BY <1>1, <2>2
<1>3. Ask(l, H \cup {h}) = Ask(l, H) \cup N
  BY DEF Ask
<1>4. Ask(l, H) \cap N = {}
  BY DEF Ask
<1>5. Cardinality(Ask(l, H)) \in Nat /\ Cardinality(Ask(l, H) \cap N) = 0
  BY <1>4, FS_CardinalityType, FS_EmptySet
<1> HIDE DEF C, N
<1>6. /\ IsFiniteSet(Ask(l, H) \cup N)
      /\ Cardinality(Ask(l, H) \cup N) =
           Cardinality(Ask(l, H)) + Cardinality(N) - Cardinality(Ask(l, H) \cap N)
  BY <1>2, FS_Union
<1>7. Cardinality(Ask(l, H) \cup N) = Cardinality(Ask(l, H)) + Cardinality(C)
  BY <1>1, <1>2, <1>5, <1>6
<1> QED BY <1>3, <1>6, <1>7 DEF C

\* Nothing is asked for by no header.
LEMMA AskNothing ==
  ASSUME NEW l
  PROVE  Ask(l, {}) = {} /\ IsFiniteSet(Ask(l, {})) /\ Cardinality(Ask(l, {})) = 0
<1>1. Ask(l, {}) = {}
  BY DEF Ask
<1> QED BY <1>1, FS_EmptySet

\* One header asks for its combinations.
LEMMA AskOne ==
  ASSUME NEW l, GoodList(l), NEW h \in HeadersIn(l)
  PROVE  Cardinality(Ask(l, {h})) = Cardinality(Combinations(l, h))
<1> DEFINE Nothing == {}
<1>1. /\ Nothing \in SUBSET HeadersIn(l) /\ h \notin Nothing /\ Nothing \cup {h} = {h}
      /\ IsFiniteSet(Ask(l, Nothing)) /\ Cardinality(Ask(l, Nothing)) = 0
  BY AskNothing
<1>2. Cardinality(Combinations(l, h)) \in Nat
  BY HeaderFacts
<1> HIDE DEF Nothing
<1>3. Cardinality(Ask(l, Nothing \cup {h}))
        = Cardinality(Ask(l, Nothing)) + Cardinality(Combinations(l, h))
  BY <1>1, AskGrows
<1>4. Cardinality(Ask(l, Nothing \cup {h})) = Cardinality(Ask(l, {h}))
  BY <1>1
<1>5. 0 + Cardinality(Combinations(l, h)) = Cardinality(Combinations(l, h))
  BY <1>2
<1>6. Cardinality(Ask(l, Nothing)) = 0
  BY <1>1
<1> QED BY <1>3, <1>4, <1>5, <1>6

\* Headers without enough indices ask for nothing.
LEMMA AskOfEnough ==
  ASSUME NEW l, GoodList(l)
  PROVE  Demand(l) = Ask(l, {h \in HeadersIn(l) : Enough(l, h)})
BY HeaderFacts DEF Demand, Ask

\* Fewer headers ask for less.
LEMMA AskLess ==
  ASSUME NEW l, NEW H, NEW I \in SUBSET H, IsFiniteSet(Ask(l, H))
  PROVE  /\ IsFiniteSet(Ask(l, I)) /\ Cardinality(Ask(l, I)) \in Nat
         /\ Cardinality(Ask(l, I)) <= Cardinality(Ask(l, H))
<1>1. Ask(l, I) \in SUBSET Ask(l, H)
  BY DEF Ask
<1> QED BY <1>1, FS_Subset, FS_CardinalityType

(***************************************************************************)
(* The inductive invariant.                                                *)
(***************************************************************************)
First(seq, n) == {seq[p] : p \in 1..n}
Distinct(seq) == \A i, j \in DOMAIN seq : seq[i] = seq[j] => i = j

\* Nothing has been done before its phase.
FreshInv ==
  /\ phase = "start" => groups = <<>>
  /\ phase \in {"start", "parse"} => candidates = <<>> /\ total = 0 /\ rejected = {}
  /\ phase \in {"start", "parse", "dedupe"} => work = 0 /\ succeeded = <<>>
  /\ phase # "done" /\ op # "recover" => verified = NoHeader
  /\ phase # "done" => report = NoReport

\* The headers of the shards parsed so far, each once.
ParseInv ==
  phase = "parse" =>
    /\ supplied # <<>>
    /\ \A p \in 1..(pos - 1) : WellFormed(supplied[p])
    /\ Range(groups) = {Header(supplied[p]) : p \in 1..(pos - 1)}
    /\ Distinct(groups) /\ Len(groups) <= pos - 1

\* All shards are parsed.
Parsing == /\ supplied # <<>> /\ GoodList(supplied)
           /\ Range(groups) = HeadersIn(supplied) /\ Distinct(groups)
           /\ op # "recover" => Len(groups) = 1

\* The groups looked at so far have no conflict, and are sorted.
DedupeInv ==
  phase = "dedupe" =>
    /\ Parsing
    /\ pos <= Len(groups) + 1
    /\ Clean(supplied, First(groups, pos - 1))
    /\ Range(candidates) = {h \in First(groups, pos - 1) : Enough(supplied, h)}
    /\ rejected = {h \in First(groups, pos - 1) : ~Enough(supplied, h)}
    /\ Distinct(candidates) /\ Len(candidates) <= pos - 1
    /\ IsFiniteSet(Ask(supplied, Range(candidates)))
    /\ total = Cardinality(Ask(supplied, Range(candidates)))

\* The search was allowed.
Allowed ==
  /\ supplied # <<>> /\ GoodList(supplied) /\ Clean(supplied, HeadersIn(supplied))
  /\ \E h \in HeadersIn(supplied) : Enough(supplied, h)
  /\ IsFiniteSet(Demand(supplied))
  /\ Cardinality(Demand(supplied)) <= MaxRecoveryCombinations

\* The candidates tried so far are counted and sorted.
SearchInv ==
  phase = "search" =>
    /\ Parsing /\ Allowed
    /\ pos <= Len(candidates) + 1
    /\ Range(candidates) = {h \in HeadersIn(supplied) : Enough(supplied, h)}
    /\ Distinct(candidates)
    /\ work = Cardinality(Ask(supplied, First(candidates, pos - 1)))
    /\ Range(succeeded) = {h \in First(candidates, pos - 1) :
                             Authenticating(supplied, h) # {}}
    /\ Distinct(succeeded) /\ Len(succeeded) <= pos - 1
    /\ rejected = {h \in HeadersIn(supplied) : ~Enough(supplied, h)} \cup
                  {h \in First(candidates, pos - 1) : Authenticating(supplied, h) = {}}

\* Why each outcome came about.
DoneInv ==
  phase = "done" =>
    /\ op = "recover" => outcome \notin {"several sets", "pass", "fail"}
    /\ outcome = "no shards" => supplied = <<>>
    /\ outcome = "malformed" => \E s \in Range(supplied) : ~WellFormed(s)
    /\ outcome = "conflict" => \E h \in HeadersIn(supplied) : Conflicting(supplied, h)
    /\ outcome = "too few" => GoodList(supplied) /\ PresentIn(supplied) = {}
                              /\ \A h \in HeadersIn(supplied) : ~Enough(supplied, h)
    /\ outcome = "limit" => /\ GoodList(supplied)
                            /\ Cardinality(Demand(supplied)) > MaxRecoveryCombinations
    /\ outcome \in {"ok", "ambiguous", "unauthenticated", "pass", "fail"} => Allowed
    /\ outcome = "unauthenticated" => PresentIn(supplied) = {}
    /\ outcome = "ambiguous" => \E g, h \in PresentIn(supplied) : g # h
    /\ outcome = "ok" => /\ PresentIn(supplied) = {report.set}
                         /\ report.suspects = Suspects(supplied, report.set)
                         /\ report.rejected = HeadersIn(supplied) \ {report.set}
    /\ outcome = "pass" => op # "recover" /\ verified # NoHeader
    /\ outcome = "pass" /\ op = "require" => Indices(supplied, verified) = 1..verified.shares

\* What verify-set has found out, and what any choice of its shards keeps.
Sound(l, h) ==
  /\ l # <<>> /\ GoodList(l) /\ HeadersIn(l) = {h}
  /\ Sealed(h) /\ h.threshold >= Threshold[h.body]
  /\ \A p \in DOMAIN l : l[p].key = <<h.body, l[p].index>>
  /\ Cardinality(Combinations(l, h)) <= MaxRecoveryCombinations
VerifiedInv == verified # NoHeader => Sound(supplied, verified)

IInv == /\ TypeOK /\ BoundedWork /\ FreshInv /\ ParseInv /\ DedupeInv
        /\ SearchInv /\ DoneInv /\ VerifiedInv

(***************************************************************************)
(* Lists.                                                                  *)
(***************************************************************************)

\* What Append does to the elements of a list.
LEMMA AppendFacts ==
  ASSUME NEW T, NEW seq \in Seq(T), NEW x \in T
  PROVE  /\ Append(seq, x) \in Seq(T) /\ Len(Append(seq, x)) = Len(seq) + 1
         /\ Range(Append(seq, x)) = Range(seq) \cup {x}
         /\ Distinct(seq) /\ x \notin Range(seq) => Distinct(Append(seq, x))
<1>1. /\ Append(seq, x) \in Seq(T) /\ Len(Append(seq, x)) = Len(seq) + 1
      /\ Len(seq) \in Nat /\ DOMAIN seq = 1..Len(seq)
      /\ DOMAIN Append(seq, x) = 1..(Len(seq) + 1)
      /\ \A i \in 1..Len(seq) : Append(seq, x)[i] = seq[i]
      /\ Append(seq, x)[Len(seq) + 1] = x
  OBVIOUS
<1>2. Range(Append(seq, x)) = Range(seq) \cup {x}
  BY <1>1 DEF Range
<1>3. ASSUME Distinct(seq), x \notin Range(seq)
      PROVE  Distinct(Append(seq, x))
  BY <1>1, <1>3 DEF Distinct, Range
<1> QED BY <1>1, <1>2, <1>3

\* Going through a list one element at a time.
LEMMA FirstNext ==
  ASSUME NEW seq, DOMAIN seq = 1..Len(seq), NEW n \in Nat, n \in 1..Len(seq), Len(seq) \in Nat
  PROVE  /\ seq[n] \in Range(seq) /\ First(seq, n - 1) \subseteq Range(seq)
         /\ First(seq, n) = First(seq, n - 1) \cup {seq[n]}
         /\ Distinct(seq) => seq[n] \notin First(seq, n - 1)
<1>1. 1..n = 1..(n - 1) \cup {n} /\ 1..(n - 1) \subseteq 1..Len(seq)
  OBVIOUS
<1>2. First(seq, n) = First(seq, n - 1) \cup {seq[n]}
  BY <1>1 DEF First
<1>3. Distinct(seq) => seq[n] \notin First(seq, n - 1)
  BY <1>1 DEF First, Distinct
<1>4. seq[n] \in Range(seq) /\ First(seq, n - 1) \subseteq Range(seq)
  BY <1>1 DEF First, Range
<1> QED BY <1>2, <1>3, <1>4

LEMMA FirstAll ==
  ASSUME NEW seq, DOMAIN seq = 1..Len(seq)
  PROVE  First(seq, Len(seq)) = Range(seq) /\ First(seq, 0) = {}
BY DEF First, Range

(***************************************************************************)
(* The steps, one lemma for each.                                          *)
(***************************************************************************)
LEMMA NoReportType ==
  NoReport \in [set : Headers \cup {NoHeader}, suspects : SUBSET Nat,
               duplicates : SUBSET Nat, rejected : SUBSET Headers]
BY DEF NoReport

\* The list supplied, in a state of the right type.
LEMMA SuppliedFacts ==
  ASSUME IInv
  PROVE  /\ Len(supplied) \in Nat /\ DOMAIN supplied = 1..Len(supplied)
         /\ \A p \in 1..Len(supplied) : supplied[p] \in Shard
BY DEF IInv, TypeOK

\* The lists of headers, and what is known of lengths.
LEMMA ListFacts ==
  ASSUME IInv
  PROVE  /\ groups \in Seq(Headers) /\ candidates \in Seq(Headers) /\ succeeded \in Seq(Headers)
         /\ DOMAIN groups = 1..Len(groups) /\ DOMAIN candidates = 1..Len(candidates)
         /\ DOMAIN succeeded = 1..Len(succeeded)
BY DEF IInv, TypeOK

LEMMA LengthFacts ==
  ASSUME IInv
  PROVE  /\ Len(supplied) \in Nat /\ Len(groups) \in Nat /\ Len(candidates) \in Nat
         /\ Len(succeeded) \in Nat
         /\ Len(groups) <= Len(supplied) /\ Len(candidates) <= Len(groups)
         /\ Len(succeeded) <= Len(candidates)
         /\ pos \in Nat \ {0} /\ pos <= Len(supplied) + 1
<1>1. /\ Len(groups) <= Len(supplied) /\ Len(candidates) <= Len(groups)
      /\ Len(succeeded) <= Len(candidates) /\ pos \in 1..(Len(supplied) + 1)
  BY DEF IInv, TypeOK
<1>2. Len(supplied) \in Nat
  BY SuppliedFacts
<1>3. Len(groups) \in Nat /\ Len(candidates) \in Nat /\ Len(succeeded) \in Nat
  BY ListFacts
<1>4. pos \in Nat \ {0} /\ pos <= Len(supplied) + 1
  BY <1>1, <1>2
<1> QED BY <1>1, <1>2, <1>3, <1>4

LEMMA InitEstablishes == Init => IInv
<1> SUFFICES ASSUME Init PROVE IInv
  OBVIOUS
<1>1. supplied \in Seq(Shard)
  BY InputsAssumption DEF Init
<1>2. Len(supplied) \in Nat
  BY <1>1
<1>3. TypeOK
  BY <1>1, <1>2, NoReportType DEF Init, Begin, TypeOK, Phases, Outcomes, None
<1>4. BoundedWork
  BY BoundAssumption DEF Init, Begin, BoundedWork, Refusals, None
<1>5. FreshInv
  BY DEF Init, Begin, FreshInv
<1>6. ParseInv /\ DedupeInv /\ SearchInv /\ DoneInv
  BY DEF Init, Begin, ParseInv, DedupeInv, SearchInv, DoneInv
<1>7. VerifiedInv
  BY DEF Init, VerifiedInv
<1> QED BY <1>3, <1>4, <1>5, <1>6, <1>7 DEF IInv

LEMMA StartPreserves == IInv /\ Start => IInv'
<1> SUFFICES ASSUME IInv, Start PROVE IInv'
  OBVIOUS
<1> USE DEF Start, Given, Tally, Goto, Finish
<1>1. TypeOK'
  <2>1. pos' \in 1..(Len(supplied) + 1)
    <3>1. Len(supplied) \in Nat /\ pos \in 1..(Len(supplied) + 1)
      BY SuppliedFacts DEF IInv, TypeOK
    <3>2. pos' = 1 \/ pos' = pos
      OBVIOUS
    <3> HIDE DEF Start
    <3> QED BY <3>1, <3>2
  <2> QED BY <2>1 DEF IInv, TypeOK, Phases, Outcomes, Refusals, None
<1>2. BoundedWork'
  BY BoundAssumption DEF IInv, FreshInv, BoundedWork, Refusals, TypeOK, None
<1>3. FreshInv'
  BY DEF IInv, FreshInv
<1>4. ParseInv'
  <2> SUFFICES ASSUME phase' = "parse" PROVE ParseInv'
    BY DEF ParseInv
  <2>1. supplied # <<>> /\ pos' = 1 /\ groups' = <<>> /\ supplied' = supplied
    BY DEF IInv, FreshInv
  <2>2. Range(groups') = {} /\ Distinct(groups') /\ Len(groups') = 0 /\ 1..(pos' - 1) = {}
    BY <2>1 DEF Range, Distinct
  <2> QED BY <2>1, <2>2 DEF ParseInv
<1>5. DedupeInv' /\ SearchInv'
  BY DEF DedupeInv, SearchInv
<1>6. DoneInv'
  BY DEF DoneInv
<1>7. VerifiedInv'
  BY DEF IInv, VerifiedInv
<1> QED BY <1>1, <1>2, <1>3, <1>4, <1>5, <1>6, <1>7 DEF IInv

LEMMA ParsePreserves == IInv /\ Parse => IInv'
<1> SUFFICES ASSUME IInv, Parse PROVE IInv'
  OBVIOUS
<1> DEFINE s == supplied[pos]
<1>0. /\ supplied \in Seq(Shard) /\ Len(supplied) \in Nat /\ pos \in 1..Len(supplied)
      /\ DOMAIN supplied = 1..Len(supplied)
      /\ groups \in Seq(Headers) /\ Len(groups) \in Nat
      /\ s \in Shard /\ s \in Range(supplied)
  <2>1. phase = "parse" /\ pos <= Len(supplied)
    BY DEF Parse
  <2>2. pos \in 1..Len(supplied)
    BY <2>1, LengthFacts
  <2>3. supplied \in Seq(Shard)
    BY DEF IInv, TypeOK
  <2> QED BY <2>1, <2>2, <2>3, ListFacts, LengthFacts, SuppliedFacts DEF Range
<1>a. /\ supplied # <<>> /\ \A p \in 1..(pos - 1) : WellFormed(supplied[p])
      /\ Range(groups) = {Header(supplied[p]) : p \in 1..(pos - 1)}
      /\ Distinct(groups) /\ Len(groups) <= pos - 1
  BY DEF IInv, ParseInv, Parse
<1>b. /\ op' = op /\ supplied' = supplied /\ verified' = verified /\ work' = work
      /\ candidates' = candidates /\ total' = total /\ rejected' = rejected
      /\ succeeded' = succeeded /\ report' = report /\ told' = told
  BY DEF Parse, Given, Tally
<1>c. /\ op \in {"recover", "verify", "require"} /\ candidates = <<>> /\ total = 0
      /\ work = 0 /\ succeeded = <<>> /\ rejected = {} /\ outcome = None
      /\ phase = "parse"
  BY DEF IInv, TypeOK, FreshInv, Parse
<1>1. CASE ~WellFormed(s) /\ Finish("malformed") /\ UNCHANGED groups
  <2>1. TypeOK'
    BY <1>1, <1>b DEF IInv, TypeOK, Finish, Phases, Outcomes, Refusals, None
  <2>2. BoundedWork'
    BY <1>1, <1>b, <1>c, BoundAssumption DEF BoundedWork
  <2>3. FreshInv' /\ ParseInv' /\ DedupeInv' /\ SearchInv'
    BY <1>1 DEF FreshInv, ParseInv, DedupeInv, SearchInv, Finish
  <2>4. DoneInv'
    BY <1>0, <1>1, <1>b DEF DoneInv, Finish
  <2>5. VerifiedInv'
    BY <1>b DEF IInv, VerifiedInv
  <2> QED BY <2>1, <2>2, <2>3, <2>4, <2>5 DEF IInv
<1>2. CASE /\ WellFormed(s) /\ pos' = pos + 1 /\ UNCHANGED <<phase, outcome>>
           /\ groups' = IF Header(s) \in Range(groups) THEN groups
                                                      ELSE Append(groups, Header(s))
  <2>1. Header(s) \in Headers
    BY <1>0 DEF Header, Headers, Shard
  <2>2. /\ groups' \in Seq(Headers) /\ Len(groups') \in Nat /\ Len(groups') <= Len(groups) + 1
        /\ Range(groups') = Range(groups) \cup {Header(s)} /\ Distinct(groups')
    <3>1. CASE Header(s) \in Range(groups)
      BY <1>0, <1>2, <1>a, <3>1
    <3>2. CASE Header(s) \notin Range(groups)
      BY <1>0, <1>2, <1>a, <2>1, <3>2, AppendFacts
    <3> QED BY <3>1, <3>2
  <2>3. 1..(pos' - 1) = 1..(pos - 1) \cup {pos} /\ pos' \in 1..(Len(supplied) + 1)
        /\ Len(groups') <= pos' - 1 /\ Len(groups') <= Len(supplied)
    BY <1>0, <1>2, <1>a, <2>2
  <2>4. TypeOK'
    <3>1. Len(candidates') <= Len(groups') /\ Len(succeeded') <= Len(candidates')
      BY <1>b, <1>c, <2>2
    <3> QED BY <1>2, <1>b, <2>2, <2>3, <3>1 DEF IInv, TypeOK
  <2>5. BoundedWork'
    BY <1>2, <1>b, <1>c, BoundAssumption DEF BoundedWork, Refusals, None
  <2>6. FreshInv' /\ DedupeInv' /\ SearchInv' /\ DoneInv'
    BY <1>2, <1>b, <1>c DEF IInv, FreshInv, DedupeInv, SearchInv, DoneInv
  <2>7. ParseInv'
    BY <1>2, <1>a, <1>b, <2>2, <2>3 DEF ParseInv
  <2>8. VerifiedInv'
    BY <1>b DEF IInv, VerifiedInv
  <2> QED BY <2>4, <2>5, <2>6, <2>7, <2>8 DEF IInv
<1> QED BY <1>1, <1>2 DEF Parse

\* What parse has found out when all shards have been looked at.
LEMMA AllParsed ==
  ASSUME IInv, phase = "parse", pos > Len(supplied)
  PROVE  /\ supplied # <<>> /\ GoodList(supplied)
         /\ Range(groups) = HeadersIn(supplied) /\ Distinct(groups)
<1>1. pos - 1 = Len(supplied)
  BY LengthFacts
<1>2. /\ supplied # <<>> /\ \A p \in 1..Len(supplied) : WellFormed(supplied[p])
      /\ Range(groups) = {Header(supplied[p]) : p \in 1..Len(supplied)}
      /\ Distinct(groups)
  BY <1>1 DEF IInv, ParseInv
<1>3. GoodList(supplied)
  BY <1>2, SuppliedFacts DEF GoodList, IInv, TypeOK
<1>4. Range(groups) = HeadersIn(supplied)
  BY <1>2, SuppliedFacts DEF HeadersIn, Range
<1> QED BY <1>2, <1>3, <1>4

LEMMA ParsedPreserves == IInv /\ Parsed => IInv'
<1> SUFFICES ASSUME IInv, Parsed PROVE IInv'
  OBVIOUS
<1>0. /\ op' = op /\ supplied' = supplied /\ verified' = verified /\ work' = work
      /\ candidates' = candidates /\ total' = total /\ rejected' = rejected
      /\ succeeded' = succeeded /\ report' = report /\ told' = told /\ groups' = groups
  BY DEF Parsed, Given, Tally
<1>1. /\ phase = "parse" /\ candidates = <<>> /\ total = 0 /\ work = 0
      /\ succeeded = <<>> /\ rejected = {} /\ outcome = None
      /\ op \in {"recover", "verify", "require"}
  BY DEF Parsed, IInv, FreshInv, TypeOK
<1>2. VerifiedInv'
  BY <1>0 DEF IInv, VerifiedInv
<1>3. CASE op # "recover" /\ Len(groups) # 1 /\ Finish("several sets")
  <2>1. TypeOK'
    BY <1>3, <1>0 DEF IInv, TypeOK, Finish, Phases, Outcomes, Refusals, None
  <2>2. BoundedWork'
    BY <1>0, <1>1, BoundAssumption DEF BoundedWork
  <2>3. FreshInv' /\ ParseInv' /\ DedupeInv' /\ SearchInv' /\ DoneInv'
    BY <1>0, <1>3 DEF FreshInv, ParseInv, DedupeInv, SearchInv, DoneInv, Finish
  <2> QED BY <1>2, <2>1, <2>2, <2>3 DEF IInv
<1>4. CASE Goto("dedupe") /\ UNCHANGED outcome /\ (op # "recover" => Len(groups) = 1)
  <2>1. phase' = "dedupe" /\ pos' = 1 /\ outcome' = outcome
    BY <1>4 DEF Goto
  <2>2. TypeOK'
    <3>1. pos' \in 1..(Len(supplied) + 1)
      BY <2>1, LengthFacts
    <3> QED BY <1>0, <1>1, <2>1, <3>1 DEF IInv, TypeOK, Phases
  <2>3. BoundedWork'
    BY <1>0, <1>1, <2>1, BoundAssumption DEF BoundedWork, Refusals, None
  <2>4. FreshInv' /\ ParseInv' /\ SearchInv' /\ DoneInv'
    BY <1>0, <1>1, <2>1 DEF IInv, FreshInv, ParseInv, SearchInv, DoneInv
  <2>6. Parsing'
    BY <1>0, <1>1, <1>4, AllParsed DEF Parsed, Parsing
  <2>7. First(groups', pos' - 1) = {}
    BY <2>1 DEF First
  <2>8. Range(candidates') = {} /\ Distinct(candidates') /\ Len(candidates') = 0
    BY <1>0, <1>1 DEF Range, Distinct
  <2>9. DedupeInv'
    <3>1. pos' <= Len(groups') + 1 /\ Len(candidates') <= pos' - 1
      BY <1>0, <2>1, <2>8, LengthFacts
    <3>2. /\ Clean(supplied', First(groups', pos' - 1))
          /\ {h \in First(groups', pos' - 1) : Enough(supplied', h)} = {}
          /\ {h \in First(groups', pos' - 1) : ~Enough(supplied', h)} = {}
      BY <2>7 DEF Clean
    <3>3. /\ IsFiniteSet(Ask(supplied', Range(candidates')))
          /\ total' = Cardinality(Ask(supplied', Range(candidates')))
      BY <1>0, <1>1, <2>8, AskNothing
    <3> QED BY <1>0, <1>1, <2>6, <2>8, <3>1, <3>2, <3>3 DEF DedupeInv
  <2> QED BY <1>2, <2>2, <2>3, <2>4, <2>9 DEF IInv
<1> QED BY <1>3, <1>4 DEF Parsed

LEMMA DedupePreserves == IInv /\ Dedupe => IInv'
<1> SUFFICES ASSUME IInv, Dedupe PROVE IInv'
  OBVIOUS
<1> DEFINE h == groups[pos]
           Seen == First(groups, pos - 1)
<1>0. /\ op' = op /\ supplied' = supplied /\ verified' = verified /\ work' = work
      /\ succeeded' = succeeded /\ report' = report /\ told' = told /\ groups' = groups
  BY DEF Dedupe, Given
<1>1. /\ phase = "dedupe" /\ work = 0 /\ succeeded = <<>> /\ outcome = None
      /\ pos \in 1..Len(groups)
  BY LengthFacts DEF Dedupe, IInv, FreshInv, TypeOK
<1>2. VerifiedInv'
  BY <1>0 DEF IInv, VerifiedInv
<1>3. /\ Parsing /\ Clean(supplied, Seen)
      /\ Range(candidates) = {g \in Seen : Enough(supplied, g)}
      /\ rejected = {g \in Seen : ~Enough(supplied, g)}
      /\ Distinct(candidates) /\ Len(candidates) <= pos - 1
      /\ IsFiniteSet(Ask(supplied, Range(candidates)))
      /\ total = Cardinality(Ask(supplied, Range(candidates)))
  BY <1>1 DEF IInv, DedupeInv
<1>4. /\ h \in Headers /\ h \in HeadersIn(supplied) /\ h \notin Seen
      /\ Seen \subseteq HeadersIn(supplied) /\ First(groups, pos) = Seen \cup {h}
  <2>1. pos \in Nat /\ pos \in 1..Len(groups) /\ Len(groups) \in Nat
    BY <1>1, LengthFacts
  <2>2. DOMAIN groups = 1..Len(groups)
    BY ListFacts
  <2>3. /\ groups[pos] \in Range(groups) /\ First(groups, pos - 1) \subseteq Range(groups)
        /\ First(groups, pos) = First(groups, pos - 1) \cup {groups[pos]}
        /\ Distinct(groups) => groups[pos] \notin First(groups, pos - 1)
    BY <2>1, <2>2, FirstNext
  <2>4. groups[pos] \in HeadersIn(supplied)
    BY <1>3, <2>3 DEF Parsing
  <2>5. groups[pos] \in Headers
    BY <1>3, <2>4, HeaderFacts DEF Parsing
  <2> QED BY <1>3, <2>3, <2>4, <2>5 DEF Parsing
<1> HIDE DEF h, Seen
<1>5. CASE Conflicting(supplied, h) /\ Finish("conflict") /\ UNCHANGED <<candidates, total, rejected>>
  <2>1. TypeOK'
    BY <1>0, <1>5 DEF IInv, TypeOK, Finish, Phases, Outcomes, Refusals, None
  <2>2. BoundedWork'
    BY <1>0, <1>1, BoundAssumption DEF BoundedWork
  <2>3. FreshInv' /\ ParseInv' /\ DedupeInv' /\ SearchInv'
    BY <1>0, <1>5 DEF FreshInv, ParseInv, DedupeInv, SearchInv, Finish
  <2>4. DoneInv'
    BY <1>0, <1>4, <1>5 DEF DoneInv, Finish
  <2> QED BY <1>2, <2>1, <2>2, <2>3, <2>4 DEF IInv
<1>6. CASE /\ ~Conflicting(supplied, h) /\ pos' = pos + 1 /\ UNCHANGED <<phase, outcome>>
           /\ IF ~Enough(supplied, h)
              THEN rejected' = rejected \cup {h} /\ UNCHANGED <<candidates, total>>
              ELSE /\ candidates' = Append(candidates, h)
                   /\ total' = total + Cardinality(Combinations(supplied, h))
                   /\ UNCHANGED rejected
  <2>1. First(groups', pos' - 1) = Seen \cup {h} /\ pos' \in 1..(Len(supplied) + 1)
        /\ pos' <= Len(groups') + 1
    <3>1. pos' - 1 = pos
      BY <1>6, LengthFacts
    <3> QED BY <1>0, <1>1, <1>4, <1>6, <3>1, LengthFacts
  <2>2. /\ candidates' \in Seq(Headers) /\ Len(candidates') <= Len(groups')
        /\ Len(candidates') <= pos' - 1 /\ Len(succeeded') <= Len(candidates')
        /\ Distinct(candidates')
        /\ Range(candidates') = {g \in Seen \cup {h} : Enough(supplied, g)}
        /\ rejected' = {g \in Seen \cup {h} : ~Enough(supplied, g)}
        /\ IsFiniteSet(Ask(supplied, Range(candidates')))
        /\ total' = Cardinality(Ask(supplied, Range(candidates')))
    <3>1. Len(succeeded) = 0
      BY <1>1
    <3>2. CASE ~Enough(supplied, h)
      <4>1. candidates' = candidates /\ total' = total /\ rejected' = rejected \cup {h}
        BY <1>6, <3>2
      <4>2. Len(candidates) <= Len(groups') /\ Len(candidates) <= pos' - 1
            /\ Len(succeeded') <= Len(candidates)
        BY <1>0, <1>1, <1>3, <1>6, <3>1, LengthFacts
      <4>3. Range(candidates) = {g \in Seen \cup {h} : Enough(supplied, g)}
        BY <1>3, <3>2
      <4>4. rejected' = {g \in Seen \cup {h} : ~Enough(supplied, g)}
        BY <1>3, <3>2, <4>1
      <4> QED BY <1>3, <4>1, <4>2, <4>3, <4>4, ListFacts
    <3>3. CASE Enough(supplied, h)
      <4>1. h \notin Range(candidates) /\ Range(candidates) \subseteq HeadersIn(supplied)
        BY <1>3, <1>4
      <4>2. /\ candidates' \in Seq(Headers) /\ Len(candidates') = Len(candidates) + 1
            /\ Range(candidates') = Range(candidates) \cup {h} /\ Distinct(candidates')
        <5>1. candidates' = Append(candidates, h)
          BY <1>6, <3>3
        <5>2. candidates \in Seq(Headers) /\ h \in Headers
          BY <1>4, ListFacts
        <5> QED BY <1>3, <4>1, <5>1, <5>2, AppendFacts
      <4>3. /\ IsFiniteSet(Ask(supplied, Range(candidates')))
            /\ total' = Cardinality(Ask(supplied, Range(candidates')))
        BY <1>3, <1>4, <1>6, <3>3, <4>1, <4>2, AskGrows DEF Parsing
      <4>4. Range(candidates') = {g \in Seen \cup {h} : Enough(supplied, g)}
        BY <1>3, <3>3, <4>2
      <4>5. rejected' = {g \in Seen \cup {h} : ~Enough(supplied, g)}
        BY <1>3, <1>6, <3>3
      <4>6. Len(candidates') <= Len(groups') /\ Len(candidates') <= pos' - 1
            /\ Len(succeeded') <= Len(candidates')
        BY <1>0, <1>1, <1>3, <1>6, <3>1, <4>2, LengthFacts
      <4> QED BY <4>2, <4>3, <4>4, <4>5, <4>6
    <3> QED BY <3>2, <3>3
  <2>3. total' \in Nat
    BY <2>2, FS_CardinalityType
  <2>4. rejected' \subseteq Headers
    BY <1>4, <1>6 DEF IInv, TypeOK
  <2>5. TypeOK'
    BY <1>0, <1>6, <2>1, <2>2, <2>3, <2>4 DEF IInv, TypeOK
  <2>6. BoundedWork' /\ FreshInv' /\ ParseInv' /\ SearchInv' /\ DoneInv'
    BY <1>0, <1>1, <1>6, BoundAssumption
       DEF IInv, BoundedWork, FreshInv, ParseInv, SearchInv, DoneInv, Refusals, None
  <2>7. DedupeInv'
    <3>1. Clean(supplied, Seen \cup {h})
      BY <1>3, <1>6 DEF Clean
    <3>2. Parsing'
      BY <1>0, <1>3 DEF Parsing
    <3> QED BY <1>0, <2>1, <2>2, <3>1, <3>2 DEF DedupeInv
  <2> QED BY <1>2, <2>5, <2>6, <2>7 DEF IInv
<1> QED BY <1>5, <1>6 DEF Dedupe, h

\* What dedupe has found out when all groups have been looked at.
LEMMA Deduped ==
  ASSUME IInv, phase = "dedupe", pos > Len(groups)
  PROVE  /\ Parsing /\ Clean(supplied, HeadersIn(supplied))
         /\ Range(candidates) = {h \in HeadersIn(supplied) : Enough(supplied, h)}
         /\ rejected = {h \in HeadersIn(supplied) : ~Enough(supplied, h)}
         /\ Distinct(candidates) /\ Ask(supplied, Range(candidates)) = Demand(supplied)
         /\ IsFiniteSet(Demand(supplied)) /\ total = Cardinality(Demand(supplied))
         /\ work = 0 /\ succeeded = <<>> /\ outcome = None
<1>1. Parsing /\ pos <= Len(groups) + 1
  BY DEF IInv, DedupeInv
<1>2. pos - 1 = Len(groups)
  BY <1>1, LengthFacts
<1>3. First(groups, pos - 1) = HeadersIn(supplied)
  BY <1>1, <1>2, ListFacts, FirstAll DEF Parsing
<1>4. Ask(supplied, {h \in HeadersIn(supplied) : Enough(supplied, h)}) = Demand(supplied)
  BY <1>1, AskOfEnough DEF Parsing
<1>5. work = 0 /\ succeeded = <<>> /\ outcome = None
  BY DEF IInv, FreshInv, TypeOK
<1> QED BY <1>1, <1>3, <1>4, <1>5 DEF IInv, DedupeInv

LEMMA NoCandidatePreserves == IInv /\ NoCandidate => IInv'
<1> SUFFICES ASSUME IInv, NoCandidate PROVE IInv'
  OBVIOUS
<1>0. /\ op' = op /\ supplied' = supplied /\ verified' = verified /\ work' = work
      /\ candidates' = candidates /\ total' = total /\ rejected' = rejected
      /\ succeeded' = succeeded /\ report' = report /\ groups' = groups
      /\ phase' = "done" /\ outcome' = "too few" /\ pos' = pos
      /\ phase = "dedupe" /\ pos > Len(groups) /\ candidates = <<>>
  BY DEF NoCandidate, Given, Tally, Finish
<1>1. /\ GoodList(supplied) /\ work = 0
      /\ \A h \in HeadersIn(supplied) : ~Enough(supplied, h)
      /\ Clean(supplied, HeadersIn(supplied)) /\ Range(groups) = HeadersIn(supplied)
  <2>1. Range(candidates) = {}
    <3>1. candidates = <<>>
      BY <1>0
    <3> QED BY <3>1 DEF Range
  <2> QED BY <1>0, <2>1, Deduped DEF Parsing
<1>2. PresentIn(supplied) = {}
  <2> SUFFICES ASSUME NEW h \in HeadersIn(supplied), Present(supplied, h) PROVE FALSE
    BY DEF PresentIn
  <2>1. Combinations(supplied, h) = {}
    BY <1>1, HeaderFacts
  <2>2. ~Conflicting(supplied, h)
    BY <1>1 DEF Clean
  <2>3. Authenticating(supplied, h) # {}
    BY <1>1, <2>2, AuthenticatingFacts
  <2> QED BY <2>1, <2>3 DEF Authenticating
<1>3. told' \subseteq Nat
  <2>1. CASE op = "recover" /\ Len(groups) = 1
    <3>1. groups[1] \in HeadersIn(supplied)
      BY <1>1, <2>1, ListFacts DEF Range
    <3>2. Indices(supplied, groups[1]) \subseteq 1..255
      BY <1>1, <3>1, HeaderFacts
    <3>3. told' = Duplicates(supplied, groups[1])
      BY <2>1 DEF NoCandidate
    <3> QED BY <3>2, <3>3 DEF Duplicates
  <2>2. CASE ~(op = "recover" /\ Len(groups) = 1)
    BY <2>2 DEF NoCandidate
  <2> QED BY <2>1, <2>2
<1>4. TypeOK'
  BY <1>0, <1>3 DEF IInv, TypeOK, Phases, Outcomes, Refusals, None
<1>5. BoundedWork'
  <2>1. work' = 0
    BY <1>0, <1>1
  <2> QED BY <2>1, BoundAssumption DEF BoundedWork
<1>6. FreshInv' /\ ParseInv' /\ DedupeInv' /\ SearchInv'
  BY <1>0 DEF FreshInv, ParseInv, DedupeInv, SearchInv
<1>7. DoneInv'
  BY <1>0, <1>1, <1>2 DEF DoneInv
<1>8. VerifiedInv'
  BY <1>0 DEF IInv, VerifiedInv
<1> QED BY <1>4, <1>5, <1>6, <1>7, <1>8 DEF IInv

LEMMA BudgetPreserves == IInv /\ Budget => IInv'
<1> SUFFICES ASSUME IInv, Budget PROVE IInv'
  OBVIOUS
<1>0. /\ op' = op /\ supplied' = supplied /\ verified' = verified /\ work' = work
      /\ candidates' = candidates /\ total' = total /\ rejected' = rejected
      /\ succeeded' = succeeded /\ report' = report /\ groups' = groups /\ told' = told
      /\ phase = "dedupe" /\ pos > Len(groups) /\ candidates # <<>>
  BY DEF Budget, Given, Tally
<1>1. /\ Parsing /\ Clean(supplied, HeadersIn(supplied))
      /\ Range(candidates) = {h \in HeadersIn(supplied) : Enough(supplied, h)}
      /\ rejected = {h \in HeadersIn(supplied) : ~Enough(supplied, h)}
      /\ Distinct(candidates) /\ Ask(supplied, Range(candidates)) = Demand(supplied)
      /\ IsFiniteSet(Demand(supplied)) /\ total = Cardinality(Demand(supplied))
      /\ work = 0 /\ succeeded = <<>> /\ outcome = None
  BY <1>0, Deduped
<1>2. VerifiedInv'
  BY <1>0 DEF IInv, VerifiedInv
<1>3. BoundedWork'
  BY <1>0, <1>1, BoundAssumption DEF BoundedWork
<1>4. CASE total > MaxRecoveryCombinations /\ Finish("limit")
  <2>1. phase' = "done" /\ outcome' = "limit" /\ pos' = pos
    BY <1>4 DEF Finish
  <2>2. TypeOK'
    BY <1>0, <2>1 DEF IInv, TypeOK, Phases, Outcomes, Refusals, None
  <2>3. FreshInv' /\ ParseInv' /\ DedupeInv' /\ SearchInv'
    BY <2>1 DEF FreshInv, ParseInv, DedupeInv, SearchInv
  <2>4. DoneInv'
    BY <1>0, <1>1, <1>4, <2>1 DEF DoneInv, Parsing
  <2> QED BY <1>2, <1>3, <2>2, <2>3, <2>4 DEF IInv
<1>5. CASE ~(total > MaxRecoveryCombinations) /\ Goto("search") /\ UNCHANGED outcome
  <2>1. phase' = "search" /\ pos' = 1 /\ outcome' = outcome
    BY <1>5 DEF Goto
  <2>2. TypeOK'
    <3>1. pos' \in 1..(Len(supplied) + 1)
      BY <2>1, LengthFacts
    <3> QED BY <1>0, <1>1, <2>1, <3>1 DEF IInv, TypeOK, Phases
  <2>3. FreshInv' /\ ParseInv' /\ DedupeInv' /\ DoneInv'
    BY <1>0, <2>1 DEF IInv, FreshInv, ParseInv, DedupeInv, DoneInv
  <2>4. Cardinality(Demand(supplied)) <= MaxRecoveryCombinations
    <3>1. total \in Nat /\ MaxRecoveryCombinations \in Nat
      BY BoundAssumption DEF IInv, TypeOK
    <3> QED BY <1>1, <1>5, <3>1
  <2>5. Range(candidates) # {}
    <3>1. 1 \in DOMAIN candidates
      <4>1. Len(candidates) # 0
        BY <1>0, ListFacts
      <4> QED BY <4>1, ListFacts, LengthFacts
    <3> QED BY <3>1 DEF Range
  <2>6. Parsing' /\ Allowed'
    BY <1>0, <1>1, <2>4, <2>5 DEF Parsing, Allowed
  <2>7. First(candidates', pos' - 1) = {}
    BY <2>1 DEF First
  <2>8. work' = Cardinality(Ask(supplied', First(candidates', pos' - 1)))
    BY <1>0, <1>1, <2>7, AskNothing
  <2>9. /\ Range(succeeded') = {} /\ Distinct(succeeded') /\ Len(succeeded') <= pos' - 1
        /\ pos' <= Len(candidates') + 1
    <3>1. succeeded' = <<>> /\ Len(succeeded') = 0
      BY <1>0, <1>1
    <3> QED BY <1>0, <2>1, <3>1, LengthFacts DEF Range, Distinct
  <2>10. SearchInv'
    BY <1>0, <1>1, <2>1, <2>6, <2>7, <2>8, <2>9 DEF SearchInv
  <2> QED BY <1>2, <1>3, <2>2, <2>3, <2>10 DEF IInv
<1> QED BY <1>4, <1>5 DEF Budget

LEMMA SearchPreserves == IInv /\ Search => IInv'
<1> SUFFICES ASSUME IInv, Search PROVE IInv'
  OBVIOUS
<1> DEFINE h == candidates[pos]
           Tried == First(candidates, pos - 1)
           Few == {g \in HeadersIn(supplied) : ~Enough(supplied, g)}
<1>0. /\ op' = op /\ supplied' = supplied /\ verified' = verified
      /\ candidates' = candidates /\ total' = total /\ report' = report /\ groups' = groups
      /\ told' = told /\ phase' = phase /\ outcome' = outcome /\ pos' = pos + 1
      /\ work' = work + Cardinality(Combinations(supplied, h))
      /\ phase = "search" /\ pos <= Len(candidates)
  BY DEF Search, Given, Result
<1>1. /\ Parsing /\ Allowed
      /\ Range(candidates) = {g \in HeadersIn(supplied) : Enough(supplied, g)}
      /\ Distinct(candidates) /\ work = Cardinality(Ask(supplied, Tried))
      /\ Range(succeeded) = {g \in Tried : Authenticating(supplied, g) # {}}
      /\ Distinct(succeeded) /\ Len(succeeded) <= pos - 1
      /\ rejected = Few \cup {g \in Tried : Authenticating(supplied, g) = {}}
  BY <1>0 DEF IInv, SearchInv
<1>2. pos' - 1 = pos /\ pos \in 1..Len(candidates) /\ pos \in Nat
  BY <1>0, LengthFacts
<1>3. /\ h \in Range(candidates) /\ Tried \subseteq Range(candidates)
      /\ First(candidates, pos) = Tried \cup {h} /\ h \notin Tried
  BY <1>1, <1>2, ListFacts, LengthFacts, FirstNext
<1>4. h \in HeadersIn(supplied) /\ Tried \subseteq HeadersIn(supplied) /\ h \in Headers
  <2>1. h \in HeadersIn(supplied) /\ Tried \subseteq HeadersIn(supplied)
    BY <1>1, <1>3
  <2> QED BY <1>1, <2>1, HeaderFacts DEF Parsing
<1>5. /\ First(candidates', pos' - 1) = Tried \cup {h} /\ pos' <= Len(candidates') + 1
      /\ pos' \in 1..(Len(supplied) + 1)
  BY <1>0, <1>2, <1>3, LengthFacts
<1>6. outcome = None
  BY <1>0 DEF IInv, TypeOK
<1> HIDE DEF h, Tried, Few
<1>7. /\ work' = Cardinality(Ask(supplied, Tried \cup {h})) /\ work' \in Nat
      /\ work' <= MaxRecoveryCombinations
  <2>1. IsFiniteSet(Ask(supplied, Tried))
    BY <1>1, <1>4, AskLess DEF Allowed, Demand
  <2>2. work' = Cardinality(Ask(supplied, Tried \cup {h}))
    BY <1>0, <1>1, <1>3, <1>4, <2>1, AskGrows DEF Parsing
  <2>3. Tried \cup {h} \subseteq HeadersIn(supplied)
    BY <1>4
  <2>4. /\ Cardinality(Ask(supplied, Tried \cup {h})) \in Nat
        /\ Cardinality(Ask(supplied, Tried \cup {h})) <= Cardinality(Demand(supplied))
    BY <1>1, <2>3, AskLess DEF Allowed, Demand
  <2>5. Cardinality(Demand(supplied)) \in Nat
    BY <1>1, FS_CardinalityType DEF Allowed
  <2>6. Cardinality(Demand(supplied)) <= MaxRecoveryCombinations
    BY <1>1 DEF Allowed
  <2> QED BY <2>2, <2>4, <2>5, <2>6, BoundAssumption
<1>8. /\ succeeded' \in Seq(Headers) /\ Len(succeeded') <= pos' - 1
      /\ Range(succeeded') = {g \in Tried \cup {h} : Authenticating(supplied, g) # {}}
      /\ Distinct(succeeded')
      /\ rejected' = Few \cup {g \in Tried \cup {h} : Authenticating(supplied, g) = {}}
      /\ rejected' \subseteq Headers
  <2>0. Len(succeeded) + 1 <= pos' - 1 /\ Len(succeeded) <= pos' - 1
    BY <1>1, <1>2, LengthFacts
  <2>1. CASE Authenticating(supplied, h) # {}
    <3>1. succeeded' = Append(succeeded, h) /\ rejected' = rejected
      BY <2>1 DEF Search, h
    <3>2. h \notin Range(succeeded)
      BY <1>1, <1>3
    <3>3. succeeded \in Seq(Headers) /\ rejected \subseteq Headers
      BY DEF IInv, TypeOK
    <3>4. /\ succeeded' \in Seq(Headers) /\ Len(succeeded') = Len(succeeded) + 1
          /\ Range(succeeded') = Range(succeeded) \cup {h} /\ Distinct(succeeded')
      BY <1>1, <1>4, <3>1, <3>2, <3>3, AppendFacts
    <3>5. Range(succeeded') = {g \in Tried \cup {h} : Authenticating(supplied, g) # {}}
      BY <1>1, <2>1, <3>4
    <3>6. rejected' = Few \cup {g \in Tried \cup {h} : Authenticating(supplied, g) = {}}
      BY <1>1, <2>1, <3>1
    <3>7. Len(succeeded') <= pos' - 1
      BY <2>0, <3>4
    <3> QED BY <3>1, <3>3, <3>4, <3>5, <3>6, <3>7
  <2>2. CASE Authenticating(supplied, h) = {}
    <3>1. succeeded' = succeeded /\ rejected' = rejected \cup {h}
      BY <2>2 DEF Search, h
    <3>2. succeeded \in Seq(Headers) /\ rejected \subseteq Headers
      BY DEF IInv, TypeOK
    <3>3. Range(succeeded') = {g \in Tried \cup {h} : Authenticating(supplied, g) # {}}
      BY <1>1, <2>2, <3>1
    <3>4. rejected' = Few \cup {g \in Tried \cup {h} : Authenticating(supplied, g) = {}}
      BY <1>1, <2>2, <3>1
    <3>5. Len(succeeded') <= pos' - 1 /\ Distinct(succeeded')
      BY <1>1, <2>0, <3>1
    <3>6. rejected' \subseteq Headers
      BY <1>4, <3>1, <3>2
    <3> QED BY <3>1, <3>2, <3>3, <3>4, <3>5, <3>6
  <2> QED BY <2>1, <2>2
<1>9. TypeOK'
  <2>1. Len(succeeded') <= Len(candidates')
    <3>1. Len(succeeded') \in Nat
      BY <1>8
    <3>2. Len(succeeded') <= pos' - 1
      BY <1>8
    <3> QED BY <1>0, <1>2, <3>1, <3>2, LengthFacts
  <2> QED BY <1>0, <1>5, <1>7, <1>8, <2>1 DEF IInv, TypeOK
<1>10. BoundedWork'
  BY <1>0, <1>6, <1>7 DEF BoundedWork, Refusals, None
<1>11. FreshInv' /\ ParseInv' /\ DedupeInv' /\ DoneInv'
  BY <1>0 DEF IInv, FreshInv, ParseInv, DedupeInv, DoneInv
<1>12. SearchInv'
  <2>1. Parsing' /\ Allowed'
    BY <1>0, <1>1 DEF Parsing, Allowed
  <2> QED BY <1>0, <1>1, <1>5, <1>7, <1>8, <2>1 DEF SearchInv, Few
<1>13. VerifiedInv'
  BY <1>0 DEF IInv, VerifiedInv
<1> QED BY <1>9, <1>10, <1>11, <1>12, <1>13 DEF IInv

\* What the search has found out when all candidates have been tried.
LEMMA Searched ==
  ASSUME IInv, phase = "search", pos > Len(candidates)
  PROVE  /\ Parsing /\ Allowed /\ outcome = None
         /\ Range(candidates) = {h \in HeadersIn(supplied) : Enough(supplied, h)}
         /\ Range(succeeded) = PresentIn(supplied) /\ Distinct(succeeded)
         /\ rejected = HeadersIn(supplied) \ PresentIn(supplied)
<1>1. /\ Parsing /\ Allowed /\ outcome = None /\ pos <= Len(candidates) + 1
      /\ Range(candidates) = {h \in HeadersIn(supplied) : Enough(supplied, h)}
      /\ Distinct(succeeded)
  BY DEF IInv, SearchInv, TypeOK
<1>2. pos - 1 = Len(candidates)
  BY <1>1, LengthFacts
<1>3. First(candidates, pos - 1) = {h \in HeadersIn(supplied) : Enough(supplied, h)}
  BY <1>1, <1>2, ListFacts, FirstAll
<1>4. \A h \in HeadersIn(supplied) :
        /\ Authenticating(supplied, h) # {} <=> Present(supplied, h)
        /\ Authenticating(supplied, h) # {} => Enough(supplied, h)
  <2> SUFFICES ASSUME NEW h \in HeadersIn(supplied)
               PROVE  /\ Authenticating(supplied, h) # {} <=> Present(supplied, h)
                      /\ Authenticating(supplied, h) # {} => Enough(supplied, h)
    OBVIOUS
  <2>1. GoodList(supplied) /\ ~Conflicting(supplied, h)
    BY <1>1 DEF Parsing, Allowed, Clean
  <2>2. Authenticating(supplied, h) # {} <=> Present(supplied, h)
    BY <2>1, AuthenticatingFacts
  <2>3. Authenticating(supplied, h) # {} => Combinations(supplied, h) # {}
    BY DEF Authenticating
  <2> QED BY <2>1, <2>2, <2>3, HeaderFacts
<1>5. Range(succeeded) = PresentIn(supplied)
  BY <1>3, <1>4 DEF IInv, SearchInv, PresentIn
<1>6. rejected = HeadersIn(supplied) \ PresentIn(supplied)
  BY <1>3, <1>4 DEF IInv, SearchInv, PresentIn
<1> QED BY <1>1, <1>5, <1>6

\* A report has the right type.
LEMMA ReportType ==
  ASSUME GoodList(supplied), NEW h \in HeadersIn(supplied), rejected \subseteq Headers
  PROVE  ReportOn(h) \in [set : Headers \cup {NoHeader}, suspects : SUBSET Nat,
                          duplicates : SUBSET Nat, rejected : SUBSET Headers]
<1>1. h \in Headers /\ \A g \in HeadersIn(supplied) : Indices(supplied, g) \subseteq Nat
  <2>1. h \in Headers
    BY HeaderFacts
  <2>2. \A g \in HeadersIn(supplied) : Indices(supplied, g) \subseteq 1..255
    BY HeaderFacts
  <2> QED BY <2>1, <2>2
<1>2. Suspects(supplied, h) \in SUBSET Nat
  BY <1>1 DEF Suspects
<1>3. Duplicates(supplied, h) \in SUBSET Nat
  BY <1>1 DEF Duplicates
<1> QED BY <1>1, <1>2, <1>3 DEF ReportOn

LEMMA RecoveredPreserves == IInv /\ Recovered => IInv'
<1> SUFFICES ASSUME IInv, Recovered PROVE IInv'
  OBVIOUS
<1>0. /\ op' = op /\ supplied' = supplied /\ verified' = verified /\ work' = work
      /\ candidates' = candidates /\ total' = total /\ rejected' = rejected
      /\ succeeded' = succeeded /\ groups' = groups /\ told' = told
      /\ phase = "search" /\ pos > Len(candidates) /\ op = "recover"
      /\ phase' = "done" /\ pos' = pos
  BY DEF Recovered, Given, Tally, Finish
<1>1. /\ Allowed /\ Range(succeeded) = PresentIn(supplied) /\ Distinct(succeeded)
      /\ rejected = HeadersIn(supplied) \ PresentIn(supplied) /\ GoodList(supplied)
  BY <1>0, Searched DEF Parsing
<1>2. VerifiedInv'
  BY <1>0 DEF IInv, VerifiedInv
<1>3. FreshInv' /\ ParseInv' /\ DedupeInv' /\ SearchInv'
  BY <1>0 DEF FreshInv, ParseInv, DedupeInv, SearchInv
<1>4. outcome' \in {"unauthenticated", "ambiguous", "ok"}
  BY DEF Recovered, Finish
<1>5. BoundedWork'
  BY <1>0, <1>4 DEF IInv, BoundedWork, Refusals
<1>6. Allowed'
  BY <1>0, <1>1 DEF Allowed
<1>7. CASE succeeded = <<>> /\ outcome' = "unauthenticated" /\ report' = report
  <2>1. TypeOK'
    BY <1>0, <1>7 DEF IInv, TypeOK, Phases, Outcomes, None
  <2>2. PresentIn(supplied') = {}
    <3>1. Range(succeeded) = {}
      BY <1>7 DEF Range
    <3> QED BY <1>0, <1>1, <3>1
  <2>3. DoneInv'
    BY <1>0, <1>6, <1>7, <2>2 DEF DoneInv
  <2> QED BY <1>2, <1>3, <1>5, <2>1, <2>3 DEF IInv
<1>8. CASE Len(succeeded) > 1 /\ outcome' = "ambiguous" /\ report' = report
  <2>1. TypeOK'
    BY <1>0, <1>8 DEF IInv, TypeOK, Phases, Outcomes, None
  <2>2. \E g, h \in PresentIn(supplied') : g # h
    <3>1. 1 \in DOMAIN succeeded /\ 2 \in DOMAIN succeeded /\ 1 # 2
      BY <1>8, LengthFacts, ListFacts
    <3>2. succeeded[1] # succeeded[2] /\ succeeded[1] \in Range(succeeded)
          /\ succeeded[2] \in Range(succeeded)
      BY <1>1, <3>1 DEF Distinct, Range
    <3> QED BY <1>0, <1>1, <3>2
  <2>3. DoneInv'
    BY <1>0, <1>6, <1>8, <2>2 DEF DoneInv
  <2> QED BY <1>2, <1>3, <1>5, <2>1, <2>3 DEF IInv
<1>9. CASE Len(succeeded) = 1 /\ outcome' = "ok" /\ report' = ReportOn(succeeded[1])
  <2>1. Range(succeeded) = {succeeded[1]}
    <3>1. DOMAIN succeeded = {1}
      BY <1>9, ListFacts
    <3> QED BY <3>1 DEF Range
  <2>2. succeeded[1] \in HeadersIn(supplied)
    BY <1>1, <2>1 DEF PresentIn
  <2>3. TypeOK'
    <3>1. report' \in [set : Headers \cup {NoHeader}, suspects : SUBSET Nat,
                       duplicates : SUBSET Nat, rejected : SUBSET Headers]
      BY <1>1, <1>9, <2>2, ReportType DEF IInv, TypeOK
    <3> QED BY <1>0, <1>9, <3>1 DEF IInv, TypeOK, Phases, Outcomes, None
  <2>4. /\ report'.set = succeeded[1] /\ report'.rejected = rejected
        /\ report'.suspects = Suspects(supplied, succeeded[1])
    BY <1>9 DEF ReportOn
  <2>5. DoneInv'
    BY <1>0, <1>1, <1>6, <1>9, <2>1, <2>4 DEF DoneInv
  <2> QED BY <1>2, <1>3, <1>5, <2>3, <2>5 DEF IInv
<1> QED BY <1>7, <1>8, <1>9 DEF Recovered, Finish

\* When all combinations of a header authenticate, all its shards are genuine.
LEMMA AllGenuine ==
  ASSUME NEW l, GoodList(l), NEW h \in HeadersIn(l), ~Conflicting(l, h), Enough(l, h),
         Authenticating(l, h) = Combinations(l, h)
  PROVE  /\ Present(l, h) /\ GenuineUnder(l, h) = Indices(l, h)
         /\ \A p \in Positions(l, h) : l[p].key = <<h.body, l[p].index>>
<1>1. Present(l, h) /\ UNION Combinations(l, h) = GenuineUnder(l, h)
  BY HeaderFacts, AuthenticatingFacts
<1>2. ASSUME NEW i \in Indices(l, h) PROVE i \in UNION Combinations(l, h)
  <2>1. /\ IsFiniteSet(Indices(l, h)) /\ h.threshold \in 2..255
        /\ Cardinality(Indices(l, h)) \in Nat
    BY HeaderFacts
  <2>2. h.threshold \in Nat \ {0} /\ h.threshold <= Cardinality(Indices(l, h))
    BY <2>1 DEF Enough
  <2>3. PICK c \in SUBSET Indices(l, h) : Cardinality(c) = h.threshold /\ i \in c
    BY <2>1, <2>2, SubsetWithElement
  <2> QED BY <2>3 DEF Combinations, kSubset
<1>3. GenuineUnder(l, h) = Indices(l, h)
  BY <1>1, <1>2 DEF GenuineUnder
<1>4. ASSUME NEW p \in Positions(l, h) PROVE l[p].key = <<h.body, l[p].index>>
  <2>1. l[p].index \in GenuineUnder(l, h)
    BY <1>3 DEF Indices
  <2> QED BY <2>1 DEF GenuineUnder, Conflicting
<1> QED BY <1>1, <1>3, <1>4

\* verify-set looks at one group, which is then the only candidate.
LEMMA OneCandidate ==
  ASSUME IInv, phase = "search", pos > Len(candidates), op # "recover"
  PROVE  /\ candidates[1] \in HeadersIn(supplied) /\ Enough(supplied, candidates[1])
         /\ HeadersIn(supplied) = {candidates[1]} /\ candidates[1] \in Headers
<1> DEFINE h == candidates[1]
<1>1. /\ Allowed /\ Parsing
      /\ Range(candidates) = {g \in HeadersIn(supplied) : Enough(supplied, g)}
  BY Searched
<1>2. HeadersIn(supplied) = {groups[1]}
  <2>1. DOMAIN groups = {1} /\ Range(groups) = HeadersIn(supplied)
    BY <1>1, ListFacts DEF Parsing
  <2> QED BY <2>1 DEF Range
<1>3. Range(candidates) # {}
  BY <1>1 DEF Allowed
<1>4. 1 \in DOMAIN candidates
  <2>1. DOMAIN candidates # {} /\ DOMAIN candidates = 1..Len(candidates)
    BY <1>3, ListFacts DEF Range
  <2> QED BY <2>1, LengthFacts
<1>5. h \in Range(candidates)
  BY <1>4 DEF Range
<1>6. h \in HeadersIn(supplied) /\ Enough(supplied, h)
  BY <1>1, <1>5
<1> QED BY <1>1, <1>2, <1>6, HeaderFacts DEF Parsing

LEMMA VerifiedPreserves == IInv /\ Verified => IInv'
<1> SUFFICES ASSUME IInv, Verified PROVE IInv'
  OBVIOUS
<1> DEFINE h == candidates[1]
           passed == /\ Authenticating(supplied, h) = Combinations(supplied, h)
                     /\ op = "require" => Indices(supplied, h) = 1..h.shares
<1>0. /\ op' = op /\ supplied' = supplied /\ work' = work
      /\ candidates' = candidates /\ total' = total /\ rejected' = rejected
      /\ succeeded' = succeeded /\ groups' = groups /\ told' = told /\ report' = report
      /\ phase = "search" /\ pos > Len(candidates) /\ op # "recover"
      /\ phase' = "done" /\ pos' = pos
      /\ outcome' = (IF passed THEN "pass" ELSE "fail")
      /\ verified' = (IF passed THEN h ELSE NoHeader)
  BY DEF Verified, Tally, Finish
<1>1. /\ Allowed /\ Parsing
      /\ Range(candidates) = {g \in HeadersIn(supplied) : Enough(supplied, g)}
  BY <1>0, Searched
<1>2. /\ h \in HeadersIn(supplied) /\ Enough(supplied, h) /\ HeadersIn(supplied) = {h}
      /\ h \in Headers
  BY <1>0, OneCandidate
<1> HIDE DEF h
<1>3. TypeOK'
  BY <1>0, <1>2 DEF IInv, TypeOK, Phases, Outcomes, None
<1>4. BoundedWork'
  BY <1>0 DEF IInv, BoundedWork, Refusals
<1>5. FreshInv' /\ ParseInv' /\ DedupeInv' /\ SearchInv'
  BY <1>0 DEF FreshInv, ParseInv, DedupeInv, SearchInv
<1>6. Allowed'
  BY <1>0, <1>1 DEF Allowed
<1>7. DoneInv'
  BY <1>0, <1>2, <1>6, NoHeaderAssumption DEF DoneInv
<1>8. VerifiedInv'
  <2> SUFFICES ASSUME passed PROVE Sound(supplied, h)
    BY <1>0 DEF VerifiedInv
  <2>1. supplied # <<>> /\ GoodList(supplied) /\ ~Conflicting(supplied, h)
    BY <1>1, <1>2 DEF Allowed, Clean
  <2>2. /\ Present(supplied, h)
        /\ \A p \in Positions(supplied, h) : supplied[p].key = <<h.body, supplied[p].index>>
    BY <1>2, <2>1, AllGenuine
  <2>3. \A p \in DOMAIN supplied : p \in Positions(supplied, h)
    BY <1>2 DEF Positions, HeadersIn, Range
  <2>4. Cardinality(Combinations(supplied, h)) <= MaxRecoveryCombinations
    <3>3. Cardinality(Demand(supplied)) = Cardinality(Combinations(supplied, h))
      BY <1>2, <2>1, AskOne DEF Demand
    <3> QED BY <1>1, <3>3 DEF Allowed
  <2> QED BY <1>2, <2>1, <2>2, <2>3, <2>4 DEF Sound, Present
<1> QED BY <1>3, <1>4, <1>5, <1>7, <1>8 DEF IInv

\* What verify-set has found out holds of any list made of the shards verified.
LEMMA SoundForAnyChoice ==
  ASSUME NEW l, NEW h, Sound(l, h), NEW n \in Nat \ {0}, NEW m \in [1..n -> Range(l)]
  PROVE  m \in Seq(Shard) /\ Sound(m, h)
<1>1. /\ l \in Seq(Shard) /\ \A s \in Range(l) : /\ s \in Shard /\ WellFormed(s)
                                                /\ Header(s) = h
                                                /\ s.key = <<h.body, s.index>>
  <2>1. l \in Seq(Shard) /\ GoodList(l) /\ HeadersIn(l) = {h}
        /\ \A p \in DOMAIN l : l[p].key = <<h.body, l[p].index>>
    BY DEF Sound, GoodList
  <2>2. \A p \in DOMAIN l : l[p] \in Shard
    BY <2>1
  <2> QED BY <2>1, <2>2 DEF GoodList, HeadersIn, Range
<1>2. DOMAIN m = 1..n /\ \A p \in 1..n : m[p] \in Range(l)
  OBVIOUS
<1>3. m \in Seq(Shard)
  <2>1. m \in [1..n -> Shard]
    BY <1>1
  <2> QED BY <2>1
<1>4. GoodList(m)
  BY <1>1, <1>2, <1>3 DEF GoodList
<1>5. 1 \in DOMAIN m
  BY <1>2
<1>6. HeadersIn(m) = {h} /\ m # <<>>
  <2>1. m # <<>>
    BY <1>5
  <2> QED BY <1>1, <1>2, <1>5, <2>1 DEF HeadersIn, Range
<1>7. \A p \in DOMAIN m : m[p].key = <<h.body, m[p].index>>
  BY <1>1, <1>2
<1>8. Cardinality(Combinations(m, h)) <= MaxRecoveryCombinations
  <2>1. Indices(m, h) \subseteq Indices(l, h)
    BY <1>1, <1>2 DEF Indices, Positions, Range
  <2>2. Combinations(m, h) \in SUBSET Combinations(l, h)
    BY <2>1 DEF Combinations, kSubset
  <2>3. /\ IsFiniteSet(Combinations(l, h)) /\ Cardinality(Combinations(l, h)) \in Nat
        /\ Cardinality(Combinations(m, h)) \in Nat
    BY <1>4, <1>6, HeaderFacts DEF Sound
  <2>4. Cardinality(Combinations(m, h)) <= Cardinality(Combinations(l, h))
    BY <2>2, <2>3, FS_Subset
  <2>5. Cardinality(Combinations(l, h)) <= MaxRecoveryCombinations
    BY DEF Sound
  <2> QED BY <2>3, <2>4, <2>5, BoundAssumption
<1> QED BY <1>3, <1>4, <1>6, <1>7, <1>8 DEF Sound

LEMMA RedrawPreserves == IInv /\ Redraw => IInv'
<1> SUFFICES ASSUME IInv, Redraw PROVE IInv'
  OBVIOUS
<1>0. /\ op' = "recover" /\ phase' = "start" /\ pos' = 1 /\ groups' = <<>>
      /\ candidates' = <<>> /\ total' = 0 /\ work' = 0 /\ succeeded' = <<>>
      /\ rejected' = {} /\ outcome' = None /\ report' = NoReport /\ told' = {}
      /\ verified' = verified
  BY DEF Redraw
<1>1. Sound(supplied, verified) /\ verified # NoHeader
  BY DEF Redraw, IInv, DoneInv, VerifiedInv
<1>2. PICK n \in 1..Redraws : supplied' \in [1..n -> Range(supplied)]
  BY DEF Redraw
<1>3. supplied' \in Seq(Shard) /\ Sound(supplied', verified)
  <2>1. n \in Nat \ {0}
    BY <1>2, BoundAssumption
  <2> QED BY <1>1, <1>2, <2>1, SoundForAnyChoice
<1>4. TypeOK'
  <2>1. Len(supplied') \in Nat
    BY <1>3
  <2>2. pos' \in 1..(Len(supplied') + 1)
    BY <1>0, <2>1
  <2>3. Len(groups') <= Len(supplied') /\ Len(candidates') <= Len(groups')
        /\ Len(succeeded') <= Len(candidates')
    BY <1>0, <2>1
  <2>4. verified \in Headers \cup {NoHeader}
    BY DEF IInv, TypeOK
  <2> QED BY <1>0, <1>3, <2>2, <2>3, <2>4, NoReportType DEF TypeOK, Phases, Outcomes, None
<1>5. BoundedWork'
  BY <1>0, BoundAssumption DEF BoundedWork, Refusals, None
<1>6. FreshInv' /\ ParseInv' /\ DedupeInv' /\ SearchInv' /\ DoneInv'
  BY <1>0 DEF FreshInv, ParseInv, DedupeInv, SearchInv, DoneInv
<1>7. VerifiedInv'
  BY <1>0, <1>3 DEF VerifiedInv
<1> QED BY <1>4, <1>5, <1>6, <1>7 DEF IInv

LEMMA StutterPreserves == IInv /\ UNCHANGED vars => IInv'
<1> SUFFICES ASSUME IInv, UNCHANGED vars PROVE IInv'
  OBVIOUS
<1> USE DEF vars
<1>1. TypeOK' /\ BoundedWork' /\ FreshInv' /\ VerifiedInv'
  BY DEF IInv, TypeOK, BoundedWork, FreshInv, VerifiedInv
<1>2. ParseInv'
  BY DEF IInv, ParseInv
<1>3. DedupeInv'
  BY DEF IInv, DedupeInv, Parsing
<1>4. SearchInv'
  BY DEF IInv, SearchInv, Parsing, Allowed
<1>5. DoneInv'
  BY DEF IInv, DoneInv, Allowed
<1> QED BY <1>1, <1>2, <1>3, <1>4, <1>5 DEF IInv

(***************************************************************************)
(* The theorems.                                                           *)
(***************************************************************************)

\* The invariant holds in every state of the program.
THEOREM Invariance == Spec => []IInv
<1>1. Init => IInv
  BY InitEstablishes
<1>2. IInv /\ [Next]_vars => IInv'
  <2> SUFFICES ASSUME IInv, [Next]_vars PROVE IInv'
    OBVIOUS
  <2>1. CASE Start
    BY <2>1, StartPreserves
  <2>2. CASE Parse
    BY <2>2, ParsePreserves
  <2>3. CASE Parsed
    BY <2>3, ParsedPreserves
  <2>4. CASE Dedupe
    BY <2>4, DedupePreserves
  <2>5. CASE NoCandidate
    BY <2>5, NoCandidatePreserves
  <2>6. CASE Budget
    BY <2>6, BudgetPreserves
  <2>7. CASE Search
    BY <2>7, SearchPreserves
  <2>8. CASE Recovered
    BY <2>8, RecoveredPreserves
  <2>9. CASE Verified
    BY <2>9, VerifiedPreserves
  <2>10. CASE Redraw
    BY <2>10, RedrawPreserves
  <2>11. CASE Ended \/ UNCHANGED vars
    BY <2>11, StutterPreserves DEF Ended
  <2> QED BY <2>1, <2>2, <2>3, <2>4, <2>5, <2>6, <2>7, <2>8, <2>9, <2>10, <2>11 DEF Next
<1> QED BY <1>1, <1>2, PTL DEF Spec

\* Every variable keeps its type.
THEOREM TypeCorrect == Spec => []TypeOK
<1>1. IInv => TypeOK
  BY DEF IInv
<1> QED BY <1>1, Invariance, PTL

\* The search of all groups together stays within the limit, and refused input
\* costs no cryptographic work.
THEOREM BoundedWorkCorrect == Spec => []BoundedWork
<1>1. IInv => BoundedWork
  BY DEF IInv
<1> QED BY <1>1, Invariance, PTL

\* A list of shards gives a secret exactly when nothing in it is malformed or
\* contradictory, the search fits the limit and exactly one set holds a secret.
THEOREM RecoversTheOnlySetCorrect == Spec => []RecoversTheOnlySet
<1>1. IInv => RecoversTheOnlySet
  <2> SUFFICES ASSUME IInv, op = "recover", phase = "done"
               PROVE  RecoversTheOnlySet
    BY DEF RecoversTheOnlySet
  <2>1. DoneInv /\ outcome \in Outcomes \ {None, "several sets", "pass", "fail"}
    BY DEF IInv, DoneInv, TypeOK
  <2>2. ASSUME outcome = "ok"
        PROVE  /\ supplied # <<>>
               /\ \A s \in Range(supplied) : WellFormed(s)
               /\ \A h \in HeadersIn(supplied) : ~Conflicting(supplied, h)
               /\ Cardinality(Demand(supplied)) \in 1..MaxRecoveryCombinations
               /\ PresentIn(supplied) = {report.set}
    <3>1. Allowed /\ PresentIn(supplied) = {report.set}
      BY <2>1, <2>2 DEF DoneInv
    <3>2. Cardinality(Demand(supplied)) \in Nat \ {0}
      <4>1. Demand(supplied) # {}
        <5>1. GoodList(supplied)
          BY <3>1 DEF Allowed
        <5>2. PICK g \in HeadersIn(supplied) : Enough(supplied, g)
          BY <3>1 DEF Allowed
        <5>3. Combinations(supplied, g) # {}
          BY <5>1, <5>2, HeaderFacts
        <5>4. PICK c : c \in Combinations(supplied, g)
          BY <5>3
        <5>5. <<g, c>> \in {g} \X Combinations(supplied, g)
          BY <5>4
        <5> QED BY <5>5 DEF Demand, Ask
      <4> QED BY <3>1, <4>1, FS_CardinalityType, FS_EmptySet DEF Allowed
    <3>3. Cardinality(Demand(supplied)) \in 1..MaxRecoveryCombinations
      BY <3>1, <3>2, BoundAssumption DEF Allowed
    <3> QED BY <3>1, <3>3 DEF Allowed, GoodList, Clean, Range
  <2>3. ASSUME supplied # <<>>,
               \A s \in Range(supplied) : WellFormed(s),
               \A h \in HeadersIn(supplied) : ~Conflicting(supplied, h),
               Cardinality(Demand(supplied)) \in 1..MaxRecoveryCombinations,
               NEW h \in HeadersIn(supplied), PresentIn(supplied) = {h}
        PROVE  outcome = "ok"
    <3>1. outcome \notin {"no shards", "malformed", "conflict"}
      BY <2>1, <2>3 DEF DoneInv
    <3>2. outcome \notin {"too few", "unauthenticated", "ambiguous"}
      BY <2>1, <2>3 DEF DoneInv
    <3>3. outcome # "limit"
      <4>1. ~(Cardinality(Demand(supplied)) > MaxRecoveryCombinations)
        BY <2>3, BoundAssumption
      <4> QED BY <2>1, <4>1 DEF DoneInv
    <3> QED BY <2>1, <3>1, <3>2, <3>3 DEF Outcomes, Refusals
  <2> QED BY <2>2, <2>3 DEF RecoversTheOnlySet, PresentIn
<1> QED BY <1>1, Invariance, PTL

\* Of a set whose secret is present, the suspects are exactly the indices in the
\* list for which it has no genuine share.
LEMMA SuspectsExact ==
  ASSUME NEW l, GoodList(l), NEW h \in HeadersIn(l), ~Conflicting(l, h), Present(l, h)
  PROVE  Suspects(l, h) = {s.index : s \in Range(l)} \ GenuineUnder(l, h)
<1>1. UNION Authenticating(l, h) = GenuineUnder(l, h)
  BY AuthenticatingFacts
<1>2. {s.index : s \in Range(l)} = UNION {Indices(l, g) : g \in HeadersIn(l)}
  BY DEF Indices, Positions, HeadersIn, Range
<1>3. GenuineUnder(l, h) \subseteq Indices(l, h)
  BY DEF GenuineUnder
<1> QED BY <1>1, <1>2, <1>3 DEF Suspects

\* The report accuses exactly the indices without a genuine share.
THEOREM ReportExactCorrect == Spec => []ReportExact
<1>1. IInv => ReportExact
  <2> SUFFICES ASSUME IInv, outcome = "ok" PROVE ReportExact
    BY DEF ReportExact
  <2>1. /\ Allowed /\ PresentIn(supplied) = {report.set}
        /\ report.suspects = Suspects(supplied, report.set)
        /\ report.rejected = HeadersIn(supplied) \ {report.set}
    BY DEF IInv, DoneInv, TypeOK, None
  <2>2. report.set \in HeadersIn(supplied) /\ Present(supplied, report.set)
    BY <2>1 DEF PresentIn
  <2> QED BY <2>1, <2>2, SuspectsExact DEF ReportExact, Allowed, Clean
<1> QED BY <1>1, Invariance, PTL

\* After verify-set has passed, any threshold of the shards recovers that set.
THEOREM VerifiedRecoversCorrect == Spec => []VerifiedRecovers
<1>1. IInv => VerifiedRecovers
  <2> SUFFICES ASSUME IInv PROVE VerifiedRecovers
    OBVIOUS
  <2> DEFINE v == verified
  <2>1. ASSUME verified # NoHeader
        PROVE  /\ Sound(supplied, v) /\ v \in HeadersIn(supplied)
               /\ ~Conflicting(supplied, v)
               /\ GenuineUnder(supplied, v) = Indices(supplied, v)
               /\ Cardinality(Demand(supplied)) <= MaxRecoveryCombinations
               /\ Present(supplied, v) <=> Enough(supplied, v)
    <3>1. Sound(supplied, v) /\ v \in HeadersIn(supplied) /\ GoodList(supplied)
      BY <2>1 DEF IInv, VerifiedInv, Sound
    <3>2. ~Conflicting(supplied, v)
      BY <3>1 DEF Sound, Conflicting, Positions
    <3>3. GenuineUnder(supplied, v) = Indices(supplied, v)
      BY <3>1 DEF Sound, GenuineUnder, Indices, Positions
    <3>4. Cardinality(Demand(supplied)) <= MaxRecoveryCombinations
      BY <3>1, AskOne DEF Sound, Demand
    <3>5. Present(supplied, v) <=> Enough(supplied, v)
      BY <3>1, <3>3 DEF Sound, Present, Enough
    <3> QED BY <3>1, <3>2, <3>3, <3>4, <3>5
  <2>2. ASSUME op = "recover", verified # NoHeader, phase = "done"
        PROVE  IF Enough(supplied, v) THEN outcome = "ok" /\ report.set = v
                                      ELSE outcome = "too few"
    <3>1. DoneInv /\ outcome \in Outcomes \ {None, "several sets", "pass", "fail"}
      BY <2>2 DEF IInv, DoneInv, TypeOK
    <3>2. /\ supplied # <<>> /\ GoodList(supplied) /\ HeadersIn(supplied) = {v}
          /\ ~Conflicting(supplied, v)
          /\ PresentIn(supplied) = IF Enough(supplied, v) THEN {v} ELSE {}
      BY <2>1, <2>2 DEF Sound, PresentIn
    <3>3. outcome \notin {"no shards", "malformed", "conflict"}
      BY <2>2, <3>1, <3>2 DEF DoneInv, GoodList, Range
    <3>4. outcome # "limit"
      <4>1. Cardinality(Demand(supplied)) \in Nat
        BY <2>1, <2>2, <3>2, AskOne, HeaderFacts DEF Demand
      <4>2. ~(Cardinality(Demand(supplied)) > MaxRecoveryCombinations)
        BY <2>1, <2>2, <4>1, BoundAssumption
      <4> QED BY <2>2, <3>1, <4>2 DEF DoneInv
    <3>5. CASE Enough(supplied, v)
      <4>1. outcome = "ok"
        BY <2>2, <3>1, <3>2, <3>3, <3>4, <3>5 DEF DoneInv, Outcomes, Refusals
      <4> QED BY <2>2, <3>1, <3>2, <3>5, <4>1 DEF DoneInv
    <3>6. CASE ~Enough(supplied, v)
      <4>1. ~Allowed
        BY <3>2, <3>6 DEF Allowed
      <4> QED BY <2>2, <3>1, <3>3, <3>4, <3>6, <4>1 DEF DoneInv, Outcomes, Refusals
    <3> QED BY <3>5, <3>6
  <2>3. ASSUME op = "require", outcome = "pass", verified.version = 2
        PROVE  GenuineUnder(supplied, v) = 1..Shares[v.body]
    <3>1. verified # NoHeader /\ Indices(supplied, v) = 1..v.shares
      BY <2>3 DEF IInv, DoneInv, TypeOK, None
    <3>2. v.shares = Shares[v.body]
      BY <2>1, <2>3, <3>1 DEF Sound, Sealed
    <3> QED BY <2>1, <3>1, <3>2
  <2> QED BY <2>2, <2>3 DEF VerifiedRecovers
<1> QED BY <1>1, Invariance, PTL

(***************************************************************************)
(* The refinement: the phases together are one step of OneAnswer.          *)
(***************************************************************************)

\* All combinations of a header authenticate exactly when its secret is present
\* and all its shards are genuine.
LEMMA IntactFacts ==
  ASSUME NEW l, GoodList(l), NEW h \in HeadersIn(l), ~Conflicting(l, h), Enough(l, h)
  PROVE  Authenticating(l, h) = Combinations(l, h)
           <=> Present(l, h) /\ GenuineUnder(l, h) = Indices(l, h)
<1>1. ASSUME Present(l, h), GenuineUnder(l, h) = Indices(l, h), NEW c \in Combinations(l, h)
      PROVE  Authenticates(l, h, c)
  <2>1. c \subseteq Indices(l, h) /\ Cardinality(c) = h.threshold
    BY DEF Combinations, kSubset
  <2>2. \A i \in c : KeyOf(l, h, i) = <<h.body, i>>
    <3> SUFFICES ASSUME NEW i \in c PROVE KeyOf(l, h, i) = <<h.body, i>>
      OBVIOUS
    <3>1. PICK p \in Positions(l, h) : l[p].index = i /\ l[p].key = <<h.body, i>>
      BY <1>1, <2>1 DEF GenuineUnder
    <3> QED BY <3>1, KeyFacts
  <2> QED BY <1>1, <2>1, <2>2 DEF Present, Authenticates
<1>2. Present(l, h) /\ GenuineUnder(l, h) = Indices(l, h)
        => Authenticating(l, h) = Combinations(l, h)
  BY <1>1 DEF Authenticating
<1> QED BY <1>2, AllGenuine

\* A request that has not come to its end has not been answered.
LEMMA Unanswered ==
  ASSUME IInv, phase # "done"
  PROVE  outcome = None /\ report = NoReport /\ AnswerGiven = Plain(None)
<1>1. outcome = None /\ report = NoReport
  BY DEF IInv, TypeOK, FreshInv
<1> QED BY <1>1 DEF AnswerGiven, Plain, Answer, NoReport, None

\* Going on changes nothing that is promised.
LEMMA GoingOnStutters ==
  ASSUME IInv, phase # "done", op' = op, supplied' = supplied, outcome' = outcome, report' = report
  PROVE  UNCHANGED Promise!vars
<1>1. outcome # "pass" /\ outcome' # "pass"
  BY Unanswered DEF None
<1> QED BY <1>1 DEF Promise!vars, AnswerGiven

\* Ending with the verdict is the answer promised.
LEMMA EndingAnswers ==
  ASSUME IInv, phase # "done", op' = op, supplied' = supplied,
         outcome' # None, AnswerGiven' = VerdictOn(op, supplied)
  PROVE  Promise!Decide
<1>1. AnswerGiven = Plain(None)
  BY Unanswered
<1>2. AnswerGiven' # Plain(None)
  <2>1. AnswerGiven'.outcome = outcome' /\ Plain(None).outcome = None
    BY DEF AnswerGiven, Plain, Answer
  <2> QED BY <2>1
<1> QED BY <1>1, <1>2 DEF Promise!Decide

\* Ending with a reason to refuse is the answer promised when it is the first.
LEMMA RefusingAnswers ==
  ASSUME IInv, phase # "done", op' = op, supplied' = supplied, report' = report,
         outcome' = RefusalOf(op, supplied), outcome' \in Refusals
  PROVE  Promise!Decide
<1>1. outcome' # None /\ outcome' # "pass" /\ report' = NoReport
  BY Unanswered DEF Refusals, None
<1>2. AnswerGiven' = Plain(outcome')
  BY <1>1 DEF AnswerGiven, Plain, Answer, NoReport
<1>3. VerdictOn(op, supplied) = Plain(outcome')
  BY <1>1 DEF VerdictOn
<1> QED BY <1>1, <1>2, <1>3, EndingAnswers

\* What parse has established, of the list alone.
LEMMA ParsingFacts ==
  ASSUME IInv, Parsing
  PROVE  /\ supplied # <<>> /\ \A s \in Range(supplied) : WellFormed(s)
         /\ op # "recover" => \E h \in HeadersIn(supplied) : HeadersIn(supplied) = {h}
<1>1. ASSUME op # "recover"
      PROVE  \E h \in HeadersIn(supplied) : HeadersIn(supplied) = {h}
  <2>1. DOMAIN groups = {1} /\ Range(groups) = HeadersIn(supplied)
    BY <1>1, ListFacts DEF Parsing
  <2>2. HeadersIn(supplied) = {groups[1]}
    BY <2>1 DEF Range
  <2> QED BY <2>2
<1> QED BY <1>1 DEF Parsing, GoodList, Range

\* Each way to end gives the answer promised; each other step goes on.
LEMMA StartMaps == ASSUME IInv, Start PROVE Promise!Decide \/ UNCHANGED Promise!vars
<1>0. phase = "start" /\ op' = op /\ supplied' = supplied /\ report' = report
  BY DEF Start, Given
<1>1. CASE supplied = <<>> /\ outcome' = "no shards"
  BY <1>0, <1>1, RefusingAnswers DEF RefusalOf, Refusals
<1>2. CASE outcome' = outcome
  BY <1>0, <1>2, GoingOnStutters
<1> QED BY <1>1, <1>2 DEF Start, Finish

LEMMA ParseMaps == ASSUME IInv, Parse PROVE Promise!Decide \/ UNCHANGED Promise!vars
<1>0. /\ phase = "parse" /\ op' = op /\ supplied' = supplied /\ report' = report
      /\ supplied # <<>> /\ supplied[pos] \in Range(supplied)
  <2>1. pos \in DOMAIN supplied
    BY SuppliedFacts, LengthFacts DEF Parse
  <2> QED BY <2>1 DEF Parse, Given, IInv, ParseInv, Range
<1>1. CASE ~WellFormed(supplied[pos]) /\ outcome' = "malformed"
  <2>1. outcome' = RefusalOf(op, supplied)
    BY <1>0, <1>1 DEF RefusalOf
  <2> QED BY <1>0, <1>1, <2>1, RefusingAnswers DEF Refusals
<1>2. CASE outcome' = outcome
  BY <1>0, <1>2, GoingOnStutters
<1> QED BY <1>1, <1>2 DEF Parse, Finish

LEMMA ParsedMaps == ASSUME IInv, Parsed PROVE Promise!Decide \/ UNCHANGED Promise!vars
<1>0. phase = "parse" /\ op' = op /\ supplied' = supplied /\ report' = report
  BY DEF Parsed, Given
<1>1. CASE op # "recover" /\ Len(groups) # 1 /\ outcome' = "several sets"
  <2>1. /\ supplied # <<>> /\ \A s \in Range(supplied) : WellFormed(s)
        /\ Range(groups) = HeadersIn(supplied) /\ Distinct(groups)
    BY <1>0, AllParsed DEF Parsed, GoodList, Range
  <2>2. ASSUME NEW h, HeadersIn(supplied) = {h} PROVE FALSE
    <3>1. /\ \A i, j \in 1..Len(groups) : i = j
          /\ 1..Len(groups) # {}
      BY <2>1, <2>2, ListFacts DEF Range, Distinct
    <3>2. Len(groups) \in Nat /\ Len(groups) # 0 /\ Len(groups) # 1
      <4>1. Len(groups) \in Nat
        BY LengthFacts
      <4>2. Len(groups) # 0
        BY <3>1
      <4> QED BY <1>1, <4>1, <4>2
    <3>3. 1 \in 1..Len(groups) /\ 2 \in 1..Len(groups)
      <4>1. \A n \in Nat : n # 0 /\ n # 1 => 1 \in 1..n /\ 2 \in 1..n
        OBVIOUS
      <4> QED BY <3>2, <4>1
    <3> QED BY <3>1, <3>3
  <2>3. outcome' = RefusalOf(op, supplied)
    BY <1>1, <2>1, <2>2 DEF RefusalOf
  <2> QED BY <1>0, <1>1, <2>3, RefusingAnswers DEF Refusals
<1>2. CASE outcome' = outcome
  BY <1>0, <1>2, GoingOnStutters
<1> QED BY <1>1, <1>2 DEF Parsed, Finish

LEMMA DedupeMaps == ASSUME IInv, Dedupe PROVE Promise!Decide \/ UNCHANGED Promise!vars
<1>0. /\ phase = "dedupe" /\ op' = op /\ supplied' = supplied /\ report' = report
      /\ Parsing /\ groups[pos] \in HeadersIn(supplied)
  <2>1. pos \in DOMAIN groups
    BY ListFacts, LengthFacts DEF Dedupe
  <2> QED BY <2>1 DEF Dedupe, Given, IInv, DedupeInv, Parsing, Range
<1>1. CASE Conflicting(supplied, groups[pos]) /\ outcome' = "conflict"
  <2>1. outcome' = RefusalOf(op, supplied)
    BY <1>0, <1>1, ParsingFacts DEF RefusalOf
  <2> QED BY <1>0, <1>1, <2>1, RefusingAnswers DEF Refusals
<1>2. CASE outcome' = outcome
  BY <1>0, <1>2, GoingOnStutters
<1> QED BY <1>1, <1>2 DEF Dedupe, Finish

LEMMA NoCandidateMaps == ASSUME IInv, NoCandidate PROVE Promise!Decide
<1>0. /\ phase = "dedupe" /\ op' = op /\ supplied' = supplied /\ report' = report
      /\ outcome' = "too few" /\ pos > Len(groups) /\ candidates = <<>>
  BY DEF NoCandidate, Given, Tally, Finish
<1>1. /\ Parsing /\ Clean(supplied, HeadersIn(supplied))
      /\ \A h \in HeadersIn(supplied) : ~Enough(supplied, h)
  <2>1. Range(candidates) = {}
    <3>1. candidates = <<>>
      BY <1>0
    <3> QED BY <3>1 DEF Range
  <2> QED BY <1>0, <2>1, Deduped
<1>2. outcome' = RefusalOf(op, supplied)
  BY <1>0, <1>1, ParsingFacts DEF RefusalOf, Clean
<1> QED BY <1>0, <1>2, RefusingAnswers DEF Refusals

LEMMA BudgetMaps == ASSUME IInv, Budget PROVE Promise!Decide \/ UNCHANGED Promise!vars
<1>0. /\ phase = "dedupe" /\ op' = op /\ supplied' = supplied /\ report' = report
      /\ pos > Len(groups) /\ candidates # <<>>
  BY DEF Budget, Given, Tally
<1>1. CASE total > MaxRecoveryCombinations /\ outcome' = "limit"
  <2>1. /\ Parsing /\ Clean(supplied, HeadersIn(supplied))
        /\ Range(candidates) = {h \in HeadersIn(supplied) : Enough(supplied, h)}
        /\ total = Cardinality(Demand(supplied))
    BY <1>0, Deduped
  <2>2. \E h \in HeadersIn(supplied) : Enough(supplied, h)
    <3>1. 1 \in DOMAIN candidates
      <4>1. Len(candidates) # 0
        BY <1>0, ListFacts
      <4> QED BY <4>1, ListFacts, LengthFacts
    <3> QED BY <2>1, <3>1 DEF Range
  <2>3. outcome' = RefusalOf(op, supplied)
    BY <1>1, <2>1, <2>2, ParsingFacts DEF RefusalOf, Clean
  <2> QED BY <1>0, <1>1, <2>3, RefusingAnswers DEF Refusals
<1>2. CASE outcome' = outcome
  BY <1>0, <1>2, GoingOnStutters
<1> QED BY <1>1, <1>2 DEF Budget, Finish

\* A search that was allowed is not refused.
LEMMA AllowedIsNotRefused ==
  ASSUME IInv, Parsing, Allowed
  PROVE  RefusalOf(op, supplied) = None
<1>1. ~(Cardinality(Demand(supplied)) > MaxRecoveryCombinations)
  <2>1. Cardinality(Demand(supplied)) \in Nat
    BY FS_CardinalityType DEF Allowed
  <2> QED BY <2>1, BoundAssumption DEF Allowed
<1> QED BY <1>1, ParsingFacts DEF RefusalOf, Allowed, Clean

LEMMA RecoveredMaps == ASSUME IInv, Recovered PROVE Promise!Decide
<1>0. /\ phase = "search" /\ op' = op /\ supplied' = supplied /\ op = "recover"
      /\ pos > Len(candidates) /\ outcome' \in {"unauthenticated", "ambiguous", "ok"}
  BY DEF Recovered, Given, Finish
<1>1. /\ Parsing /\ Allowed /\ Range(succeeded) = PresentIn(supplied)
      /\ Distinct(succeeded) /\ rejected = HeadersIn(supplied) \ PresentIn(supplied)
  BY <1>0, Searched
<1>2. RefusalOf(op, supplied) = None
  BY <1>1, AllowedIsNotRefused
<1>6. report = NoReport
  BY <1>0, Unanswered
<1>3. CASE succeeded = <<>> /\ outcome' = "unauthenticated" /\ report' = report
  <2>1. PresentIn(supplied) = {}
    <3>1. Range(succeeded) = {}
      BY <1>3 DEF Range
    <3> QED BY <1>1, <3>1
  <2>2. VerdictOn(op, supplied) = Plain("unauthenticated")
    BY <1>0, <1>2, <2>1 DEF VerdictOn
  <2>3. AnswerGiven' = Plain("unauthenticated")
    BY <1>6, <1>0, <1>3 DEF AnswerGiven, Plain, Answer, NoReport
  <2> QED BY <1>0, <1>3, <2>2, <2>3, EndingAnswers DEF None
<1>4. CASE Len(succeeded) > 1 /\ outcome' = "ambiguous" /\ report' = report
  <2>1. PresentIn(supplied) # {} /\ \A h : PresentIn(supplied) # {h}
    <3>1. 1 \in DOMAIN succeeded /\ 2 \in DOMAIN succeeded /\ 1 # 2
      BY <1>4, LengthFacts, ListFacts
    <3>2. succeeded[1] # succeeded[2] /\ succeeded[1] \in Range(succeeded)
          /\ succeeded[2] \in Range(succeeded)
      BY <1>1, <3>1 DEF Distinct, Range
    <3> QED BY <1>1, <3>2
  <2>2. VerdictOn(op, supplied) = Plain("ambiguous")
    BY <1>0, <1>2, <2>1 DEF VerdictOn
  <2>3. AnswerGiven' = Plain("ambiguous")
    BY <1>6, <1>0, <1>4 DEF AnswerGiven, Plain, Answer, NoReport
  <2> QED BY <1>0, <1>4, <2>2, <2>3, EndingAnswers DEF None
<1>5. CASE Len(succeeded) = 1 /\ outcome' = "ok" /\ report' = ReportOn(succeeded[1])
  <2> DEFINE h == succeeded[1]
  <2>1. PresentIn(supplied) = {h}
    <3>1. DOMAIN succeeded = {1}
      BY <1>5, ListFacts
    <3> QED BY <1>1, <3>1 DEF Range
  <2>2. h \in HeadersIn(supplied) /\ Present(supplied, h)
    BY <2>1 DEF PresentIn
  <2> HIDE DEF h
  <2>3. VerdictOn(op, supplied) = SecretOf(supplied, h)
    <3>1. (CHOOSE g \in {h} : TRUE) = h
      OBVIOUS
    <3> QED BY <1>0, <1>2, <2>1, <3>1 DEF VerdictOn
  <2>4. Suspects(supplied, h) = {s.index : s \in Range(supplied)} \ GenuineUnder(supplied, h)
    BY <1>1, <2>2, SuspectsExact DEF Allowed, Clean
  <2>5. /\ report'.set = h /\ report'.suspects = Suspects(supplied, h)
        /\ report'.rejected = HeadersIn(supplied) \ {h}
    BY <1>1, <1>5, <2>1 DEF ReportOn, h
  <2>6. AnswerGiven' = SecretOf(supplied, h)
    BY <1>5, <2>4, <2>5 DEF AnswerGiven, SecretOf, Answer
  <2> QED BY <1>0, <1>5, <2>3, <2>6, EndingAnswers DEF None
<1> QED BY <1>3, <1>4, <1>5 DEF Recovered, Finish

LEMMA VerifiedMaps == ASSUME IInv, Verified PROVE Promise!Decide
<1> DEFINE h == candidates[1]
           passed == /\ Authenticating(supplied, h) = Combinations(supplied, h)
                     /\ op = "require" => Indices(supplied, h) = 1..h.shares
<1>0. /\ phase = "search" /\ op' = op /\ supplied' = supplied /\ report' = report
      /\ pos > Len(candidates) /\ op # "recover"
      /\ outcome' = (IF passed THEN "pass" ELSE "fail")
      /\ verified' = (IF passed THEN h ELSE NoHeader)
  BY DEF Verified, Finish
<1>1. /\ Parsing /\ Allowed /\ HeadersIn(supplied) = {h} /\ Enough(supplied, h)
      /\ RefusalOf(op, supplied) = None
  BY <1>0, Searched, OneCandidate, AllowedIsNotRefused
<1> HIDE DEF h
<1>6. report = NoReport
  BY <1>0, Unanswered
<1>2. passed <=> Intact(op, supplied, h)
  <2>1. Authenticating(supplied, h) = Combinations(supplied, h)
          <=> Present(supplied, h) /\ GenuineUnder(supplied, h) = Indices(supplied, h)
    BY <1>1, IntactFacts DEF Allowed, Clean
  <2> QED BY <2>1 DEF Intact
<1>3. CASE passed
  <2>1. IntactIn(op, supplied) = {h}
    BY <1>1, <1>2, <1>3 DEF IntactIn
  <2>2. VerdictOn(op, supplied) = Answer("pass", h, {}, {})
    <3>1. (CHOOSE g \in {h} : TRUE) = h
      OBVIOUS
    <3> QED BY <1>0, <1>1, <2>1, <3>1 DEF VerdictOn
  <2>3. AnswerGiven' = Answer("pass", h, {}, {})
    BY <1>6, <1>0, <1>3 DEF AnswerGiven, NoReport, Answer
  <2> QED BY <1>0, <1>3, <2>2, <2>3, EndingAnswers DEF None
<1>4. CASE ~passed
  <2>1. IntactIn(op, supplied) = {}
    BY <1>1, <1>2, <1>4 DEF IntactIn
  <2>2. VerdictOn(op, supplied) = Plain("fail")
    BY <1>0, <1>1, <2>1 DEF VerdictOn
  <2>3. AnswerGiven' = Plain("fail")
    BY <1>6, <1>0, <1>4 DEF AnswerGiven, NoReport, Plain, Answer
  <2> QED BY <1>0, <1>4, <2>2, <2>3, EndingAnswers DEF None
<1> QED BY <1>3, <1>4

LEMMA RedrawMaps == ASSUME IInv, Redraw PROVE Promise!AskAgain
<1>1. AnswerGiven.outcome = "pass" /\ op' = "recover"
  BY DEF Redraw, AnswerGiven, Answer
<1>2. AnswerGiven' = Plain(None)
  BY DEF Redraw, AnswerGiven, Plain, Answer, NoReport, None
<1>3. supplied' \in Seq({supplied[p] : p \in DOMAIN supplied})
  <2>1. PICK n \in 1..Redraws : supplied' \in [1..n -> Range(supplied)]
    BY DEF Redraw
  <2>2. n \in Nat
    BY BoundAssumption
  <2>3. supplied' \in Seq(Range(supplied))
    BY <2>1, <2>2
  <2> QED BY <2>3 DEF Range
<1> QED BY <1>1, <1>2, <1>3 DEF Promise!AskAgain

\* Recover and verify-set answer as if in one step, by what the list holds.
THEOREM ImplementsOneAnswerCorrect == Spec => ImplementsOneAnswer
<1>1. Init => Promise!Init
  <2> SUFFICES ASSUME Init PROVE Promise!Init
    OBVIOUS
  <2>1. AnswerGiven = Plain(None)
    BY DEF Init, Begin, AnswerGiven, Plain, Answer, NoReport, None
  <2> QED BY <2>1, InputsAssumption DEF Init, Promise!Init
<1>2. IInv /\ [Next]_vars => [Promise!Next]_Promise!vars
  <2> SUFFICES ASSUME IInv, [Next]_vars
               PROVE  Promise!Next \/ UNCHANGED Promise!vars
    OBVIOUS
  <2>1. CASE Start \/ Parse \/ Parsed \/ Dedupe \/ Budget
    BY <2>1, StartMaps, ParseMaps, ParsedMaps, DedupeMaps, BudgetMaps DEF Promise!Next
  <2>2. CASE NoCandidate \/ Recovered \/ Verified
    BY <2>2, NoCandidateMaps, RecoveredMaps, VerifiedMaps DEF Promise!Next
  <2>3. CASE Search
    BY <2>3, GoingOnStutters DEF Search, Given, Result
  <2>4. CASE Redraw
    BY <2>4, RedrawMaps DEF Promise!Next
  <2>5. CASE Ended \/ UNCHANGED vars
    BY <2>5 DEF Ended, vars, Promise!vars, AnswerGiven
  <2> QED BY <2>1, <2>2, <2>3, <2>4, <2>5 DEF Next
<1> QED BY <1>1, <1>2, Invariance, PTL DEF Spec, ImplementsOneAnswer, Promise!Spec

(***************************************************************************)
(* The order and the number of the shards.                                 *)
(***************************************************************************)

\* What is said of the indices of a header depends on the set of the shards.
Of(S, h) == {s \in S : Header(s) = h}
IndicesOf(S, h) == {s.index : s \in Of(S, h)}
ConflictOf(S, h) == \E s, t \in Of(S, h) : s.index = t.index /\ s.key # t.key
GenuineOf(S, h) == {i \in IndicesOf(S, h) : \E s \in Of(S, h) :
                      s.index = i /\ s.key = <<h.body, i>>}

LEMMA OfTheSetOfShards ==
  ASSUME NEW l, NEW h
  PROVE  /\ Indices(l, h) = IndicesOf(Range(l), h)
         /\ Conflicting(l, h) <=> ConflictOf(Range(l), h)
         /\ GenuineUnder(l, h) = GenuineOf(Range(l), h)
<1>1. /\ \A p \in Positions(l, h) : l[p] \in Of(Range(l), h)
      /\ \A s \in Of(Range(l), h) : \E p \in Positions(l, h) : s = l[p]
  BY DEF Positions, Of, Range
<1>2. Indices(l, h) = IndicesOf(Range(l), h)
  BY <1>1 DEF Indices, IndicesOf
<1>3. Conflicting(l, h) <=> ConflictOf(Range(l), h)
  BY <1>1 DEF Conflicting, ConflictOf
<1>4. GenuineUnder(l, h) = GenuineOf(Range(l), h)
  BY <1>1, <1>2 DEF GenuineUnder, GenuineOf
<1> QED BY <1>2, <1>3, <1>4

\* Two lists of the same shards, in another order or repeated in another number,
\* get the same answer from each operation.
THEOREM OrderDoesNotMatter ==
  ASSUME NEW l \in Seq(Shard), NEW m \in Seq(Shard), Range(l) = Range(m), NEW o
  PROVE  VerdictOn(o, l) = VerdictOn(o, m)
<1>1. (l = <<>>) <=> (m = <<>>)
  BY DEF Range
<1>2. HeadersIn(l) = HeadersIn(m)
  BY DEF HeadersIn
<1>3. \A h : Indices(l, h) = Indices(m, h)
  BY OfTheSetOfShards
<1>4. \A h : Conflicting(l, h) <=> Conflicting(m, h)
  BY OfTheSetOfShards
<1>5. \A h : GenuineUnder(l, h) = GenuineUnder(m, h)
  BY OfTheSetOfShards
<1>6. \A h : /\ Enough(l, h) <=> Enough(m, h)
             /\ Present(l, h) <=> Present(m, h)
             /\ Intact(o, l, h) <=> Intact(o, m, h)
             /\ SecretOf(l, h) = SecretOf(m, h)
  BY <1>2, <1>3, <1>5 DEF Enough, Present, Intact, SecretOf
<1>7. Demand(l) = Demand(m)
  BY <1>2, <1>3 DEF Demand, Ask, Combinations
<1>8. RefusalOf(o, l) = RefusalOf(o, m)
  BY <1>1, <1>2, <1>4, <1>6, <1>7 DEF RefusalOf
<1>9. PresentIn(l) = PresentIn(m) /\ IntactIn(o, l) = IntactIn(o, m)
  BY <1>2, <1>6 DEF PresentIn, IntactIn
<1>10. SecretOf(l, CHOOSE h \in PresentIn(l) : TRUE)
         = SecretOf(m, CHOOSE h \in PresentIn(m) : TRUE)
  BY <1>6, <1>9
<1> QED BY <1>8, <1>9, <1>10 DEF VerdictOn

=============================================================================

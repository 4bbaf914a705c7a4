------------------------------ MODULE Recovery ------------------------------
(***************************************************************************)
(* Recovering a secret from SHRD shards: core.recover_with_report (and the *)
(* wrapper core.recover that every command calls) and                      *)
(* core.verify_complete_set with its command verify-set.                   *)
(*                                                                         *)
(* Shards come from several protect runs, in any order and number, and may *)
(* have been damaged or relabelled in any field.  A shard is a record of   *)
(* its parsed fields; the nonce, tag and ciphertext are one field, body,   *)
(* that names the run it was sealed by or is a damaged one, and the two    *)
(* 16-byte key shares are one field, key, that is a damaged one or         *)
(* <<run, index>>.  The cipher and the sharing are ideal: a key decrypts a *)
(* body only when it was made from enough key shares of the body's run,    *)
(* each under its own index, and the associated data is the one it was     *)
(* sealed with.  Then the plaintext is the run's secret, so that two       *)
(* combinations of one group never give two plaintexts (the check of       *)
(* _recover_group for that has nothing to find and is left out).  The      *)
(* limit is the one all callers use, a constant above zero.                *)
(***************************************************************************)
EXTENDS Naturals, Sequences, FiniteSets, FiniteSetsExt

CONSTANTS
  Sets,              \* protect runs
  Threshold, Shares, \* k and n of each run
  Version,           \* format version of each run; 1 is the legacy format
  Damaged,           \* values no run has produced
  NoHeader,          \* no header
  Inputs,            \* the lists of shards that may be supplied
  Redraws,           \* the longest list drawn from a verified set
  MaxRecoveryCombinations

\* Everything parse_shard may be given; exact says that the text is base64 of
\* a shard with the right magic and exactly its claimed length.
Shard == [exact : BOOLEAN, version : Nat, threshold : Nat, shares : Nat, index : Nat,
          body : Sets \cup Damaged, key : (Sets \X Nat) \cup Damaged]

ASSUME SetsAssumption ==
  /\ Sets \cap Damaged = {} /\ (Sets \X Nat) \cap Damaged = {}
  /\ \A r \in Sets : /\ Version[r] \in {1, 2} /\ Shares[r] \in 2..255
                     /\ Threshold[r] \in 2..Shares[r]
ASSUME InputsAssumption == Inputs \subseteq Seq(Shard)
ASSUME BoundAssumption == MaxRecoveryCombinations \in Nat \ {0} /\ Redraws \in Nat

VARIABLES
  op,         \* "recover", "verify", or "require": verify with --require-complete
  supplied,   \* the shards given
  phase, pos, \* the phase, and the next element of the list it goes through
  groups,     \* distinct headers in order of appearance
  candidates, \* headers with at least a threshold of distinct indices
  total,      \* combinations that the candidates ask for
  work,       \* combinations tried: each costs an interpolation and a decryption
  succeeded, rejected,  \* headers under which some, or no, combination authenticated
  outcome,
  report,     \* what RecoveryMetadata says of the result
  told,       \* duplicate indices that the caller of core.recover is told of
  verified    \* the header of the set that verify-set has passed

vars == <<op, supplied, phase, pos, groups, candidates, total, work, succeeded,
          rejected, outcome, report, told, verified>>

None == "none"
Phases == {"start", "parse", "dedupe", "search", "done"}
Refusals == {"no shards", "limit", "malformed", "several sets", "conflict", "too few"}
Outcomes == {None, "ok", "ambiguous", "unauthenticated", "pass", "fail"} \cup Refusals

-----------------------------------------------------------------------------
\* parse_shard succeeds.
WellFormed(s) == /\ s.exact /\ s.version \in {1, 2}
                 /\ s.threshold \in 2..s.shares /\ s.shares <= 255
                 /\ s.index \in 1..s.shares

\* _shared_key: what the shards of one run agree on.
Header(s) == [version |-> s.version, threshold |-> s.threshold, shares |-> s.shares,
              body |-> s.body]
Headers == [version : Nat, threshold : Nat, shares : Nat, body : Sets \cup Damaged]
ASSUME NoHeaderAssumption == NoHeader \notin Headers

\* What follows is said of a list l of well-formed shards.
HeadersIn(l) == {Header(s) : s \in Range(l)}
Positions(l, h) == {p \in DOMAIN l : Header(l[p]) = h}
Indices(l, h) == {l[p].index : p \in Positions(l, h)}
\* The shard that _dedupe_group keeps of an index: they all hold the same key.
KeyOf(l, h, i) == (CHOOSE s \in Range(l) : Header(s) = h /\ s.index = i).key

Conflicting(l, h) ==
  \E p, q \in Positions(l, h) : l[p].index = l[q].index /\ l[p].key # l[q].key
Duplicates(l, h) ==
  {i \in Indices(l, h) : \E p, q \in Positions(l, h) :
                           p # q /\ l[p].index = i /\ l[q].index = i}

Enough(l, h) == Cardinality(Indices(l, h)) >= h.threshold
Combinations(l, h) == kSubset(h.threshold, Indices(l, h))

\* The header is one the body was sealed under: version 1 did not bind it.
Sealed(h) ==
  /\ h.body \in Sets
  /\ h.version = Version[h.body]
  /\ h.version = 2 => h.threshold = Threshold[h.body] /\ h.shares = Shares[h.body]

Authenticates(l, h, c) ==
  /\ Sealed(h)
  /\ Cardinality(c) >= Threshold[h.body]
  /\ \A i \in c : KeyOf(l, h, i) = <<h.body, i>>

Authenticating(l, h) == {c \in Combinations(l, h) : Authenticates(l, h, c)}

\* recover_with_report: indices in no successful combination, and indices that
\* only other groups hold.
Suspects(l, h) ==
  LET outside == UNION {Indices(l, g) : g \in HeadersIn(l) \ {h}}
  IN  (Indices(l, h) \ UNION Authenticating(l, h)) \cup (outside \ Indices(l, h))

-----------------------------------------------------------------------------
ReportOn(h) == [set |-> h, suspects |-> Suspects(supplied, h),
                duplicates |-> Duplicates(supplied, h), rejected |-> rejected]
NoReport == [set |-> NoHeader, suspects |-> {}, duplicates |-> {},
             rejected |-> {}]

Begin == /\ phase = "start" /\ pos = 1 /\ groups = <<>> /\ candidates = <<>>
         /\ total = 0 /\ work = 0 /\ succeeded = <<>> /\ rejected = {}
         /\ outcome = None /\ report = NoReport /\ told = {}

Init == /\ op \in {"recover", "verify", "require"}
        /\ supplied \in Inputs
        /\ verified = NoHeader
        /\ Begin

Goto(next) == phase' = next /\ pos' = 1
Finish(result) == phase' = "done" /\ outcome' = result /\ UNCHANGED pos
Given == <<op, supplied, verified>>
Tally == <<total, candidates, work, succeeded, rejected>>
Result == <<outcome, report, told>>

Start ==
  /\ phase = "start"
  /\ \/ supplied = <<>> /\ Finish("no shards")
     \/ supplied # <<>> /\ Goto("parse") /\ UNCHANGED outcome
  /\ UNCHANGED <<Given, Tally, groups, report, told>>

Parse ==
  /\ phase = "parse" /\ pos <= Len(supplied)
  /\ LET s == supplied[pos] IN
     \/ ~WellFormed(s) /\ Finish("malformed") /\ UNCHANGED groups
     \/ /\ WellFormed(s)
        /\ groups' = IF Header(s) \in Range(groups) THEN groups
                                                    ELSE Append(groups, Header(s))
        /\ pos' = pos + 1
        /\ UNCHANGED <<phase, outcome>>
  /\ UNCHANGED <<Given, Tally, report, told>>

\* Operators marked [bug] are what the code could plausibly have been; no
\* specification uses them.  They show that the properties can fail.

\* [bug] verify-set takes the first set, whatever else is in the list.
ParsedAnySets ==
  /\ phase = "parse" /\ pos > Len(supplied)
  /\ Goto("dedupe")
  /\ UNCHANGED <<Given, Tally, groups, outcome, report, told>>

Parsed ==
  /\ phase = "parse" /\ pos > Len(supplied)
  /\ IF op # "recover" /\ Len(groups) # 1
     THEN Finish("several sets")
     ELSE Goto("dedupe") /\ UNCHANGED outcome
  /\ UNCHANGED <<Given, Tally, groups, report, told>>

\* [bug] a group too small to be recovered is skipped before its duplicates
\* are compared.
DedupeCandidatesOnly ==
  /\ phase = "dedupe" /\ pos <= Len(groups)
  /\ LET h == groups[pos] IN
     IF ~Enough(supplied, h)
     THEN /\ rejected' = rejected \cup {h} /\ pos' = pos + 1
          /\ UNCHANGED <<phase, outcome, candidates, total>>
     ELSE \/ Conflicting(supplied, h) /\ Finish("conflict") /\ UNCHANGED <<candidates, total, rejected>>
          \/ /\ ~Conflicting(supplied, h)
             /\ candidates' = Append(candidates, h)
             /\ total' = total + Cardinality(Combinations(supplied, h))
             /\ pos' = pos + 1
             /\ UNCHANGED <<phase, outcome, rejected>>
  /\ UNCHANGED <<Given, groups, work, succeeded, report, told>>

Dedupe ==
  /\ phase = "dedupe" /\ pos <= Len(groups)
  /\ LET h == groups[pos] IN
     \/ Conflicting(supplied, h) /\ Finish("conflict") /\ UNCHANGED <<candidates, total, rejected>>
     \/ /\ ~Conflicting(supplied, h)
        /\ IF ~Enough(supplied, h)
           THEN rejected' = rejected \cup {h} /\ UNCHANGED <<candidates, total>>
           ELSE /\ candidates' = Append(candidates, h)
                /\ total' = total + Cardinality(Combinations(supplied, h))
                /\ UNCHANGED rejected
        /\ pos' = pos + 1
        /\ UNCHANGED <<phase, outcome>>
  /\ UNCHANGED <<Given, groups, work, succeeded, report, told>>

\* _raise_no_candidate names the duplicates when there is only one group.
NoCandidate ==
  /\ phase = "dedupe" /\ pos > Len(groups) /\ candidates = <<>>
  /\ Finish("too few")
  /\ told' = IF op = "recover" /\ Len(groups) = 1 THEN Duplicates(supplied, groups[1]) ELSE {}
  /\ UNCHANGED <<Given, Tally, groups, report>>

\* [bug] each group is held to the limit, as in _recover_group, and not all.
BudgetPerGroup ==
  /\ phase = "dedupe" /\ pos > Len(groups) /\ candidates # <<>>
  /\ IF \E h \in Range(candidates) : Cardinality(Combinations(supplied, h)) > MaxRecoveryCombinations
     THEN Finish("limit") ELSE Goto("search") /\ UNCHANGED outcome
  /\ UNCHANGED <<Given, Tally, groups, report, told>>

Budget ==
  /\ phase = "dedupe" /\ pos > Len(groups) /\ candidates # <<>>
  /\ IF total > MaxRecoveryCombinations
     THEN Finish("limit") ELSE Goto("search") /\ UNCHANGED outcome
  /\ UNCHANGED <<Given, Tally, groups, report, told>>

\* [bug] the signal that a group has no authenticating combination ends it all.
SearchSignalEscapes ==
  /\ phase = "search" /\ pos <= Len(candidates)
  /\ LET h == candidates[pos] IN
     /\ work' = work + Cardinality(Combinations(supplied, h))
     /\ IF Authenticating(supplied, h) # {}
        THEN /\ succeeded' = Append(succeeded, h) /\ pos' = pos + 1
             /\ UNCHANGED <<phase, outcome>>
        ELSE Finish("signal") /\ UNCHANGED succeeded
  /\ UNCHANGED <<Given, report, told, rejected, groups, candidates, total>>

\* _recover_group, and the loop of verify_complete_set.
Search ==
  /\ phase = "search" /\ pos <= Len(candidates)
  /\ LET h == candidates[pos] IN
     /\ work' = work + Cardinality(Combinations(supplied, h))
     /\ IF Authenticating(supplied, h) # {}
        THEN succeeded' = Append(succeeded, h) /\ UNCHANGED rejected
        ELSE rejected' = rejected \cup {h} /\ UNCHANGED succeeded
  /\ pos' = pos + 1
  /\ UNCHANGED <<Given, Result, phase, groups, candidates, total>>

\* [bug] every index of a failed combination is suspect.
RecoveredBlamingFailures ==
  /\ phase = "search" /\ pos > Len(candidates) /\ op = "recover"
  /\ \/ succeeded = <<>> /\ Finish("unauthenticated") /\ UNCHANGED report
     \/ Len(succeeded) > 1 /\ Finish("ambiguous") /\ UNCHANGED report
     \/ /\ Len(succeeded) = 1
        /\ Finish("ok")
        /\ report' = [ReportOn(succeeded[1]) EXCEPT !.suspects =
             UNION (Combinations(supplied, succeeded[1]) \ Authenticating(supplied, succeeded[1]))]
  /\ UNCHANGED <<Given, Tally, groups, told>>

\* The end of recover_with_report.  core.recover drops the report, so that no
\* command tells of the duplicates.
Recovered ==
  /\ phase = "search" /\ pos > Len(candidates) /\ op = "recover"
  /\ \/ succeeded = <<>> /\ Finish("unauthenticated") /\ UNCHANGED report
     \/ Len(succeeded) > 1 /\ Finish("ambiguous") /\ UNCHANGED report
     \/ /\ Len(succeeded) = 1
        /\ Finish("ok")
        /\ report' = ReportOn(succeeded[1])
  /\ UNCHANGED <<Given, Tally, groups, told>>

\* [bug] one authenticating combination is enough to pass.
VerifiedByOne ==
  /\ phase = "search" /\ pos > Len(candidates) /\ op # "recover"
  /\ LET h == candidates[1]
         passed == /\ Authenticating(supplied, h) # {}
                   /\ op = "require" => Indices(supplied, h) = 1..h.shares
     IN  /\ Finish(IF passed THEN "pass" ELSE "fail")
         /\ verified' = IF passed THEN h ELSE NoHeader
  /\ UNCHANGED <<op, supplied, Tally, groups, report, told>>

\* The end of verify_complete_set, and the verdict of cli._cmd_verify_set.
Verified ==
  /\ phase = "search" /\ pos > Len(candidates) /\ op # "recover"
  /\ LET h == candidates[1]
         passed == /\ Authenticating(supplied, h) = Combinations(supplied, h)
                   /\ op = "require" => Indices(supplied, h) = 1..h.shares
     IN  /\ Finish(IF passed THEN "pass" ELSE "fail")
         /\ verified' = IF passed THEN h ELSE NoHeader
  /\ UNCHANGED <<op, supplied, Tally, groups, report, told>>

-----------------------------------------------------------------------------
\* The verified shards are handed out; later some come back, in any order and
\* possibly repeated, to be recovered from.
Redraw ==
  /\ phase = "done" /\ outcome = "pass"
  /\ op' = "recover"
  /\ \E n \in 1..Redraws : supplied' \in [1..n -> Range(supplied)]
  /\ phase' = "start" /\ pos' = 1 /\ groups' = <<>> /\ candidates' = <<>>
  /\ total' = 0 /\ work' = 0 /\ succeeded' = <<>> /\ rejected' = {}
  /\ outcome' = None /\ report' = NoReport /\ told' = {}
  /\ UNCHANGED verified

Ended == phase = "done" /\ UNCHANGED vars

Next == \/ Start \/ Parse \/ Parsed \/ Dedupe \/ NoCandidate \/ Budget \/ Search
        \/ Recovered \/ Verified \/ Redraw \/ Ended

Spec == Init /\ [][Next]_vars

-----------------------------------------------------------------------------
(* Properties                                                              *)

TypeOK ==
  /\ op \in {"recover", "verify", "require"}
  /\ supplied \in Seq(Shard)
  /\ phase \in Phases
  /\ pos \in 1..(Len(supplied) + 1)
  /\ groups \in Seq(Headers) /\ Len(groups) <= Len(supplied)
  /\ candidates \in Seq(Headers) /\ Len(candidates) <= Len(groups)
  /\ total \in Nat /\ work \in Nat
  /\ succeeded \in Seq(Headers) /\ rejected \subseteq Headers
  /\ Len(succeeded) <= Len(candidates)
  /\ outcome \in Outcomes
  /\ phase = "done" <=> outcome # None
  /\ report \in [set : Headers \cup {NoHeader}, suspects : SUBSET Nat,
                 duplicates : SUBSET Nat, rejected : SUBSET Headers]
  /\ told \subseteq Nat
  /\ verified \in Headers \cup {NoHeader}

\* The genuine key shares of a run that lie under one of its own headers.
GenuineUnder(l, h) == {i \in Indices(l, h) : \E p \in Positions(l, h) :
                          l[p].index = i /\ l[p].key = <<h.body, i>>}

\* The secret is really there: a header its body was sealed under, and as many
\* genuine key shares as both the header and the run ask for.
Present(l, h) == /\ Sealed(h)
                 /\ h.threshold >= Threshold[h.body]
                 /\ Cardinality(GenuineUnder(l, h)) >= h.threshold

\* The combinations that the sets H ask for, and those that all sets ask for.
Ask(l, H) == UNION {{h} \X Combinations(l, h) : h \in H}
Demand(l) == Ask(l, HeadersIn(l))

\* "One unambiguous plaintext or failure": a list of shards gives a secret
\* exactly when nothing in it is malformed or contradictory, the search fits
\* the limit, and exactly one set in it holds a secret; and then that set's.
\* Nothing else counts: not the order, not duplicates, not damaged, unrelated
\* or relabelled shards beside the good ones.
RecoversTheOnlySet ==
  op = "recover" /\ phase = "done" =>
    (/\ outcome = "ok" <=>
        /\ supplied # <<>>
        /\ \A s \in Range(supplied) : WellFormed(s)
        /\ \A h \in HeadersIn(supplied) : ~Conflicting(supplied, h)
        /\ Cardinality(Demand(supplied)) \in 1..MaxRecoveryCombinations
        /\ \E h \in HeadersIn(supplied) :
             {g \in HeadersIn(supplied) : Present(supplied, g)} = {h}
     /\ outcome = "ok" => Present(supplied, report.set))

\* "Refused before cryptographic work": never more combinations than the limit,
\* over all groups together, and not one when the input is refused.
BoundedWork == /\ work <= MaxRecoveryCombinations
               /\ outcome \in Refusals => work = 0

\* The report accuses exactly the indices for which the recovered set has no
\* genuine share, whatever other groups were supplied, and rejects exactly the
\* other groups.
ReportExact ==
  outcome = "ok" =>
    /\ report.suspects = {s.index : s \in Range(supplied)}
                            \ GenuineUnder(supplied, report.set)
    /\ report.rejected = HeadersIn(supplied) \ {report.set}

\* The ceremony's promise: after verify-set has passed, any threshold of the
\* shards it was given recovers that same set, within the same limit; and with
\* --require-complete, in the current format, all shares of the run were there.
VerifiedRecovers ==
  /\ op = "recover" /\ verified # NoHeader /\ phase = "done" =>
       IF Enough(supplied, verified)
       THEN outcome = "ok" /\ report.set = verified
       ELSE outcome = "too few"
  /\ op = "require" /\ outcome = "pass" /\ verified.version = 2 =>
       GenuineUnder(supplied, verified) = 1..Shares[verified.body]

-----------------------------------------------------------------------------
(* The answer, without the phases that find it                             *)

\* Why the operation o on the list l is refused: the first of these reasons.
RefusalOf(o, l) ==
  IF l = <<>> THEN "no shards"
  ELSE IF \E s \in Range(l) : ~WellFormed(s) THEN "malformed"
  ELSE IF o # "recover" /\ ~(\E h \in HeadersIn(l) : HeadersIn(l) = {h}) THEN "several sets"
  ELSE IF \E h \in HeadersIn(l) : Conflicting(l, h) THEN "conflict"
  ELSE IF \A h \in HeadersIn(l) : ~Enough(l, h) THEN "too few"
  ELSE IF Cardinality(Demand(l)) > MaxRecoveryCombinations THEN "limit"
  ELSE None

Answer(result, h, suspects, others) ==
  [outcome |-> result, set |-> h, suspects |-> suspects, rejected |-> others]
Plain(result) == Answer(result, NoHeader, {}, {})

\* The secret of the set h of l, with what is said of the rest of l.
SecretOf(l, h) == Answer("ok", h, {s.index : s \in Range(l)} \ GenuineUnder(l, h),
                         HeadersIn(l) \ {h})

\* All shards of h in l are genuine; for "require", none of the set is missing.
Intact(o, l, h) == /\ Present(l, h) /\ GenuineUnder(l, h) = Indices(l, h)
                   /\ o = "require" => Indices(l, h) = 1..h.shares

PresentIn(l) == {h \in HeadersIn(l) : Present(l, h)}
IntactIn(o, l) == {h \in HeadersIn(l) : Intact(o, l, h)}

VerdictOn(o, l) ==
  IF RefusalOf(o, l) # None THEN Plain(RefusalOf(o, l))
  ELSE IF o = "recover"
  THEN IF PresentIn(l) = {} THEN Plain("unauthenticated")
       ELSE IF \E h \in PresentIn(l) : PresentIn(l) = {h}
       THEN SecretOf(l, CHOOSE h \in PresentIn(l) : TRUE)
       ELSE Plain("ambiguous")
  ELSE IF IntactIn(o, l) = {} THEN Plain("fail")
       ELSE Answer("pass", CHOOSE h \in IntactIn(o, l) : TRUE, {}, {})

\* What the phases have come to: a set that has passed is named by verified.
AnswerGiven == Answer(outcome, IF outcome = "pass" THEN verified ELSE report.set,
                      report.suspects, report.rejected)

Promise == INSTANCE OneAnswer WITH Ops <- {"recover", "verify", "require"},
             Verdict <- VerdictOn, NoAnswer <- Plain(None),
             list <- supplied, answer <- AnswerGiven

\* recover and verify-set answer as if in one step, and what the list holds
\* alone decides which answer: which of several reasons to refuse is given,
\* whether a secret comes out and whose, which indices are accused, whether a
\* set passes.  How the shards are ordered and grouped, which group is tried
\* first and what has been spent on it make no difference.
ImplementsOneAnswer == Promise!Spec

\* README "Identical duplicate shares are reported": whoever recovers from a
\* list with identical duplicates is told of them.
DuplicatesReported ==
  op = "recover" /\ outcome = "ok" => told = Duplicates(supplied, report.set)
=============================================================================

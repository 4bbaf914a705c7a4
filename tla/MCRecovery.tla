----------------------------- MODULE MCRecovery -----------------------------
(* Instances of Recovery for TLC.  new is a 2-of-3 set of the current       *)
(* format, two a 2-of-2 set of it, old a 2-of-3 set of the legacy format.   *)
EXTENDS Recovery, TLC

CONSTANTS new, two, old, bad, LongestOfAny, LongestOfFew, LongestVerified

MCSets == {new, two, old}
MCThreshold == [r \in MCSets |-> 2]
MCShares == new :> 3 @@ two :> 2 @@ old :> 3
MCVersion == new :> 2 @@ two :> 2 @@ old :> 1

Share(r, i) == [exact |-> TRUE, version |-> Version[r], threshold |-> Threshold[r],
                shares |-> Shares[r], index |-> i, body |-> r, key |-> <<r, i>>]
SharesOf(r) == {Share(r, i) : i \in 1..Shares[r]}

\* Key shares damaged, a share under another's index, a damaged
\* body, headers edited, a truncated text and an index out of range.
DamagedShares ==
  {[Share(new, 3) EXCEPT !.key = bad],
   [Share(new, 1) EXCEPT !.index = 2], [Share(new, 2) EXCEPT !.body = bad],
   [Share(new, 1) EXCEPT !.threshold = 3], [Share(new, 1) EXCEPT !.version = 1],
   [Share(old, 1) EXCEPT !.threshold = 3], [Share(old, 2) EXCEPT !.threshold = 3],
   [Share(old, 3) EXCEPT !.threshold = 3]}
Malformed == {[Share(new, 1) EXCEPT !.exact = FALSE], [Share(two, 2) EXCEPT !.index = 3]}

Lists(pool, n) == UNION {[1..m -> pool] : m \in 0..n}

\* Any list over all of these.
AnyList == Lists(SharesOf(new) \cup {Share(old, i) : i \in 1..2}
                 \cup DamagedShares \cup Malformed, LongestOfAny)

\* Longer lists over fewer shards: two complete sets, damage and duplicates.
FewShards == SharesOf(new) \cup SharesOf(two) \cup
             {[Share(new, 3) EXCEPT !.key = bad], [Share(new, 1) EXCEPT !.threshold = 3]}
FewList == Lists(FewShards, LongestOfFew)

\* What a ceremony verifies: one set, some shares perhaps damaged or missing.
\* A legacy set may bear an edited header.
NewPool == SharesOf(new) \cup {[Share(new, 3) EXCEPT !.key = bad]}
OldPool == SharesOf(old) \cup {[s EXCEPT !.threshold = 3] : s \in SharesOf(old)}
               \cup {[s EXCEPT !.shares = 2] : s \in {Share(old, 1), Share(old, 2)}}
VerifyList == Lists(NewPool, LongestVerified) \cup Lists(OldPool, LongestVerified)

MCInputs == AnyList \cup FewList \cup VerifyList
=============================================================================

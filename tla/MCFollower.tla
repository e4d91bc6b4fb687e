------------------------------ MODULE MCFollower ------------------------------
(* Follower for model checking. *)
EXTENDS Follower, TLC

CONSTANTS a1, a2, k1, k2

TwoAccounts == {a1, a2}
OneKey == {k1}
TwoKeys == {k1, k2}
Interchangeable == Permutations(TwoAccounts) \cup Permutations(TwoKeys)

Other == {"other"}

Allow(these) == [m \in Mishaps |-> IF m \in these THEN 1 ELSE 0]

\* The stream's mishaps with the scope standing still; the scope's with the stream
\* standing, with reads answered as of now and with reads that lag.
Mixes == {Allow({"drops", "losses", "breaks", "fails"}),
          Allow({"drops", "moves", "scopeBreaks"}),
          Allow({"drops", "moves", "scopeBreaks", "lag"})}

\* For safety alone, of more records.  A Lost still on its way as the stream breaks
\* is a drop; a read that may lag may also not.
Gaps == {Allow({"drops", "losses", "fails"}), Allow({"losses", "breaks"}),
         Allow({"drops", "moves", "lag"})}

\* An account enters the scope and the stream breaks.
Entered == {Allow({"breaks", "moves"})}

=============================================================================

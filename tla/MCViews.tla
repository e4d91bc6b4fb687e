------------------------------- MODULE MCViews --------------------------------
(* Views for model checking: what may come together. *)
EXTENDS Views, TLC

CONSTANTS r1, r2, k1, k2

OneReader == {r1}
TwoReaders == {r1, r2}

\* A read answered in one call, or one call for each of two subjects.
OnePage == {{k1, k2}}
TwoPages == {{k1}, {k2}}

Once(these) == [m \in Mishaps |-> IF m \in these THEN 1 ELSE 0]

\* A stream breaks, a loss is told of on it, a call fails: any two of them, of
\* one stream, since two read a view again one over the other.
OneStream ==
    UNION {{Once({<<"break", s>>, <<"lost", s>>}), Once({<<"break", s>>, <<"call", "fails">>}),
            Once({<<"lost", s>>, <<"call", "fails">>})} : s \in Streams}

\* Nothing goes wrong.
Nothings == {Once({})}

\* Both streams have views to read again.
BothStreams == {Once({<<"lost", s>> : s \in Streams})}

Symmetry == Permutations(TwoReaders) \cup Permutations({k1, k2})

=============================================================================

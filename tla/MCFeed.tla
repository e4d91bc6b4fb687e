-------------------------------- MODULE MCFeed --------------------------------
(* Feed for model checking: which mishaps may come together. *)
EXTENDS Feed, TLC

CONSTANTS w1, w2, p1, p2

Two == {w1, w2}
Pair == {p1, p2}
Each == w1 :> p1 @@ w2 :> p2

Times(trades, twice, once) ==
    [m \in Mishaps |-> CASE m = "trade" -> trades
                         [] m \in twice -> 2
                         [] m \in once -> 1
                         [] OTHER -> 0]

\* Wants come and go with a restart, or as the listing is read again; the stream
\* drops under two wants; the lake and the venue fail, with restreams behind one
\* another or a restart; a naming fails.
Mixed ==
    {Times(1, {"ask"}, {"withdraw", "crash"}),
     Times(1, {"ask"}, {"withdraw", "remap", "lake"}),
     Times(3, {"ask"}, {"drop"}),
     Times(3, {}, {"ask", "behind", "refused", "history", "drop"}),
     Times(2, {}, {"ask", "refused", "history", "lake", "drop", "crash"}),
     Times(2, {}, {"ask", "unnamed", "naming", "remap", "drop"})}

\* A want is heard while a restream of the pass waits behind it.
Behind == {Times(0, {"ask"}, {"behind"})}

\* A want whose naming fails is left off what the stream is asked for.
Unnamed == {Times(0, {"ask"}, {"unnamed", "naming"})}

\* Both wants of one product, which leaves the stream and comes back.
Same == w1 :> p1 @@ w2 :> p1
Returned == {Times(3, {"ask"}, {"withdraw"})}

\* A restart, with the venue trading.
Restarted == {Times(3, {}, {"ask", "crash"})}

=============================================================================

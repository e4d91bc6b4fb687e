------------------------------- MODULE MCCursors ------------------------------
(* Cursors for model checking: which mishaps come together for which rows. *)
EXTENDS Cursors

CONSTANTS a, b, k1, k2, d1, i1, i2, i3

TwoRoles == <<a, b>>
Second == {b}
Both == {a, b}
TwoKeys == {k1, k2}
OneDataset == {d1}
ThreeIds == {i1, i2, i3}

OfInstruments == {"sequenced"}
OfLake == {"latest", "full"}
OfTrades == {"full"}
Apart == {OfInstruments, OfLake, OfTrades}

Other == {"other"}

Allow(these) == [m \in Mishaps |-> IF m \in these THEN 1 ELSE 0]

Each == {Allow({"losses", "breaks"}), Allow({"losses", "fails"}), Allow({"losses", "ends"})}

\* Of trades alone, a subject may be left out and named again as well.
Named == {Allow({"losses", "breaks", "renames"}), Allow({"losses", "fails", "renames"}),
          Allow({"breaks", "ends", "renames"}), [Allow({"losses"}) EXCEPT !["renames"] = 2]}

Mixes == [rows \in Apart |->
    Each \cup CASE rows = OfInstruments -> {Allow({"renames"})}
              [] rows = OfLake -> {Allow({"breaks", "renames"})}
              [] rows = OfTrades -> Named]

\* A handler's failure ends `follow`.
Ended == [rows \in Apart |-> {Allow({"ends"})}]

=============================================================================

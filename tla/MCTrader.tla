------------------------------- MODULE MCTrader -------------------------------
(* Trader for model checking: which mishaps may come together. *)
EXTENDS Trader

CONSTANTS p1, p2

One == {p1}
Two == {p1, p2}
NoPlacement == {}
Second == {p2}

Times(placed, rulings, these) ==
    [m \in Mishaps |-> CASE m = "place" -> placed
                         [] m = "ruling" -> rulings
                         [] OTHER -> IF m \in these THEN 1 ELSE 0]

\* All that can come between a placement and the book, a restart included; or
\* two placements, a restart, a read of the book that fails, an order
\* not found and an instruction.
Crowded ==
    {Times(1, 0, {"crash", "report", "unanswered", "accounts", "orders", "refusal", "odd", "ask"}),
     Times(2, 1, {"crash", "read", "unfound"})}

\* A restart and polls that say little; or one instruction and another.
Lasting == {Times(1, 0, {"crash", "orders", "odd", "ask"}), Times(1, 2, {"orders", "ask"})}

=============================================================================

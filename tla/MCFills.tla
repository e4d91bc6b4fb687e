------------------------------- MODULE MCFills --------------------------------
(* Fills for model checking: which mishaps may come together, each once. *)
EXTENDS Fills

Once(these) == [m \in Mishaps |-> IF m \in these THEN 1 ELSE 0]

\* Fills counted right whatever of these comes.
Counted == {Once({"report", "date", "taken", "late"}),
            Once({"date", "late", "replace", "unanswered", "restate"}),
            Once({"crash", "date", "replace", "restate"})}

\* And counted whole.
Whole == {Once({"crash", "restate"}), Once({"report", "restate"}), Once({"crash", "report"})}

\* An execution is recorded and the plugin not told.
Unheard == {Once({"lost"})}

\* Further than these it does not count right.
Restarted == {Once({"crash", "taken"})}
Overtaken == {Once({"taken", "replace"})}
Forgotten == {Once({"crash", "report", "restate"})}
Refilled == {Once({"taken"})}
Undated == {Once({"date"})}
Raced == {Once({"replace"})}
Unanswered == {Once({"unanswered"})}
=============================================================================

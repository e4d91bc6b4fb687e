------------------------------- MODULE MCMover --------------------------------
(* Mover for model checking: what may come together. *)
EXTENDS Mover

Some(these) == [m \in Mishaps |-> IF m \in DOMAIN these THEN these[m] ELSE 0]

\* Two mishaps of a kind, or one of each of two or three.
Mixed ==
    {Some(b) : b \in {[crash |-> 2, person |-> 1], [crash |-> 1, person |-> 2], [report |-> 2, person |-> 2],
                     [crash |-> 1, copy |-> 1, report |-> 1], [crash |-> 1, object |-> 1, person |-> 1],
                     [crash |-> 1, report |-> 1, choice |-> 1]}}

Every == {"archived", "kept", "deleted"}

OnlyDeleting == {"deleted"}

\* One crash, and nothing else.
OneCrash == {Some([crash |-> 1])}

=============================================================================

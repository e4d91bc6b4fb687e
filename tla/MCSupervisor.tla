---------------------------- MODULE MCSupervisor ----------------------------
(* Supervisor for model checking: what may come together. *)
EXTENDS Supervisor

CONSTANTS s1, s2, v1, v2

TwoSubjects == {s1, s2}
TwoSources == {v1, v2}

Times(wants, states, these) ==
    [m \in Mishaps |-> CASE m = "want" -> wants
                         [] m = "state" -> states
                         [] OTHER -> IF m \in these THEN 1 ELSE 0]

\* What is wanted changes twice, a source once; a statement is lost as the
\* session breaks, or a handler fails; or it is refused, or goes silent.
Together == {Times(2, 2, {"source", "break", "handler"}),
             Times(2, 1, {"source", "refuse", "silent"})}

=============================================================================

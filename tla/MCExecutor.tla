----------------------------- MODULE MCExecutor -----------------------------
(* Runs the executor on bodies whether or not the analyzer accepts them:   *)
(* up to three statements with constant conditions and dead code, and up   *)
(* to four that may run for ever.                                          *)
EXTENDS Executor, MCPrograms

Dead ==
    Shape(1, 3, {"use", "return", "label", "goto", "if", "while", "break", "continue"},
          {}, {"T", "F", "U"}, BOOLEAN, TRUE)

Endless ==
    Shape(1, 4, {"use", "label", "goto", "if", "while", "break", "continue"},
          {}, {"U"}, {TRUE}, FALSE)

Bodies == SmallPrograms(Dead) \cup SmallPrograms(Endless)

(* What ExecSpec asks of a body.                                           *)
ASSUME BodiesAssumption == \A p \in Bodies : WellFormed(p)

Init == prog \in Bodies /\ ExecInit
Spec == Init /\ [][ExecNext]_<<prog, execution>> /\ ExecFairness
=============================================================================

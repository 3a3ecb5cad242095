--------------------------- MODULE MCAcceptedRun ---------------------------
(* Checks AcceptedRun on all bodies of up to four statements of every kind *)
(* of control, and on those of five statements around a variable, alone    *)
(* and inside a loop made with goto.                                       *)
EXTENDS AcceptedRun, MCPrograms

Control ==
    Shape(1, 4, {"use", "label", "goto", "if", "while", "break", "continue", "return"},
          {}, {"U"}, BOOLEAN, FALSE)

Variable ==
    Shape(5, 5, {"def", "use", "assign", "read", "label", "goto", "if"}, {"def", "use", "label", "goto"},
          {"U"}, {TRUE}, FALSE)

(* if (u) { goto l }; var d; l: ; read(d); use(d): past the definition     *)
(* only read() gives d a value.                                            *)
ReadPastDefinition ==
    [n |-> 6, kind |-> <<"if", "goto", "def", "label", "read", "use">>,
     end |-> <<3, 3, 4, 5, 6, 7>>, mid |-> <<3, 3, 4, 5, 6, 7>>, jump |-> <<0, 4, 0, 0, 0, 0>>,
     cond |-> [i \in 1 .. 6 |-> "U"], slot |-> <<0, 0, 0, 0, 3, 3>>, void |-> TRUE]

AllBodies == SmallPrograms(Control) \cup LoopedPrograms(Variable) \cup {ReadPastDefinition}
=============================================================================

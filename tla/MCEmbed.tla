------------------------------ MODULE MCEmbed ------------------------------
(* A program with two functions, of two parameters and of one.             *)
EXTENDS Embed

Slots1 == [f \in Funcs |-> IF f = "f" THEN <<0, 1>> ELSE <<1>>]
=============================================================================

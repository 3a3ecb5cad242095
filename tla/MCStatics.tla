------------------------------ MODULE MCStatics ------------------------------
(* Modules of up to three static members, and pairs of modules, that are   *)
(* well typed for some types of their members.                             *)
EXTENDS Statics

CONSTANT Length  \* of the longest module

Literal(n) == [source |-> "literal", value |-> n]
Refs(sources, f, n) == [source : sources, of : {<<f, i>> : i \in 1 .. n}]
References(f, n) == Refs({"member", "field"}, f, n)
Imports(f, n) == Refs({"import", "import_field"}, f, n)

Single(kinds, form, operands) == [kind : kinds, form : {form}, lhs : operands, rhs : {Literal(0)}]
Sums(kinds, lhs, rhs) == [kind : kinds, form : {"operation"}, lhs : lhs, rhs : rhs]

(* A copy, a struct of one field, a sum with 1. *)
Members(kinds, f, n) ==
    Single(kinds, "value", {Literal(1)} \cup References(f, n))
    \cup Single(kinds, "construct", {Literal(1), Literal(2)} \cup References(f, n))
    \cup Sums(kinds, {Literal(2)} \cup References(f, n), {Literal(1)})

(* The sum of two others, the conversion of one, the user of an import. *)
Enders(f, n) ==
    Sums(Kinds, References(f, n), References(f, n)) \cup Single(Kinds, "cast", References(f, n))
Importers(f, n) ==
    Single(Kinds, "value", Imports(f, n)) \cup Single(Kinds, "construct", Imports(f, n))
    \cup Sums(Kinds, Imports(f, n), {Literal(1)})

TypeNames == {"scalar", "struct"}
Whole == {"member", "import"}
Scalar(o, types) == o.source # "literal" => types[o.of] = IF o.source \in Whole THEN "scalar" ELSE "struct"
Fits(d, T, types) ==
    IF d.form = "value" /\ d.lhs.source = "member"
    THEN T = types[d.lhs.of]
    ELSE /\ T = IF d.form = "construct" THEN "struct" ELSE "scalar"
         /\ Scalar(d.lhs, types) /\ Scalar(d.rhs, types)
WellTyped(p) ==
    LET places == UNION {{<<f, i>> : i \in DOMAIN p[f]} : f \in DOMAIN p}
    IN \E types \in [places -> TypeNames] :
        \A q \in places : Fits(p[q[1]][q[2]], types[q], types)

Modules(kinds, f, n) == [1 .. n -> Members(kinds, f, n)]
OneModule(kinds, n) == {p \in [1 .. 1 -> Modules(kinds, 1, n)] : WellTyped(p)}
EndsInSum(n) ==
    {p \in {<<Append(m, d)>> : m \in Modules(Kinds, 1, n - 1), d \in Enders(1, n - 1)} : WellTyped(p)}
(* The sum of two others, declared before it or after it. *)
SumBetween(n) ==
    LET sums == Sums({"let"}, References(1, n), References(1, n))
        modules == {<<a, d, b>> : a, b \in Members({"let"}, 1, n), d \in sums}
    IN {p \in {<<m>> : m \in modules} : WellTyped(p)}
(* A module of one member that imports from the other, visited after it    *)
(* and before it.                                                          *)
TwoModules(n) == {p \in Modules(Kinds, 1, n) \X [1 .. 1 -> Importers(1, n)] : WellTyped(p)}
ImportersFirst(n) == {p \in [1 .. 1 -> Importers(2, n)] \X Modules({"let"}, 2, n) : WellTyped(p)}

SmallPrograms ==
    OneModule({"let"}, Length) \cup OneModule(Kinds, Length - 1)
    \cup EndsInSum(Length) \cup SumBetween(Length) \cup TwoModules(Length - 1)
    \cup ImportersFirst(Length - 1)
=============================================================================

-------------------------------- MODULE Rules --------------------------------
(***************************************************************************)
(* The judgements of the second pass on operands and right-hand sides      *)
(* (src/vm/analyzer/tc_analyzer_pass2_rhs.c, tc_type_check.c,              *)
(* tc_ptr_check.c, tc_memblock_check.c, tc_struct_check.c,                 *)
(* tc_struct_field.c, tc_func_check.c, and the validators of               *)
(* src/vm/runtime/tc_semantics.c).                                         *)
(*                                                                         *)
(* A judgement takes the environment e it is made in: table, visible,      *)
(* members, structs and signatures as the pass holds them, the statement's *)
(* index, module, imports, in_function, and self, the name of the variable *)
(* that is being initialised ("" if none). It answers with a code.         *)
(*                                                                         *)
(* An operand is [k, qual, name, path, class, n]: k is "lit" (of a class,  *)
(* with the value n), "var" or "field". A right-hand side is               *)
(* [form, op, mode, type, o, keys, qual, name]: o are its operands.        *)
(* Literals are small: they fit every type of 32 bits and more that has    *)
(* their sign.                                                             *)
(***************************************************************************)
EXTENDS Symbols, Types

-----------------------------------------------------------------------------
(* Literals                                                                *)

(* tc_signed_in_range, tc_unsigned_in_range, tc_type_bit_width: a pointer  *)
(* is as wide as an address, a block and a struct have no width.           *)
InRange(n, c) ==
    CASE c = "int8" -> n \in -128 .. 127
      [] c = "uint8" -> n \in 0 .. 255
      [] c = "int16" -> n \in -32768 .. 32767
      [] c = "uint16" -> n \in 0 .. 65535
      [] c \in Signed -> TRUE
      [] c \in {"block", "struct"} -> n = 0
      [] OTHER -> n >= 0

(* tc_literal_fits_context, tc_check_literal: nullptr is a 0 like another. *)
LiteralCode(o, c) ==
    CASE o.class \in {"float", "f32"} ->
            Demand(IsFloat(c) /\ (o.class = "f32" => c = "float32"), "LITERAL_TYPE")
      [] o.class = "bool" -> Demand(c = "bool", "LITERAL_TYPE")
      [] OTHER ->
            Demand(c # "bool" /\ ~IsFloat(c) /\ (o.class = "uint" => c \notin Signed),
                   "LITERAL_TYPE") ##
            Demand(InRange(o.n, c), "LITERAL_OUT_OF_RANGE")

(* tc_type_check_literal: nullptr only where a pointer is expected. *)
TypedLiteralCode(o, t) ==
    IF o.class = "null" THEN Demand(Tag(t) = "ptr", "LITERAL_TYPE") ELSE LiteralCode(o, Tag(t))

-----------------------------------------------------------------------------
(* Names                                                                   *)

Resolve(e, n) ==
    ResolveVisible(e.table, e.visible, e.members, n, e.index, e.in_function)
Named(e, qual, x) ==
    NamedBinding(e.table, e.visible, e.members, [qual |-> qual, name |-> x])
TypeAt(e, i) == e.table[i].type

(* What an operand is of, or why it cannot be used. *)
Result(type, code) == [type |-> type, code |-> code]
TypeFound(e, found) ==
    IF found.code = Ok THEN Result(TypeAt(e, found.at), Ok) ELSE Result(Void, found.code)
TypeNamed(e, n) == TypeAt(e, Resolve(e, n).at)

(* A variable does not stand in its own initialiser. *)
SelfCode(e, n) ==
    Demand(e.self = "" \/ n.qual # "" \/ n.name # e.self, "UNDEFINED_VARIABLE")
NameCode(e, n) == SelfCode(e, n) ## Resolve(e, n).code
NameAccess(e, n) ==
    IF SelfCode(e, n) # Ok THEN Result(Void, SelfCode(e, n)) ELSE TypeFound(e, Resolve(e, n))

(* tc_precheck_name_binding, tc_precheck_operand_name *)
PrecheckOperand(e, o) == IF o.k = "var" THEN NameCode(e, o) ELSE Ok

(* tc_precheck_rhs_names *)
Prechecked == {"arith", "unary", "compare", "logic", "not", "bitwise", "bitnot", "shift", "cast",
               "const_cast", "float_arith", "float_unary", "float_compare", "bitcast", "const"}
PrecheckCode(e, r) ==
    IF r.form \in Prechecked THEN FirstOf(Len(r.o), LAMBDA i : PrecheckOperand(e, r.o[i])) ELSE Ok

-----------------------------------------------------------------------------
(* Fields                                                                  *)

(* tc_field_split_variable_base: what the parser took for module.member is *)
(* a field of a variable that has the module's name.                       *)
Split(e, o) ==
    IF o.qual \in {"", "Self"} \/ Named(e, "", o.qual) = None THEN o
    ELSE [o EXCEPT !.qual = "", !.name = o.qual, !.path = <<o.name>> \o @]

(* tc_struct_resolve_base *)
StaticOnly(e, i) ==
    IF i # None /\ e.table[i].domain = "static" THEN Found(i) ELSE NotFound("UNDEFINED_VARIABLE")
ResolveBase(e, o) ==
    IF o.qual = "Self"
    THEN StaticOnly(e, SelfMember(e.table, e.members, o.name)) ELSE Resolve(e, o)

(* module.member, which the parser took for a field of a variable. *)
MayBeMember(e, b) == b.qual = "" /\ Named(e, "", b.name) = None
Member(b) == [qual |-> b.name, name |-> b.path[1]]
MemberAt(e, b) == Allowed(e.table, Find(e.table, b.path[1]), b.name)

(* The binding a field operand that is split starts from.                  *)
Base(found, member) == [at |-> found.at, code |-> found.code, member |-> member]
BaseOf(e, b) ==
    CASE MayBeMember(e, b) /\ IsPrivateElsewhere(e.table, Member(b)) ->
            Base(NotFound("PRIVATE_MEMBER_ACCESS"), FALSE)
      [] MayBeMember(e, b) /\ ~IsPrivateElsewhere(e.table, Member(b)) /\ MemberAt(e, b) # None ->
            Base(Found(MemberAt(e, b)), TRUE)
      [] OTHER -> Base(ResolveBase(e, b), FALSE)
FieldBase(e, o) == BaseOf(e, Split(e, o))

(* tc_struct_check_field_access, with the type the context expects, <<>>   *)
(* if it expects none.                                                     *)
Expect(t, expected) == Demand(expected = <<>> \/ TypeEquals(t, expected), "TYPE_MISMATCH")
EndOfPath(walk, expected) ==
    Result(walk.type, walk.code ## Expect(walk.type, expected) ##
                      Demand(expected = <<>> \/ ~CountMismatch(walk.type, expected),
                             "MEMBLOCK_SIZE_MISMATCH"))
FieldOfType(e, type, path, expected) ==
    CASE path = <<"count">> /\ Tag(type) = "block" -> Result(Usize, Expect(Usize, expected))
      [] Tag(type) = "struct" -> EndOfPath(Walk(e.structs, type, path), expected)
      [] OTHER -> Result(Void, "TYPE_MISMATCH")
FieldFrom(e, base, path, expected) ==
    CASE base.code # Ok -> Result(Void, base.code)
      [] base.code = Ok /\ base.member ->
            Result(TypeAt(e, base.at), Expect(TypeAt(e, base.at), expected))
      [] OTHER -> FieldOfType(e, TypeAt(e, base.at), path, expected)
FieldOfSplit(e, b, expected) == FieldFrom(e, BaseOf(e, b), b.path, expected)
FieldAccess(e, o, expected) ==
    IF SelfCode(e, o) # Ok THEN Result(Void, SelfCode(e, o))
    ELSE FieldOfSplit(e, Split(e, o), expected)

-----------------------------------------------------------------------------
(* Operands                                                                *)

(* tc_type_tag_singleton: the type that has only a tag; of a struct it is  *)
(* the first one that was registered.                                      *)
OnlyTag(c) == IF c = "struct" THEN <<Struct(1)>> ELSE <<Scalar(c)>>

(* What a variable or a field operand is of. *)
Access(e, o) == IF o.k = "field" THEN FieldAccess(e, o, <<>>) ELSE NameAccess(e, o)
TypeOf(e, o) == Access(e, o).type
ExistsCode(e, o) == Access(e, o).code

(* tc_check_operand: of a scalar type, by its tag. *)
TagCode(result, c, code) == result.code ## Demand(Tag(result.type) = c, code)
OperandCode(e, o, c, code) ==
    CASE o.k = "lit" -> LiteralCode(o, c)
      [] o.k = "field" -> FieldAccess(e, o, OnlyTag(c)).code
      [] OTHER -> TagCode(NameAccess(e, o), c, code)
Operand(e, o, c) == OperandCode(e, o, c, "TYPE_MISMATCH")
Operands(e, r, c, code) == FirstOf(Len(r.o), LAMBDA i : OperandCode(e, r.o[i], c, code))

(* tc_check_integer_operand *)
OfInteger(result) == result.code ## Demand(IsInteger(Tag(result.type)), "TYPE_MISMATCH")
IntegerCode(e, o) ==
    IF o.k = "lit" THEN Demand(o.class \in {"int", "uint"}, "TYPE_MISMATCH")
    ELSE OfInteger(Access(e, o))

(* Mutant: an operand stands for a value of its tag. *)
StrictByTag(e, o, t) == Operand(e, o, Tag(t))

(* tc_check_operand_strict *)
SameInFull(s, t) == TypeEquals(s, t) /\ ~CountMismatch(s, t)
Strict(e, o, t) ==
    Operand(e, o, Tag(t)) ##
    Demand(o.k = "lit" \/ Tag(t) \notin Composite \/ SameInFull(TypeOf(e, o), t), "TYPE_MISMATCH")
=============================================================================

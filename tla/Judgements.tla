----------------------------- MODULE Judgements -----------------------------
(***************************************************************************)
(* The judgements of the second pass on right-hand sides, calls, stores    *)
(* and formats (the files named in Rules). RhsCode(e, r, t) is what the    *)
(* pass says of r where a value of the type t is expected.                 *)
(***************************************************************************)
EXTENDS Rules

Mismatch(holds) == Demand(holds, "TYPE_MISMATCH")

-----------------------------------------------------------------------------
(* Operations on scalars: tc_check_rhs                                     *)

(* tc_validate_arith_mode, _unary_mode, _shift_mode: wrapping is for signed*)
(* integers and not for div, mod, abs or a right shift.                    *)
ModeCode(r) ==
    LET c == Tag(r.type)
    IN Mismatch(c # "bool" /\ ~IsFloat(c)) ##
       Demand(r.mode # "wrap" \/ r.op \notin {"div", "mod", "abs", "shr"}, "MODE_MISMATCH") ##
       Demand(r.mode # "wrap" \/ r.form = "shift" \/ c \in Signed, "MODE_MISMATCH")

(* tc_validate_fp_arith_mode, _fp_unary_mode, _fp_compare_mode *)
FloatModeCode(r) ==
    Mismatch(IsFloat(Tag(r.type))) ##
    Demand(r.mode = "strict" \/ (r.form = "float_arith" /\ r.mode # "wrap"), "MODE_MISMATCH")

ArithCode(e, r, t) ==
    ModeCode(r) ## Operands(e, r, Tag(r.type), "TYPE_MISMATCH") ## Mismatch(SameTag(r.type, t))
FloatCode(e, r, t) ==
    FloatModeCode(r) ## Operands(e, r, Tag(r.type), "TYPE_MISMATCH") ##
    Mismatch(SameTag(r.type, t))
BitwiseCode(e, r, t) ==
    Mismatch(Tag(r.type) # "bool" /\ ~IsFloat(Tag(r.type))) ##
    Operands(e, r, Tag(r.type), "TYPE_MISMATCH") ## Mismatch(SameTag(r.type, t))
CompareCode(e, r, t) ==
    Operands(e, r, Tag(r.type), "COMPARISON_TYPE_MISMATCH") ## Mismatch(Tag(t) = "bool")
FloatCompareCode(e, r, t) == FloatModeCode(r) ## CompareCode(e, r, t)
LogicCode(e, r, t) == Operands(e, r, "bool", "TYPE_MISMATCH") ## Mismatch(Tag(t) = "bool")

(* The type of the source of a conversion; a literal takes the sign its    *)
(* suffix says and the width of the target.                                *)
LiteralWide(o, width) ==
    CASE o.class = "null" -> "ptr"
      [] o.class = "bool" -> "bool"
      [] o.class = "f32" -> "float32"
      [] o.class = "float" -> "float64"
      [] OTHER -> (CASE width = 32 -> [s |-> "int32", u |-> "uint32"]
                     [] width = 64 -> [s |-> "int64", u |-> "uint64"]
                     [] width = 16 -> [s |-> "int16", u |-> "uint16"]
                     [] OTHER -> [s |-> "int8", u |-> "uint8"])[IF o.class = "uint" THEN "u" ELSE "s"]
Source(e, o, width) == IF o.k = "lit" THEN <<Scalar(LiteralWide(o, width))>> ELSE TypeOf(e, o)
SourceCode(e, o) == IF o.k = "lit" THEN Ok ELSE ExistsCode(e, o)
InRangeOf(o, s) == IF o.k = "lit" THEN LiteralCode(o, Tag(s)) ELSE Ok

BitcastFrom(e, r, t, s) ==
    Mismatch(Tag(s) \notin {"bool", "struct", "block"} /\ ~(r.o[1].k = "lit" /\ Tag(s) = "ptr")) ##
    Mismatch(~(Tag(s) = "ptr" /\ IsFloat(Tag(r.type))) /\ ~(Tag(r.type) = "ptr" /\ IsFloat(Tag(s)))) ##
    Demand(Bits(e.structs, s) = Bits(e.structs, r.type), "BITCAST_WIDTH") ##
    InRangeOf(r.o[1], s) ##
    Mismatch(IF Tag(r.type) = "ptr" THEN TypeEquals(r.type, t) ELSE SameTag(r.type, t))
BitcastCode(e, r, t) ==
    Mismatch(Tag(r.type) \notin {"bool", "block", "struct", "void"}) ## SourceCode(e, r.o[1]) ##
    BitcastFrom(e, r, t, Source(e, r.o[1], Bits(e.structs, r.type)))

(* A pointer is cast to any other pointer; other casts are of scalars. *)
PtrCastCode(e, r, t, s) ==
    Demand(r.mode = "strict", "MODE_MISMATCH") ## Mismatch(Tag(s) = "ptr") ##
    Mismatch(Inner(r.type) # Void /\ Inner(s) # Void) ## Mismatch(TypeEquals(r.type, t))
ScalarCastCode(e, r, t, s) ==
    Mismatch(Tag(s) # "ptr") ## InRangeOf(r.o[1], s) ##
    Demand(r.mode # "truncate"
              \/ (IsInteger(Tag(r.type)) /\ IsInteger(Tag(s))
                    /\ Bits(e.structs, r.type) < Bits(e.structs, s)), "MODE_MISMATCH") ##
    Mismatch(SameTag(r.type, t))
CastFrom(e, r, t, s) ==
    Mismatch(Tag(s) \notin {"struct", "block"}) ##
    (IF Tag(r.type) = "ptr" THEN PtrCastCode(e, r, t, s) ELSE ScalarCastCode(e, r, t, s))
CastCode(e, r, t) ==
    Mismatch(Tag(r.type) \notin {"struct", "block", "void"}) ## SourceCode(e, r.o[1]) ##
    CastFrom(e, r, t, Source(e, r.o[1], 64))

-----------------------------------------------------------------------------
(* Bindings: a name, Self.name                                             *)

Copied(s, t) ==
    IF Tag(t) = "block"
    THEN Mismatch(Tag(s) = "block") ## Mismatch(TypeEquals(s, t)) ##
         Demand(Count(s) = Count(t) \/ Count(t) = 0, "MEMBLOCK_SIZE_MISMATCH")
    ELSE Mismatch(TypeEquals(s, t))

(* tc_check_const_ref_rhs, of a name *)
CopiedFrom(result, t) == result.code ## Copied(result.type, t)
NameRhsCode(e, o, t) == CopiedFrom(NameAccess(e, o), t)

(* and of Self.name: a block's count is not looked at. *)
StaticOf(e, i, t) ==
    Demand(i # None, "UNDEFINED_VARIABLE") ## Mismatch(e.table[i].domain = "static") ##
    Mismatch(TypeEquals(TypeAt(e, i), t))
SelfMemberCode(e, o, t) == StaticOf(e, SelfMember(e.table, e.members, o.name), t)

(* An operand where a value of type t is expected.                         *)
CopyCode(e, o, t) ==
    CASE o.k = "lit" -> TypedLiteralCode(o, t)
      [] o.k = "field" -> FieldAccess(e, o, t).code
      [] o.k = "var" /\ o.qual = "Self" -> SelfMemberCode(e, o, t)
      [] OTHER -> NameRhsCode(e, o, t)

-----------------------------------------------------------------------------
(* Pointers: tc_ptr_check.c                                                *)

(* tc_ptr_make_from_pointee *)
PtrTo(t) == <<Ptr>> \o t

(* tc_ptr_check_operand *)
SameType(result, t) == result.code ## Mismatch(TypeEquals(result.type, t))
PtrOperand(e, o, t) ==
    CASE o.k = "lit" -> Mismatch(o.class = "null")
      [] o.k = "field" -> FieldAccess(e, o, PtrTo(t)).code
      [] OTHER -> SameType(NameAccess(e, o), PtrTo(t))

LoadCode(e, r, t) ==
    PtrOperand(e, r.o[1], r.type) ## Mismatch(TypeEquals(r.type, t)) ##
    Demand(~CountMismatch(r.type, t), "MEMBLOCK_SIZE_MISMATCH")
VariableCode(e, i) == Demand(e.table[i].kind = "variable", "CONSTANT_ASSIGNMENT")
AddressOf(e, found, type) ==
    found.code ## VariableCode(e, found.at) ## Mismatch(TypeEquals(TypeAt(e, found.at), type))
AddressCode(e, r, t) ==
    Mismatch(r.type # Void) ## AddressOf(e, Resolve(e, r.o[1]), r.type) ##
    Mismatch(TypeEquals(PtrTo(r.type), t))
PtrMoveCode(e, r, t) ==
    PtrOperand(e, r.o[1], r.type) ## Operand(e, r.o[2], "usize") ##
    Mismatch(TypeEquals(PtrTo(r.type), t))
PtrCompareCode(e, r, t) ==
    PtrOperand(e, r.o[1], r.type) ## PtrOperand(e, r.o[2], r.type) ## Mismatch(Tag(t) = "bool")
PtrSizeCode(e, r, t) == PtrOperand(e, r.o[1], r.type) ## Mismatch(Tag(t) = "usize")

(* tc_ptr_rhs_target_readonly, tc_ptr_operand_target_readonly: the address *)
(* of a parameter or a constant, and every pointer made from one.          *)
Marked(e, k, i) == IF k # None THEN e.visible[k].readonly ELSE i # None /\ e.table[i].readonly
ReadonlyPtr(e, n) == Marked(e, VisibleAs(e.table, e.visible, n.name), Find(e.table, n.name))
ReadonlyTarget(e, i) == e.table[i].domain = "param" \/ e.table[i].kind = "constant"
TargetReadonly(e, r) ==
    CASE r.form = "address" -> ReadonlyTarget(e, Resolve(e, r.o[1]).at)
      [] r.form = "const" -> Tag(TypeNamed(e, r.o[1])) = "ptr" /\ ReadonlyPtr(e, r.o[1])
      [] r.form = "ptr_move" -> r.o[1].k = "var" /\ ReadonlyPtr(e, r.o[1])
      [] OTHER -> FALSE

(* tc_ptr_check_store *)
HolderCode(e, o) ==
    IF o.k = "var"
    THEN Resolve(e, o).code ## Demand(~ReadonlyPtr(e, o), "CONSTANT_ASSIGNMENT")
    ELSE Ok
PtrStoreCode(e, r) ==
    Mismatch(r.type # Void) ## HolderCode(e, r.o[1]) ## PtrOperand(e, r.o[1], r.type) ##
    Strict(e, r.o[2], r.type)

-----------------------------------------------------------------------------
(* Blocks: tc_memblock_check.c                                             *)

(* tc_memblock_resolve_usize_name, tc_memblock_resolve_usize_operand: the  *)
(* constant a count names.                                                 *)
IfOpen(e, i) == IF i # None /\ e.table[i].end < 0 THEN i ELSE None
CountSymbol(e, con) ==
    IF con.qual # "" THEN Named(e, con.qual, con.id)
    ELSE OrElse(Visible(e.table, e.visible, con.id),
                IfOpen(e, AssignTarget(e.table, con.id, e.index)))
CountFrom(e, con, i) ==
    Demand(i # None, MissingCode(con.qual = "" /\ e.in_function /\ NeedsSelf(e.members, con.id))) ##
    Demand(e.table[i].kind = "constant", "CONSTANT_EXPRESSION") ##
    Demand(Tag(TypeAt(e, i)) = "usize" /\ e.table[i].value > 0, "CONSTANT_EXPRESSION")
CountNameCode(e, con) ==
    Demand(con.qual = "" \/ ~IsPrivateElsewhere(e.table, [qual |-> con.qual, name |-> con.id]),
           "PRIVATE_MEMBER_ACCESS") ##
    CountFrom(e, con, CountSymbol(e, con))

IsNamedCount(con) == con.c = "block" /\ con.id # ""
(* tc_memblock_resolve_type_counts, from the inside out *)
CountsCode(e, t) ==
    FirstOf(Len(t), LAMBDA i :
        LET con == t[Len(t) + 1 - i] IN IF IsNamedCount(con) THEN CountNameCode(e, con) ELSE Ok)
WithCounts(e, t) ==
    [i \in DOMAIN t |->
        IF IsNamedCount(t[i]) THEN Block(e.table[CountSymbol(e, t[i])].value) ELSE t[i]]

(* tc_memblock_check_index_literal *)
IndexLiteralCode(o, n) ==
    Demand(o.k # "lit" \/ o.n \in 0 .. (n - 1), "MEMBLOCK_INDEX_OUT_OF_RANGE")

BlockAccess(e, o) == IF o.k = "lit" THEN Result(Void, "TYPE_MISMATCH") ELSE Access(e, o)

ElementOf(e, block, r, t) ==
    TagCode(block, "block", "TYPE_MISMATCH") ##
    Mismatch(TypeEquals(Inner(block.type), r.type)) ## IntegerCode(e, r.o[2]) ##
    IndexLiteralCode(r.o[2], Count(block.type)) ## Mismatch(TypeEquals(r.type, t))
BlockLoadCode(e, r, t) == ElementOf(e, BlockAccess(e, r.o[1]), r, t)

(* tc_memblock_operand_matches_element *)
ElementCode(e, o, t) ==
    CASE o.k = "lit" -> TypedLiteralCode(o, t)
      [] o.k = "field" -> FieldAccess(e, o, t).code
      [] o.k = "var" /\ Tag(t) \in Composite ->
            SameType(TypeFound(e, Resolve(e, o)), t)
      [] OTHER -> Operand(e, o, Tag(t))

(* memblock(T, count: n, fill: v) or (T, count: n, values): r.type is the  *)
(* whole type of the block.                                                *)
BlockOf(e, r, type, t) ==
    Demand(Count(type) > 0, "CONSTANT_EXPRESSION") ## Mismatch(TypeEquals(type, t)) ##
    Demand(Count(t) \in {0, Count(type)}, "MEMBLOCK_SIZE_MISMATCH") ##
    Demand(r.op = "fill" \/ Len(r.o) = Count(type), "MEMBLOCK_ELEMENT_COUNT_MISMATCH") ##
    FirstOf(Len(r.o), LAMBDA i : ElementCode(e, r.o[i], Inner(type)))
BlockCtorCode(e, r, t) ==
    Mismatch(Tag(t) = "block") ## CountsCode(e, r.type) ## BlockOf(e, r, WithCounts(e, r.type), t)

(* name.count; of a struct it is the field of that name. *)
CountOf(e, o, result, t) ==
    IF result.code = Ok /\ Tag(result.type) = "struct"
    THEN FieldAccess(e, [o EXCEPT !.k = "field", !.path = <<"count">>], t).code
    ELSE TagCode(result, "block", "TYPE_MISMATCH") ## Mismatch(Tag(t) = "usize")
BlockCountCode(e, r, t) == CountOf(e, r.o[1], TypeFound(e, Resolve(e, r.o[1])), t)

(* tc_memblock_check_store: block, index, value *)
BlockVariable(e, found) ==
    found.code ## VariableCode(e, found.at) ## Mismatch(Tag(TypeAt(e, found.at)) = "block")
StoreInto(e, found, r) ==
    BlockVariable(e, found) ##
    Mismatch(TypeEquals(Inner(TypeAt(e, found.at)), r.type)) ## IntegerCode(e, r.o[2]) ##
    IndexLiteralCode(r.o[2], Count(TypeAt(e, found.at))) ## Strict(e, r.o[3], r.type)
BlockStoreCode(e, r) == StoreInto(e, Resolve(e, r.o[1]), r)

(* tc_memblock_check_copy: dst, dst index, src, src index, length. The     *)
(* elements of the source are not compared.                                *)
Known(o) == o.k = "lit"
CopyRangeCode(at, len, n) ==
    LET length == IF Known(len) THEN len.n ELSE 0
    IN Demand(/\ length >= 0
              /\ Known(at) => at.n \in 0 .. (n - length), "MEMBLOCK_INDEX_OUT_OF_RANGE")
IntegersCode(e, os) == FirstOf(Len(os), LAMBDA i : IntegerCode(e, os[i]))
CopyBetween(e, dst, src, r) ==
    Mismatch(Tag(dst) = "block" /\ Tag(src) = "block") ##
    Demand(Count(dst) = Count(src), "MEMBLOCK_SIZE_MISMATCH") ##
    Mismatch(TypeEquals(Inner(dst), r.type)) ## IntegersCode(e, <<r.o[2], r.o[4], r.o[5]>>) ##
    CopyRangeCode(r.o[2], r.o[5], Count(dst)) ## CopyRangeCode(r.o[4], r.o[5], Count(src))
CopyFrom(e, dst, src, r) ==
    dst.code ## src.code ## VariableCode(e, dst.at) ##
    CopyBetween(e, TypeAt(e, dst.at), TypeAt(e, src.at), r)
BlockCopyCode(e, r) == CopyFrom(e, Resolve(e, r.o[1]), Resolve(e, r.o[3]), r)

(* tc_memblock_check_memcopy_unsafe, tc_ptr_check_memcopy_unsafe_operands: *)
(* dst, dst index, src, src index, length.                                 *)
NegativeAt(e, i) == e.table[i].kind = "constant" /\ e.table[i].value < 0
Negative(e, o) ==
    IF o.k = "lit" THEN o.n < 0 ELSE o.k = "var" /\ NegativeAt(e, Resolve(e, o).at)
MemcopyCode(e, r) ==
    Mismatch(r.type # Void) ## HolderCode(e, r.o[1]) ##
    PtrOperand(e, r.o[1], r.type) ## PtrOperand(e, r.o[3], r.type) ##
    IntegersCode(e, <<r.o[2], r.o[4], r.o[5]>>) ##
    Demand(\A k \in {2, 4, 5} : ~Negative(e, r.o[k]), "MEMCOPY_UNSAFE_INVALID_RANGE")

-----------------------------------------------------------------------------
(* Structs: tc_struct_check_constructor                                    *)

StructCtorCode(e, r, t) ==
    LET fields == e.structs[Count(r.type)].fields
        given == {r.keys[i] : i \in DOMAIN r.keys}
        Of(i) == FieldAt(e.structs, r.type, r.keys[i])
    IN Mismatch(Tag(t) = "struct") ## Mismatch(Count(t) = Count(r.type)) ##
       Demand(\A j \in DOMAIN fields : fields[j].name \in given, "STRUCT_MISSING_FIELD") ##
       FirstOf(Len(r.keys), LAMBDA i :
            Demand(Of(i) # 0, "STRUCT_UNKNOWN_FIELD") ##
            Demand(\A j \in 1 .. (i - 1) : r.keys[j] # r.keys[i], "STRUCT_DUPLICATE_FIELD") ##
            Demand(Of(i) = i, "STRUCT_FIELD_ORDER") ##
            Strict(e, r.o[i], fields[i].type))

-----------------------------------------------------------------------------
(* All forms                                                               *)

(* tc_type_check_rhs *)
TypedCode(e, r, t) ==
    CASE r.form \in {"lit", "const", "self", "field"} -> CopyCode(e, r.o[1], t)
      [] r.form = "load" -> LoadCode(e, r, t)
      [] r.form = "address" -> AddressCode(e, r, t)
      [] r.form = "ptr_move" -> PtrMoveCode(e, r, t)
      [] r.form = "ptr_compare" -> PtrCompareCode(e, r, t)
      [] r.form = "ptr_size" -> PtrSizeCode(e, r, t)
      [] r.form = "block_load" -> BlockLoadCode(e, r, t)
      [] r.form = "block" -> BlockCtorCode(e, r, t)
      [] r.form = "block_count" -> BlockCountCode(e, r, t)
      [] r.form = "struct" -> StructCtorCode(e, r, t)
      [] r.form = "cast" -> PrecheckCode(e, r) ## CastCode(e, r, t)
      [] r.form = "bitcast" -> PrecheckCode(e, r) ## BitcastCode(e, r, t)
      [] OTHER -> Mismatch(Tag(t) \notin Composite) ## PrecheckCode(e, r) ##
            (CASE r.form \in {"arith", "unary", "shift"} -> ArithCode(e, r, t)
               [] r.form \in {"bitwise", "bitnot"} -> BitwiseCode(e, r, t)
               [] r.form = "compare" -> CompareCode(e, r, t)
               [] r.form \in {"logic", "not"} -> LogicCode(e, r, t)
               [] r.form \in {"float_arith", "float_unary"} -> FloatCode(e, r, t)
               [] r.form = "float_compare" -> FloatCompareCode(e, r, t)
               [] OTHER -> "CONSTANT_EXPRESSION")

(* tc_check_condition: what cannot be a bool is no condition. *)
YieldsBool == {"compare", "float_compare", "ptr_compare", "logic", "not"}
BareCode(e, r) ==
    CASE r.form = "lit" -> LiteralCode(r.o[1], "bool")
      [] r.form = "const" -> TagCode(NameAccess(e, r.o[1]), "bool", "TYPE_MISMATCH")
      [] OTHER -> TypedCode(e, r, Bool)
AsCondition(code, r) ==
    IF code = "TYPE_MISMATCH" /\ r.form \notin YieldsBool THEN "CONDITION_TYPE" ELSE code
ConditionCode(e, r) == AsCondition(BareCode(e, r), r)

-----------------------------------------------------------------------------
(* Calls: tc_func_check.c. A signature is [module, name, vis, params, ret].*)

(* tc_sig_find_in_module *)
SigOf(e, module, x) ==
    First({i \in DOMAIN e.sigs : e.sigs[i].module = module /\ e.sigs[i].name = x})

(* tc_func_resolve_call_target, tc_dep_index_by_name *)
CalledAs(e, r, own, sig) ==
    CASE r.qual = "" -> NotFound(IF own THEN "FUNCTION_SCOPE_ACCESS" ELSE "UNDEFINED_FUNCTION")
      [] r.qual # "" /\ (sig = None \/ (r.qual = "Self" /\ ~own)) -> NotFound("UNDEFINED_FUNCTION")
      [] r.qual \notin {"", "Self"} /\ sig # None /\ e.sigs[sig].vis = "private" ->
            NotFound("PRIVATE_MEMBER_ACCESS")
      [] OTHER -> Found(sig)
Target(e, r) ==
    CalledAs(e, r, MemberKind(e.members, r.name) = "func",
             SigOf(e, IF r.qual = "Self" THEN e.module ELSE r.qual, r.name))

(* An operand as a right-hand side of its own. *)
RhsOf(o) ==
    [form |-> CASE o.k = "lit" -> "lit"
                [] o.k = "field" -> "field"
                [] o.k = "var" /\ o.qual = "Self" -> "self"
                [] OTHER -> "const",
     op |-> "", mode |-> "strict", type |-> Void, o |-> <<o>>, keys |-> <<>>,
     qual |-> "", name |-> ""]

(* tc_check_funcall_args *)
ArgsCode(e, r, sig) ==
    LET names == {sig.params[j].name : j \in DOMAIN sig.params}
        given == {r.keys[i] : i \in DOMAIN r.keys}
    IN Demand(IsInjective(r.keys), "DUPLICATE_ARGUMENT") ##
       Demand(given \subseteq names, "UNKNOWN_ARGUMENT") ##
       Demand(names \subseteq given, "MISSING_ARGUMENT") ##
       Demand(Len(r.keys) <= Len(sig.params), "EXTRA_ARGUMENT") ##
       Demand(\A i \in DOMAIN r.keys : r.keys[i] = sig.params[i].name, "ARGUMENT_ORDER") ##
       FirstOf(Len(r.o), LAMBDA i :
            CopyCode([e EXCEPT !.self = ""], r.o[i], sig.params[i].type))

(* tc_func_check_funcall: as a statement nothing is expected (<<>>). *)
CallOf(e, r, sig, t) ==
    Demand(t # <<>> \/ sig.ret = Void, "FUNCALL_POSITION") ##
    Demand(t = <<>> \/ sig.ret # Void, "FUNCALL_RESULT_TYPE") ##
    ArgsCode(e, r, sig) ##
    Mismatch(t = <<>> \/ TypeEquals(sig.ret, t)) ##
    Demand(t = <<>> \/ ~CountMismatch(sig.ret, t), "MEMBLOCK_SIZE_MISMATCH")
CallTo(e, r, target, t) == target.code ## CallOf(e, r, e.sigs[target.at], t)
CallCode(e, r, t) == CallTo(e, r, Target(e, r), t)

(* A call, or what tc_type_check_rhs judges: tc_pass2_check_funcall_rhs. *)
RhsCode(e, r, t) == IF r.form = "funcall" THEN CallCode(e, r, t) ELSE TypedCode(e, r, t)

ReturnOf(result, t) ==
    result.code ## Demand(TypeEquals(result.type, t), "RETURN_TYPE") ##
    Demand(~CountMismatch(result.type, t), "MEMBLOCK_SIZE_MISMATCH")
(* tc_func_check_return, in a function that returns t; o is <<>> or the    *)
(* one operand.                                                            *)
ReturnCode(e, o, t) ==
    Demand((t = Void) = (o = <<>>), "RETURN_FORM") ##
    (CASE o = <<>> -> Ok
       [] o # <<>> /\ o[1].k = "lit" -> TypedLiteralCode(o[1], t)
       [] o # <<>> /\ o[1].k = "var" ->
            ReturnOf(TypeFound(e, Resolve(e, o[1])), t)
       [] OTHER -> OperandCode(e, o[1], Tag(t), "RETURN_TYPE"))

-----------------------------------------------------------------------------
(* Targets, stores and formats                                             *)

(* Mutant: a parameter is a variable like another. *)
WritableAnyway(e, i) == VariableCode(e, i)

(* tc_func_check_writable_target *)
WritableCode(e, i) ==
    VariableCode(e, i) ## Demand(e.table[i].domain # "param", "PARAMETER_ASSIGNMENT")

ResolveAsTarget(e, n) == ResolveTarget(e.table, e.visible, e.members, n, e.in_function)
WritableAt(e, found) == found.code ## WritableCode(e, found.at)
TargetCode(e, n) == WritableAt(e, ResolveAsTarget(e, n))

(* tc_struct_check_field_assign: a field of a variable, each on the path a *)
(* var.                                                                    *)
VarField(walk) == walk.code ## Demand(walk.is_var, "STRUCT_IMMUTABLE_FIELD")
VarPath(e, type, path) ==
    FirstOf(Len(path), LAMBDA i : VarField(Walk(e.structs, type, SubSeq(path, 1, i))))
AssignToField(e, base, path, r) ==
    WritableAt(e, base) ## Mismatch(Tag(TypeAt(e, base.at)) = "struct") ##
    VarPath(e, TypeAt(e, base.at), path) ##
    RhsCode(e, r, Walk(e.structs, TypeAt(e, base.at), path).type)
FieldAssignCode(e, o, r) ==
    AssignToField(e, ResolveBase(e, Split(e, o)), Split(e, o).path, r)

(* tc_check_io_format: a format is [spec, flags, precise, repeated, wide]. *)
FormatCode(c, f) ==
    IF f.spec = "none" THEN Ok
    ELSE Demand(~f.repeated /\ ~f.wide, "FORMAT_SPECIFIER") ##
         Demand(f.spec \in {"u", "x", "o", "b", "t"} => "+" \notin f.flags, "FORMAT_SPECIFIER") ##
         Demand(f.spec \in {"d", "u", "t"} => "#" \notin f.flags, "FORMAT_SPECIFIER") ##
         Demand(f.spec = "t" => "0" \notin f.flags /\ ~f.precise, "FORMAT_SPECIFIER") ##
         Demand((f.spec = "f") = IsFloat(c) /\ (f.spec = "t") = (c = "bool")
                  /\ (f.spec = "d" => c \in Signed) /\ (f.spec = "u" => c \notin Signed),
                "FORMAT_TYPE_MISMATCH")
=============================================================================

-------------------------------- MODULE Types --------------------------------
(***************************************************************************)
(* Types and the struct table (src/vm/runtime/tc_types.c,                  *)
(* src/vm/analyzer/tc_struct_check.c, tc_struct_field.c).                  *)
(*                                                                         *)
(* A type is the sequence of its constructors, the outermost first:        *)
(* ptr<memblock<int32, 2>> is <<Ptr, Block(2), Scalar("int32")>>. A struct *)
(* is written as [qual, id]; once resolved, n is its place in the struct   *)
(* table (struct_id) and the name is gone (pending_name).                  *)
(* Judgements answer with a code, "ok" or the diagnostic.                  *)
(***************************************************************************)
EXTENDS Integers, Sequences, FiniteSets, FiniteSetsExt, SequencesExt

Con(c, n, qual, id) == [c |-> c, n |-> n, qual |-> qual, id |-> id]
Scalar(c) == Con(c, 0, "", "")
Ptr == Con("ptr", 0, "", "")
Block(n) == Con("block", n, "", "")
Written(qual, id) == Con("struct", 0, qual, id)
Struct(n) == Con("struct", n, "", "")

Tag(t) == t[1].c
Inner(t) == Tail(t)
Count(t) == t[1].n
Void == <<Scalar("void")>>
Bool == <<Scalar("bool")>>
Usize == <<Scalar("usize")>>

Ok == "ok"
(* The first judgement that fails is the one reported. *)
a ## b == IF a = Ok THEN b ELSE a
Demand(holds, code) == IF holds THEN Ok ELSE code
(* The code of the first i of 1 .. n whose Of(i) fails. *)
FirstOf(n, Of(_)) ==
    LET bad == {i \in 1 .. n : Of(i) # Ok} IN IF bad = {} THEN Ok ELSE Of(Min(bad))

Composite == {"ptr", "block", "struct"}
Signed == {"int8", "int16", "int32", "int64", "isize"}
Unsigned == {"uint8", "uint16", "uint32", "uint64", "usize"}
IsInteger(c) == c \in Signed \cup Unsigned
IsFloat(c) == c \in {"float32", "float64"}

(* The count of a block takes no part in it, at any depth. *)
Erased(t) == [i \in DOMAIN t |-> IF t[i].c = "block" THEN Block(0) ELSE t[i]]

(* The outermost constructor: all there is to compare of scalars. *)
SameTag(a_, b_) == Tag(a_) = Tag(b_)

(* tc_type_equals *)
TypeEquals(a_, b_) == Erased(a_) = Erased(b_)

(* tc_type_memblock_count_mismatch: of the outermost blocks only. *)
CountMismatch(a_, b_) == Tag(a_) = "block" /\ Tag(b_) = "block" /\ Count(a_) # Count(b_)

(* tc_sizeof_bits_ex on a 64-bit target, with the widths of the structs. *)
ScalarBits ==
    [c \in Signed \cup Unsigned \cup {"bool", "float32", "float64", "void"} |->
        CASE c \in {"bool", "int8", "uint8"} -> 8
          [] c \in {"int16", "uint16"} -> 16
          [] c \in {"int32", "uint32", "float32"} -> 32
          [] c = "void" -> 0
          [] OTHER -> 64]

Bits(structs, t) ==
    FoldRight(LAMBDA con, inner :
                CASE con.c = "ptr" -> 64
                  [] con.c = "block" -> 64 + con.n * inner
                  [] con.c = "struct" -> IF con.n \in DOMAIN structs THEN structs[con.n].bits ELSE 0
                  [] OTHER -> ScalarBits[con.c],
              t, 0)

-----------------------------------------------------------------------------
(* The struct table: [name, module, vis, fields, bits], a field is         *)
(* [name, type, is_var, padding].                                          *)

(* tc_struct_lookup_written: a bare name is of the own module, a qualified *)
(* one of a module the file imports.                                       *)
LookupWritten(structs, module, imports, con) ==
    LET owner == IF con.qual = "" THEN module ELSE con.qual
        hits == {i \in DOMAIN structs : structs[i].name = con.id /\ structs[i].module = owner}
    IN CASE con.qual # "" /\ con.qual \notin imports -> [at |-> 0, code |-> "UNDEFINED_STRUCT"]
         [] (con.qual = "" \/ con.qual \in imports) /\ hits = {} ->
                [at |-> 0, code |-> "UNDEFINED_STRUCT"]
         [] con.qual \in imports /\ hits # {} /\ structs[Min(hits)].vis = "private" ->
                [at |-> 0, code |-> "PRIVATE_MEMBER_ACCESS"]
         [] OTHER -> [at |-> Min(hits), code |-> Ok]

IsPending(con) == con.c = "struct" /\ con.id # ""
Pending(t) == {i \in DOMAIN t : IsPending(t[i])}

(* tc_struct_resolve_type, tc_struct_resolve_type_tree *)
ResolveCode(structs, module, imports, t) ==
    FirstOf(Len(t), LAMBDA i :
        IF IsPending(t[i]) THEN LookupWritten(structs, module, imports, t[i]).code ELSE Ok)
ResolvedType(structs, module, imports, t) ==
    [i \in DOMAIN t |->
        IF IsPending(t[i]) THEN Struct(LookupWritten(structs, module, imports, t[i]).at) ELSE t[i]]

(* Mutant: the struct being defined may stand anywhere in its field. *)
FieldTypeCodeAnywhere(structs, module, imports, self, t) ==
    Demand(t # Void, "TYPE_MISMATCH") ##
    FirstOf(Len(t), LAMBDA i :
        CASE ~IsPending(t[i]) -> Ok
          [] IsPending(t[i]) /\ t[i].qual = "" /\ t[i].id = self -> Ok
          [] OTHER -> LookupWritten(structs, module, imports, t[i]).code)

(* tc_struct_validate_type_node, tc_struct_validate_field_type: no void;   *)
(* the struct being defined only right behind a pointer, others only when  *)
(* they are registered.                                                    *)
FieldTypeCode(structs, module, imports, self, t) ==
    Demand(t # Void, "TYPE_MISMATCH") ##
    FirstOf(Len(t), LAMBDA i :
        CASE ~IsPending(t[i]) -> Ok
          [] IsPending(t[i]) /\ t[i].qual = "" /\ t[i].id = self ->
                Demand(i > 1 /\ t[i - 1].c = "ptr", "STRUCT_VALUE_SELF_REF")
          [] OTHER -> LookupWritten(structs, module, imports, t[i]).code)

(* tc_struct_table_register_program, of one definition. others are the     *)
(* names of the module's functions and values.                             *)
RegisterCode(structs, module, imports, others, def) ==
    Demand(\A i \in DOMAIN structs : structs[i].name # def.name \/ structs[i].module # module,
           "DUPLICATE_STRUCT") ##
    Demand(def.name \notin others, "FUNCTION_NAME_CONFLICT") ##
    Demand(def.fields # <<>>, "SYNTAX") ##
    FirstOf(Len(def.fields), LAMBDA j :
        Demand(\A k \in 1 .. (j - 1) : def.fields[k].name # def.fields[j].name,
               "STRUCT_DUPLICATE_FIELD") ##
        FieldTypeCode(structs, module, imports, def.name, def.fields[j].type))

Registered(structs, module, def) ==
    Append(structs, [name |-> def.name, module |-> module, vis |-> def.vis,
                     fields |-> def.fields, bits |-> 0])

(* Its second pass: the names and the widths of what the module registered *)
(* (the places above old), in order.                                       *)
FieldBits(structs, field) == Bits(structs, field.type) + 8 * field.padding
WithWidth(structs, module, imports, i) ==
    LET fields == [j \in DOMAIN structs[i].fields |->
                    [structs[i].fields[j] EXCEPT
                        !.type = ResolvedType(structs, module, imports, @)]]
    IN [structs EXCEPT ![i] =
            [@ EXCEPT !.fields = fields,
                      !.bits = FoldLeft(LAMBDA w, f : w + FieldBits(structs, f), 0, fields)]]
WithWidths(structs, module, imports, old) ==
    FoldLeft(LAMBDA s, i : WithWidth(s, module, imports, i), structs,
             [k \in 1 .. (Len(structs) - old) |-> old + k])

-----------------------------------------------------------------------------
(* Fields                                                                  *)

(* tc_struct_find_field *)
FieldAt(structs, t, x) ==
    LET hits == {j \in DOMAIN structs[Count(t)].fields : structs[Count(t)].fields[j].name = x}
    IN IF hits = {} THEN 0 ELSE Min(hits)
FieldOf(structs, t, x) == structs[Count(t)].fields[FieldAt(structs, t, x)]

(* The type at the end of a path of fields, and why there is none:         *)
(* tc_struct_check_field_access, tc_struct_compute_field_offsets,          *)
(* tc_struct_path_offset_bytes.                                            *)
Walk(structs, t, path) ==
    FoldLeft(LAMBDA w, x :
                CASE w.code # Ok -> w
                  [] w.code = Ok /\ Tag(w.type) # "struct" -> [w EXCEPT !.code = "TYPE_MISMATCH"]
                  [] w.code = Ok /\ Tag(w.type) = "struct" /\ FieldAt(structs, w.type, x) = 0 ->
                        [w EXCEPT !.code = "STRUCT_UNKNOWN_FIELD"]
                  [] OTHER -> [w EXCEPT !.type = FieldOf(structs, w.type, x).type,
                                        !.is_var = @ /\ FieldOf(structs, w.type, x).is_var],
             [type |-> t, is_var |-> TRUE, code |-> Ok], path)
=============================================================================

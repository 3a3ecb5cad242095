------------------------------ MODULE CheckedRun ------------------------------
(***************************************************************************)
(* The checker and the executor together: a program that is accepted, and  *)
(* whose top level is straight-line, is run, and its slots must hold what  *)
(* the checker said of them (src/vm/executor: tc_executor.c,               *)
(* tc_ptr_exec.c, tc_memblock_exec.c, tc_struct_exec.c).                   *)
(*                                                                         *)
(* A value is a tree: its constructor c, a small number n (of an integer   *)
(* its value, 0 when it was computed; of a struct its place in the struct  *)
(* table), the slot a pointer points to, and the parts of an aggregate.    *)
(* Who owns a heap block is the subject of Values and left out here.       *)
(***************************************************************************)
EXTENDS LexicalScopes

VARIABLES memory,       \* what each slot holds; slots are places of the table
          handed        \* the arguments of the calls that have returned

runVars == <<memory, handed>>
allVars == <<vars, memory, handed>>

Value(c, n, to, parts) == [c |-> c, n |-> n, to |-> to, parts |-> parts]
Plain(c) == Value(c, 0, 0, <<>>)
Unset == Plain("unset")
Trap == Plain("trap")           \* a run-time error, or a step that is not modelled
NullPtr == Plain("ptr")
Forged == Value("ptr", 0, -1, <<>>)
Garbage == Plain("garbage")     \* bytes that were written as something else
IsTrap(v) == v.c = "trap"
AnyTrap(vs) == \E i \in DOMAIN vs : IsTrap(vs[i])

-----------------------------------------------------------------------------
(* Values of a type                                                        *)

(* v is a value of type t, to the last count and struct; a pointer's slot  *)
(* is of the type it points to.                                            *)
RECURSIVE Fits(_, _)
Fits(v, t) ==
    CASE Tag(t) = "ptr" ->
            /\ v.c = "ptr" /\ v.to \in {0} \cup DOMAIN table
            /\ v.to # 0 => table[v.to].type = Inner(t)
      [] Tag(t) = "block" ->
            /\ v.c = "block" /\ Len(v.parts) = Count(t)
            /\ \A i \in DOMAIN v.parts : Fits(v.parts[i], Inner(t))
      [] Tag(t) = "struct" ->
            /\ v.c = "struct" /\ v.n = Count(t) /\ Len(v.parts) = Len(structs[Count(t)].fields)
            /\ \A i \in DOMAIN v.parts : Fits(v.parts[i], structs[Count(t)].fields[i].type)
      [] OTHER -> v.c = Tag(t)

(* tc_eval_rhs makes the element type of a memblock constructor from its   *)
(* tag alone: a struct is taken for the first of the table, and a block    *)
(* for its handle. A type that has such a block in it has no right values. *)
WideAs(t, u) == structs[Count(t)].bits = structs[Count(u)].bits
SizedByTag(t) ==
    \/ Tag(Inner(t)) = "block"
    \/ Tag(Inner(t)) = "struct" /\ ~WideAs(Inner(t), <<Struct(1)>>)
RECURSIVE Misbuilt(_)
Misbuilt(t) ==
    CASE Tag(t) = "block" -> SizedByTag(t) \/ Misbuilt(Inner(t))
      [] Tag(t) = "struct" ->
            \E j \in DOMAIN structs[Count(t)].fields : Misbuilt(structs[Count(t)].fields[j].type)
      [] OTHER -> FALSE

(* The part of v, of type t, at the end of a path of fields.               *)
RECURSIVE PartAt(_, _, _)
PartAt(v, t, path) ==
    IF path = <<>> THEN v
    ELSE PartAt(v.parts[FieldAt(structs, t, path[1])], FieldOf(structs, t, path[1]).type,
                Tail(path))
RECURSIVE WithPart(_, _, _, _)
WithPart(v, t, path, part) ==
    IF path = <<>> THEN part
    ELSE [v EXCEPT !.parts[FieldAt(structs, t, path[1])] =
            WithPart(@, FieldOf(structs, t, path[1]).type, Tail(path), part)]

(* tc_literal_to_value: the bits, under the tag that is asked for. *)
Literal(o, t) ==
    CASE Tag(t) = "ptr" -> IF o.class = "null" \/ o.n = 0 THEN NullPtr ELSE Forged
      [] OTHER -> Value(Tag(t), IF IsInteger(Tag(t)) THEN o.n ELSE 0, 0, <<>>)

(* tc_exec_memblock_clone, tc_exec_struct_store_value: a block is copied   *)
(* to the length of its new type.                                          *)
Stored(v, t) ==
    IF Tag(t) # "block" \/ v.c # "block" THEN v
    ELSE [v EXCEPT !.parts = [k \in 1 .. Count(t) |-> IF k \in DOMAIN @ THEN @[k] ELSE Unset]]

-----------------------------------------------------------------------------
(* Operands and right-hand sides of line i of module m                     *)

(* tc_exec_load_binding: the slot the checker bound the name to. *)
SlotOf(m, i, qual, x) ==
    First({b.at : b \in {a \in bound : a.module = m.name /\ a.line = i
                                       /\ a.qual = qual /\ a.name = x}})
(* tc_exec_find_symbol: the last that is defined, wherever. *)
SlotByName(x) == LatestFirst(table, Called(table, x))

(* A field operand that is a member of a module was bound as one. *)
IsMemberOf(m, i, o) == SlotOf(m, i, o.qual, o.name) = None
BaseSlot(m, i, o) ==
    IF IsMemberOf(m, i, o) THEN SlotOf(m, i, o.name, o.path[1]) ELSE SlotOf(m, i, o.qual, o.name)

(* tc_eval_operand, tc_exec_eval_field_access *)
FieldValue(mem, m, i, o) ==
    LET at == BaseSlot(m, i, o)
    IN CASE IsMemberOf(m, i, o) -> mem[at]
         [] mem[at].c = "block" -> Plain("usize")
         [] OTHER -> PartAt(mem[at], table[at].type, o.path)
OperandValue(mem, m, i, o, t) ==
    CASE o.k = "lit" -> Literal(o, t)
      [] o.k = "field" -> FieldValue(mem, m, i, o)
      [] o.k = "var" /\ o.qual = "Self" -> mem[SlotByName(o.name)]
      [] OTHER -> mem[SlotOf(m, i, o.qual, o.name)]
PointsTo(mem, m, i, o) == OperandValue(mem, m, i, o, PtrTo(Void)).to

(* An index is checked against the length of the block. What is read from  *)
(* a block that was built wrong is not followed.                           *)
Index(mem, m, i, o) == OperandValue(mem, m, i, o, Usize).n
Within(v, n) == n \in 0 .. (Len(v.parts) - 1)
Element(v, n) == IF Within(v, n) /\ v.parts[n + 1] # Garbage THEN v.parts[n + 1] ELSE Trap

TypesOfParts(r) ==
    IF r.form = "block" THEN [j \in DOMAIN r.o |-> Inner(r.type)]
    ELSE [j \in DOMAIN r.o |-> structs[Count(r.type)].fields[j].type]
Parts(mem, m, i, r) ==
    LET WrongSize == r.form = "block" /\ SizedByTag(r.type)
        vs == [j \in DOMAIN r.o |-> Stored(OperandValue(mem, m, i, r.o[j], TypesOfParts(r)[j]),
                                           TypesOfParts(r)[j])]
    IN IF WrongSize THEN [k \in 1 .. Count(r.type) |-> Garbage]
       ELSE IF r.form = "block" /\ r.op = "fill" THEN [k \in 1 .. Count(r.type) |-> vs[1]] ELSE vs

Relabels(r) == r.form \in {"cast", "bitcast"} /\ Tag(r.type) = "ptr"

(* tc_eval_rhs, for a target of type t. Pointer arithmetic leaves the slot *)
(* unless the offset is 0, and a cast gives a pointer another type: what   *)
(* such a pointer finds is the program's own affair, and the run ends.     *)
RhsValue(mem, m, i, r, t) ==
    CASE r.form \in {"lit", "const", "self", "field"} -> OperandValue(mem, m, i, r.o[1], t)
      [] r.form \in {"compare", "logic", "not", "float_compare", "ptr_compare"} -> Plain("bool")
      [] r.form = "load" ->
            IF PointsTo(mem, m, i, r.o[1]) = 0 THEN Trap ELSE mem[PointsTo(mem, m, i, r.o[1])]
      [] r.form = "address" -> Value("ptr", 0, SlotByName(r.o[1].name), <<>>)
      [] r.form = "ptr_move" ->
            IF PointsTo(mem, m, i, r.o[1]) = 0 \/ Index(mem, m, i, r.o[2]) # 0 THEN Trap
            ELSE OperandValue(mem, m, i, r.o[1], t)
      [] r.form \in {"ptr_size", "block_count"} -> Plain("usize")
      [] r.form = "block_load" ->
            Element(OperandValue(mem, m, i, r.o[1], t), Index(mem, m, i, r.o[2]))
      [] r.form = "block" -> Value("block", 0, 0, Parts(mem, m, i, r))
      [] r.form = "struct" -> Value("struct", Count(r.type), 0, Parts(mem, m, i, r))
      [] OTHER -> IF Relabels(r) THEN Trap ELSE Plain(Tag(r.type))

-----------------------------------------------------------------------------
(* One statement: what it leaves of a run [mem, ret, on], on is "go",      *)
(* "returned" or "stopped".                                                *)

(* A count that was a name is by now the value of the constant.            *)
Counted(t) ==
    [k \in DOMAIN t |->
        IF IsNamedCount(t[k]) THEN Block(table[SlotByName(t[k].id)].value) ELSE t[k]]
RhsAt(m, i) ==
    [m.stmts[i].rhs EXCEPT !.type = Counted(ResolvedType(structs, m.name, ToSet(m.imports), @))]
DeclaredAt(m, i) ==
    First({p \in Called(table, m.stmts[i].name) : table[p].line = i /\ table[p].module = m.name
                                                   /\ table[p].domain # "param"})

Put(run, at, v) ==
    IF IsTrap(v) THEN [run EXCEPT !.on = "stopped"]
    ELSE [run EXCEPT !.mem[at] = Stored(v, table[at].type)]
Stop(run) == [run EXCEPT !.on = "stopped"]

(* tc_exec_init_static_var clones structs only: a block stays as it is. *)
Define(run, m, i, v) ==
    LET at == DeclaredAt(m, i)
    IN IF m.stmts[i].op = "static_var" /\ ~IsTrap(v) THEN [run EXCEPT !.mem[at] = v]
       ELSE Put(run, at, v)

(* A struct is copied to the width of the last symbol of its name. Where   *)
(* that is another width the run ends: a block of it would be too short,   *)
(* or its source was.                                                      *)
TargetSlot(m, i) == SlotOf(m, i, m.stmts[i].qual, m.stmts[i].name)
AssignTo(run, m, i, v) ==
    LET at == TargetSlot(m, i)
        last == table[SlotByName(m.stmts[i].name)].type
    IN CASE Tag(table[at].type) # "struct" \/ IsTrap(v) -> Put(run, at, v)
         [] Tag(last) # "struct" -> Stop(run)
         [] WideAs(last, table[at].type) -> Put(run, at, v)
         [] OTHER -> Stop([run EXCEPT !.mem[at] = Garbage])
FieldAssignTo(run, m, i, v) ==
    LET s == m.stmts[i]
        o == [qual |-> s.qual, name |-> s.name, path |-> s.path]
        at == BaseSlot(m, i, o)
        path == IF IsMemberOf(m, i, o) THEN <<>> ELSE s.path
    IN IF IsTrap(v) THEN Stop(run)
       ELSE Put(run, at, WithPart(run.mem[at], table[at].type, path, v))

StoreThrough(run, m, i, r) ==
    LET to == PointsTo(run.mem, m, i, r.o[1])
    IN IF to = 0 THEN Stop(run)
       ELSE [run EXCEPT !.mem[to] = OperandValue(run.mem, m, i, r.o[2], r.type)]
BlockStore(run, m, i, r) ==
    LET at == SlotOf(m, i, r.o[1].qual, r.o[1].name)
        n == Index(run.mem, m, i, r.o[2])
    IN IF ~Within(run.mem[at], n) THEN Stop(run)
       ELSE [run EXCEPT !.mem[at].parts[n + 1] =
                IF @ = Garbage THEN @ ELSE OperandValue(run.mem, m, i, r.o[3], r.type)]

(* The bytes of elements of another type are moved as they are; the run    *)
(* ends there. A constant has no slot to copy from.                        *)
CopySource(m, i) == SlotOf(m, i, m.stmts[i].rhs.o[3].qual, m.stmts[i].rhs.o[3].name)
CopyTarget(m, i) == SlotOf(m, i, m.stmts[i].rhs.o[1].qual, m.stmts[i].rhs.o[1].name)
ElementsDiffer(m, i) ==
    ~TypeEquals(Inner(table[CopyTarget(m, i)].type), Inner(table[CopySource(m, i)].type))
BlockCopy(run, m, i, r) ==
    LET dst == CopyTarget(m, i)
        src == run.mem[CopySource(m, i)]
        d == Index(run.mem, m, i, r.o[2])
        s == Index(run.mem, m, i, r.o[4])
        n == Index(run.mem, m, i, r.o[5])
        moved == (d + 1) .. (d + n)
    IN IF \/ table[CopySource(m, i)].kind = "constant"
          \/ d + n > Len(run.mem[dst].parts) \/ s + n > Len(src.parts)
       THEN Stop(run)
       ELSE IF ElementsDiffer(m, i)
       THEN Stop([run EXCEPT !.mem[dst].parts = [k \in DOMAIN @ |-> IF k \in moved THEN Garbage ELSE @[k]]])
       ELSE [run EXCEPT !.mem[dst].parts =
                [k \in DOMAIN @ |-> IF k \in moved THEN src.parts[k - d + s] ELSE @[k]]]

Straight == {"var", "let", "assign", "field_assign", "read", "write", "ptr_store", "block_store",
             "block_copy", "static_var", "static_let", "return", "call"}

(* tc_execute_statement_at, with the value v of the right-hand side. *)
Executed(run, m, i, v) ==
    LET s == m.stmts[i]
        r == RhsAt(m, i)
    IN CASE s.op \in {"var", "let"} -> Define(run, m, i, v)
         [] s.op = "assign" -> AssignTo(run, m, i, v)
         [] s.op = "field_assign" -> FieldAssignTo(run, m, i, v)
         [] s.op = "read" -> Put(run, TargetSlot(m, i), Plain(Tag(s.type)))
         [] s.op = "ptr_store" -> StoreThrough(run, m, i, r)
         [] s.op = "block_store" -> BlockStore(run, m, i, r)
         [] s.op = "block_copy" -> BlockCopy(run, m, i, r)
         [] s.op = "return" -> [run EXCEPT !.ret = v, !.on = "returned"]
         [] OTHER -> run

(* The type the right-hand side is evaluated for. *)
Expected(m, i) ==
    LET s == m.stmts[i]
        o == [qual |-> s.qual, name |-> s.name, path |-> s.path]
        at == BaseSlot(m, i, o)
    IN CASE s.op \in {"var", "let", "static_var", "static_let"} -> table[DeclaredAt(m, i)].type
         [] s.op = "assign" -> table[TargetSlot(m, i)].type
         [] s.op = "field_assign" ->
                IF IsMemberOf(m, i, o) THEN table[at].type
                ELSE Walk(structs, table[at].type, s.path).type
         [] OTHER -> Void

ValueAt(mem, m, i) ==
    LET s == m.stmts[i]
    IN CASE s.op = "return" ->
                IF s.rhs.o = <<>> THEN Plain("void")
                ELSE LET f == m.stmts[Max({j \in 1 .. i : m.stmts[j].op = "func"})]
                         t == ResolvedType(structs, m.name, ToSet(m.imports), f.type)
                     IN Stored(OperandValue(mem, m, i, s.rhs.o[1], t), t)
         [] s.op \in {"var", "let", "assign", "field_assign", "static_var", "static_let"} ->
                RhsValue(mem, m, i, RhsAt(m, i), Expected(m, i))
         [] OTHER -> Plain("void")

(* Lines of m from i on, as far as a return or an error. *)
RunLines(run, m, lines) ==
    FoldLeft(LAMBDA r, i :
                CASE r.on # "go" -> r
                  [] r.on = "go" /\ (m.stmts[i].op \notin Straight \/ m.stmts[i].rhs.form = "funcall") ->
                        Stop(r)
                  [] OTHER -> Executed(r, m, i, ValueAt(r.mem, m, i)),
             run, lines)

-----------------------------------------------------------------------------
(* Calls: tc_exec_call_function                                            *)

(* tc_exec_param_slot: by the line of the function. *)
ParamSlot(line, x) ==
    First({p \in Called(table, x) : table[p].domain = "param" /\ table[p].line = line})

Callee(m, r) ==
    LET owner == IF r.qual = "Self" THEN m.name ELSE r.qual
    IN Signatures[First({k \in DOMAIN Signatures :
                            Signatures[k].module = owner /\ Signatures[k].name = r.name})]
BodyLines(m, line) ==
    LET last == Min({i \in DOMAIN m.stmts : i > line /\ m.stmts[i].op = "endfunc"})
    IN [k \in 1 .. (last - line - 1) |-> line + k]

(* Arguments are evaluated and put into their slots one after the other. *)
WithArguments(run, m, i, sig) ==
    FoldLeft(LAMBDA r, k :
                Put(r, ParamSlot(sig.line, sig.params[k].name),
                    RhsValue(r.mem, m, i, RhsOf(RhsAt(m, i).o[k]), sig.params[k].type)),
             run, [k \in DOMAIN sig.params |-> k])
CallAt(run, m, i) ==
    LET sig == Callee(m, RhsAt(m, i))
        given == WithArguments(run, m, i, sig)
        left == RunLines(given, ModuleCalled(sig.module),
                         BodyLines(ModuleCalled(sig.module), sig.line))
    IN [run |-> left,
        handed |-> {[slot |-> p, given |-> given.mem[p], left |-> left.mem[p]] :
                        p \in {ParamSlot(sig.line, sig.params[k].name) : k \in DOMAIN sig.params}}]

-----------------------------------------------------------------------------
(* The run                                                                 *)

Run(mem) == [mem |-> mem, ret |-> Plain("void"), on |-> "go"]

(* tc_exec_init_all_static_vars: of the libraries, then of the entry. *)
StaticLines(m) == Places(m, LAMBDA i : m.stmts[i].op \in {"static_var", "static_let"})
Initialised(run, m) ==
    FoldLeft(LAMBDA r, i : Define(r, m, i, ValueAt(r.mem, m, i)), run, StaticLines(m))
WithStatics ==
    LET order == Tail(program) \o <<Head(program)>>
    IN FoldLeft(LAMBDA r, k : Initialised(r, order[k]), Run([p \in DOMAIN table |-> Unset]),
                [k \in DOMAIN order |-> k])

StaysThere == UNCHANGED <<program, turn, next, blocks, static, scopes, bound, report>>

Begin ==
    /\ stage = "accepted"
    /\ \A i \in DOMAIN Module.stmts : Module.stmts[i].op \in Straight
    /\ stage' = "running" /\ memory' = WithStatics.mem
    /\ StaysThere /\ UNCHANGED <<pos, handed>>

Becomes(run) ==
    /\ memory' = run.mem /\ pos' = pos + 1
    /\ stage' = IF run.on = "stopped" THEN "stopped" ELSE "running"
    /\ StaysThere
Plainly(ops) ==
    /\ At("running", ops) /\ Line.rhs.form # "funcall"
    /\ Becomes(Executed(Run(memory), Module, pos, ValueAt(memory, Module, pos)))
    /\ UNCHANGED handed

RunDefine == Plainly({"var", "let"})
RunAssign == Plainly({"assign", "field_assign"})
RunStore == Plainly({"ptr_store", "block_store", "block_copy"})
RunIo == Plainly({"read", "write"})
AfterCall(call) ==
    /\ Becomes(IF call.run.on = "stopped" THEN call.run
               ELSE Executed(Run(call.run.mem), Module, pos, call.run.ret))
    /\ handed' = handed \cup call.handed
RunCall ==
    /\ Reading("running") /\ Line.rhs.form = "funcall"
    /\ AfterCall(CallAt(Run(memory), Module, pos))
RunDone ==
    /\ stage = "running" /\ pos > Len(Module.stmts)
    /\ stage' = "finished" /\ StaysThere /\ UNCHANGED <<pos, memory, handed>>

RunInit == Init /\ memory = <<>> /\ handed = {}
RunNext ==
    \/ Analyse /\ UNCHANGED runVars
    \/ Begin \/ RunDefine \/ RunAssign \/ RunStore \/ RunIo \/ RunCall \/ RunDone
Spec == RunInit /\ [][RunNext]_allVars

-----------------------------------------------------------------------------
(* The slots some statement is known to spoil: tc_memblock_check_copy does *)
(* not compare the elements of the source, and an assignment of a struct   *)
(* takes the width of a homonym.                                           *)
CopyLines(m) == {i \in DOMAIN m.stmts : m.stmts[i].op = "block_copy"}
MixedCopies ==
    {CopyTarget(m, i) : <<m, i>> \in
        {c \in UNION {{<<program[k], j>> : j \in CopyLines(program[k])} : k \in DOMAIN program} :
            ElementsDiffer(c[1], c[2])}}
WidthMistaken(p) ==
    LET last == table[SlotByName(table[p].name)].type
    IN Tag(table[p].type) = "struct" /\ Tag(last) = "struct" /\ ~WideAs(last, table[p].type)

(* What has been given a value has one of its type: what the checker lets  *)
(* through never puts into a slot, by a name, a field, a pointer, a block, *)
(* an argument or a return, a value of another type, struct or length, nor *)
(* a pointer to a slot of another type (tc_type_check_rhs and the files it *)
(* calls, against tc_execute_statement_at). Left out are slots of a type   *)
(* whose constructor is wrong, and those that MixedCopies and              *)
(* WidthMistaken name.                                                     *)
SlotsHoldTheirType ==
    \A p \in DOMAIN memory :
        \/ memory[p] = Unset \/ Fits(memory[p], table[p].type)
        \/ Misbuilt(table[p].type) \/ WidthMistaken(p) \/ p \in MixedCopies

(* The blocks of an accepted memblock_copy have elements of one type       *)
(* (tc_memblock_check_copy; the language standard, 6.7.2.4, demands of     *)
(* both that theirs is the one the statement names). The code does not     *)
(* keep it: it is violated on the programs of the run checker (README,     *)
(* section 6, 21).                                                         *)
CopiesMatch ==
    stage \in {"accepted", "running"} =>
        \A k \in DOMAIN program : \A i \in CopyLines(program[k]) : ~ElementsDiffer(program[k], i)

(* A function returns with the arguments it was given: neither an          *)
(* assignment nor a store through a pointer that was made from a parameter *)
(* changes one (tc_func_check_writable_target, tc_ptr_rhs_target_readonly).*)
(* A block is left out: the callee may store into its own copy. A pointer  *)
(* loses its mark on the way through memory or a call (the language        *)
(* standard says so, line 797): no program here hands one on like that.    *)
ParamsKeepTheirValue ==
    \A h \in handed : Tag(table[h.slot].type) # "block" => h.left = h.given
=============================================================================

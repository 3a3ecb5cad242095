------------------------------- MODULE Checker -------------------------------
(***************************************************************************)
(* The semantic checker: what tc_analyze does with a program between the   *)
(* loading of its modules and the control-flow graph                       *)
(* (src/vm/analyzer/tc_analyzer.c), one action per kind of statement in    *)
(* each of its passes:                                                     *)
(*   structure its layers, modes and visibilities (tc_module.c),            *)
(*   register  the structs of a module, and the struct names of all types  *)
(*             (tc_struct_check.c), the imported modules first;            *)
(*   collect   the first pass: symbols and the scopes they live in         *)
(*             (tc_analyzer_pass1.c), the imported modules first;          *)
(*   labels    the labels of a module (tc_analyze_6a.c), and               *)
(*   check     the second pass: names and types (tc_analyzer_pass2.c), the *)
(*             entry module first.                                         *)
(* The first fault ends the analysis.                                      *)
(*                                                                         *)
(* A program is the sequence of its modules, the entry first. A module is  *)
(* [name, mode, imports, structs, stmts]; its statements are tokens        *)
(* [op, name, qual, path, vis, type, rhs, params, fmt] in source order: an *)
(* if, a while and a func stand before their body, else between the arms,  *)
(* end and endfunc behind. A token's place is its line.                    *)
(***************************************************************************)
EXTENDS Judgements

CONSTANT Programs           \* the programs to look at, in families
ASSUME ProgramsAssumption == \A family \in Programs : \A p \in family : Len(p) > 0

VARIABLES program,          \* the modules, the entry first
          stage,
          turn, pos,        \* which module of the stage, which token
          next,             \* TcStmtIndex: the next statement's index
          blocks,           \* the open funcs, ifs and whiles, innermost last
          structs, table, frames, labels,
          scopes,           \* the visible tables of the open blocks
          bound,            \* what each name that was accepted is bound to
          report            \* the diagnostic

static == <<structs, table, frames, labels>>
vars == <<program, stage, turn, pos, next, blocks, structs, table, frames, labels, scopes, bound,
          report>>

-----------------------------------------------------------------------------
(* Where the checker is                                                    *)

EntryLast == {"register", "signatures", "collect"}
ModuleOf(s, k) == program[IF s \notin EntryLast THEN k ELSE IF k < Len(program) THEN k + 1 ELSE 1]
Module == ModuleOf(stage, turn)
(* The imports and the structs of a module take the first indices. *)
FirstIndex(m) == Len(m.imports) + Len(m.structs)
Imports == {Module.imports[i] : i \in DOMAIN Module.imports}

Resolved(t) == ResolvedType(structs, Module.name, Imports, t)
ResolvedRhs(r) == [r EXCEPT !.type = Resolved(@)]
Line == Module.stmts[pos]
Rhs == ResolvedRhs(Line.rhs)
Type == Resolved(Line.type)

Reading(s) == stage = s /\ pos <= Len(Module.stmts)
At(s, ops) == Reading(s) /\ Line.op \in ops

(* tc_member_index_build *)
(* How many functions, ifs and whiles are open before the token. *)
Depth(m, i) ==
    Cardinality({j \in 1 .. (i - 1) : m.stmts[j].op \in {"func", "if", "while"}})
        - Cardinality({j \in 1 .. (i - 1) : m.stmts[j].op \in {"end", "endfunc"}})
IsTopLevel(m, i) == Depth(m, i) = 0
MemberOps == {"func", "static_var", "static_let"}
(* The places of the tokens of a module that Is holds for, in order. *)
Places(m, Is(_)) == SelectSeq([i \in DOMAIN m.stmts |-> i], Is)
Members(m) ==
    [i \in DOMAIN m.structs |-> [name |-> m.structs[i].name, kind |-> "struct",
                                 vis |-> m.structs[i].vis]] \o
    LET places == Places(m, LAMBDA i : m.stmts[i].op \in MemberOps /\ IsTopLevel(m, i))
    IN [k \in DOMAIN places |-> [name |-> m.stmts[places[k]].name, kind |-> m.stmts[places[k]].op,
                                 vis |-> m.stmts[places[k]].vis]]

(* tc_module_collect_signatures: of all modules, with resolved types. *)
Params(m, f) ==
    [j \in DOMAIN f.params |->
        [f.params[j] EXCEPT !.type = ResolvedType(structs, m.name, ToSet(m.imports), @)]]
Signatures ==
    FlattenSeq([k \in DOMAIN program |->
        LET m == program[k]
            places == Places(m, LAMBDA i : m.stmts[i].op = "func")
        IN [i \in DOMAIN places |->
                LET f == m.stmts[places[i]]
                IN [module |-> m.name, name |-> f.name, vis |-> f.vis, params |-> Params(m, f),
                    ret |-> ResolvedType(structs, m.name, ToSet(m.imports), f.type),
                    line |-> places[i]]]])

InFunction == \E k \in DOMAIN blocks : blocks[k].kind = "func"
Function == Module.stmts[blocks[1].line]
FunctionId == IF InFunction THEN blocks[1].owner ELSE -1
InLoop == \E k \in DOMAIN blocks : blocks[k].kind = "while"
Path == LET inner == SelectSeq(blocks, LAMBDA b : b.kind # "func")
        IN [k \in DOMAIN inner |-> <<inner[k].owner, inner[k].kind>>]

-----------------------------------------------------------------------------
(* Moving on                                                               *)

Reject(code) ==
    /\ stage' = "rejected"
    /\ report' = [code |-> code, stage |-> stage, module |-> Module.name, line |-> pos]
    /\ UNCHANGED <<program, turn, pos, next, blocks, static, scopes, bound>>

(* A statement that is judged and changes nothing else in the stage. *)
Passed == stage' = stage /\ report' = report /\ turn' = turn /\ pos' = pos + 1
Judged(code, Then) == IF code = Ok THEN Passed /\ Then ELSE Reject(code)
TakeIndex == next' = next + 1

OpenBlock(kind) == blocks' = Append(blocks, [kind |-> kind, owner |-> next, line |-> pos])
CloseBlock == blocks' = Front(blocks)

(* The next module of the stage, or the stage after it. *)
NextModule(same, after, n) ==
    /\ pos > n
    /\ stage' = IF turn < Len(program) THEN same ELSE after
    /\ turn' = IF turn < Len(program) THEN turn + 1 ELSE 1
    /\ pos' = 1 /\ next' = FirstIndex(ModuleOf(stage', turn')) /\ blocks' = <<>>

-----------------------------------------------------------------------------
(* structure: tc_module_check_structure, of the entry and then, as they    *)
(* are loaded, of the libraries                                            *)

(* tc_rhs_mentions_self, tc_stmt_check_self: a program has no Self.        *)
MentionsSelf(r) ==
    \/ r.form = "self"
    \/ r.form = "funcall" /\ (r.qual = "Self" \/ \E i \in DOMAIN r.o : RhsOf(r.o[i]).form = "self")
StatementSelf(s) ==
    CASE s.op = "call" -> s.rhs.qual = "Self"
      [] OTHER -> s.op \in {"var", "let", "assign", "if", "while"} /\ MentionsSelf(s.rhs)

(* tc_stmt_layer; the imports and the structs stand before all statements. *)
Layer(op) ==
    CASE op \in {"var", "let", "static_var", "static_let"} -> 1
      [] op = "func" -> 2
      [] OTHER -> 3
TopLevelCode(m, s) ==
    IF m.mode = "program" THEN Demand(s.op \notin MemberOps, "PROGRAM_MODE_MISUSE")
    ELSE Demand(s.op \notin MemberOps \/ s.vis # "none", "MISSING_VISIBILITY") ##
         Demand(s.op \notin {"var", "let"}, "MODULE_LAYER")
StructureCode(m) ==
    FirstOf(Len(m.structs), LAMBDA i :
        IF m.mode = "program" THEN Demand(m.structs[i].vis = "none", "PROGRAM_MODE_MISUSE")
        ELSE Demand(m.structs[i].vis # "none", "MISSING_VISIBILITY")) ##
    FirstOf(Len(m.stmts), LAMBDA i :
        IF ~IsTopLevel(m, i) THEN Ok
        ELSE Demand(\A j \in 1 .. (i - 1) :
                        IsTopLevel(m, j) => Layer(m.stmts[j].op) <= Layer(m.stmts[i].op),
                    "MODULE_LAYER") ##
             TopLevelCode(m, m.stmts[i])) ##
    Demand(m.mode = "lib" \/ \A i \in DOMAIN m.stmts : ~StatementSelf(m.stmts[i]),
           "PROGRAM_MODE_MISUSE")

CheckStructure ==
    /\ stage = "structure"
    /\ IF StructureCode(Module) # Ok THEN Reject(StructureCode(Module))
       ELSE /\ NextModule("structure", "register", 0)
            /\ UNCHANGED <<program, static, scopes, bound, report>>

-----------------------------------------------------------------------------
(* register                                                                *)

RegisterStruct ==
    /\ stage = "register" /\ pos <= Len(Module.structs)
    /\ LET def == Module.structs[pos]
           code == RegisterCode(structs, Module.name, Imports,
                        {Module.stmts[i].name : i \in {j \in DOMAIN Module.stmts :
                            IsTopLevel(Module, j) /\ Module.stmts[j].op \in MemberOps \cup {"var", "let"}}},
                        def)
       IN Judged(code, structs' = Registered(structs, Module.name, def)
                         /\ UNCHANGED <<program, next, blocks, table, frames, labels, scopes, bound>>)

(* tc_struct_resolve_stmt_types, tc_struct_resolve_rhs_types *)
TypesCode(known) ==
    FirstOf(Len(Module.stmts), LAMBDA i :
        LET s == Module.stmts[i]
            Code(t) == ResolveCode(known, Module.name, Imports, t)
        IN Code(s.type) ## FirstOf(Len(s.params), LAMBDA j : Code(s.params[j].type)) ##
           Code(s.rhs.type))

(* The structs of the module are the last ones of the table. *)
ResolveTypes ==
    /\ stage = "register" /\ pos > Len(Module.structs)
    /\ LET old == Len(structs) - Len(Module.structs)
           known == WithWidths(structs, Module.name, Imports, old)
       IN IF TypesCode(known) # Ok THEN Reject(TypesCode(known))
          ELSE /\ structs' = known
               /\ NextModule("register", "signatures", Len(Module.structs))
               /\ UNCHANGED <<program, table, frames, labels, scopes, bound, report>>

(* tc_func_check_signatures, tc_check_func_params,                         *)
(* tc_check_value_binding_func_conflicts: of the entry module.             *)
SignaturesCode ==
    LET m == program[1]
        funcs == SelectSeq(m.stmts, LAMBDA s : s.op = "func")
        names == {funcs[i].name : i \in DOMAIN funcs}
        values == SelectSeq([i \in DOMAIN m.stmts |->
                                [op |-> IF IsTopLevel(m, i) THEN m.stmts[i].op ELSE "",
                                 name |-> m.stmts[i].name]],
                            LAMBDA s : s.op \in {"var", "let", "static_var", "static_let"})
    IN FirstOf(Len(funcs), LAMBDA i :
            Demand(\A j \in 1 .. (i - 1) : funcs[j].name # funcs[i].name, "FUNCTION_NAME_CONFLICT") ##
            FirstOf(Len(funcs[i].params), LAMBDA k :
                Demand(\A j \in 1 .. (k - 1) : funcs[i].params[j].name # funcs[i].params[k].name,
                       "DUPLICATE_PARAMETER") ##
                Demand(funcs[i].params[k].name \notin names, "FUNCTION_NAME_CONFLICT"))) ##
       FirstOf(Len(values), LAMBDA i : Demand(values[i].name \notin names, "FUNCTION_NAME_CONFLICT"))
CheckSignatures ==
    /\ stage = "signatures"
    /\ IF SignaturesCode # Ok THEN Reject(SignaturesCode)
       ELSE stage' = "collect"
            /\ UNCHANGED <<program, turn, pos, next, blocks, static, scopes, bound, report>>

-----------------------------------------------------------------------------
(* collect: tc_pass1_collect_stmt                                          *)

(* tc_pass1_param_name_conflict: at any depth of the function. *)
IsParam(x) == InFunction /\ \E j \in DOMAIN Function.params : Function.params[j].name = x

Symbol(x, type, slot, domain, kind) ==
    [name |-> x, type |-> type, slot |-> slot, domain |-> domain, line |-> pos, def |-> next,
     kind |-> kind, vis |-> Line.vis,
     value |-> IF Line.rhs.form = "lit" THEN Line.rhs.o[1].n ELSE 0]

Declare(domain, kind) ==
    table' = AddSymbol(table, frames,
                Symbol(Line.name, Type, IF kind = "variable" THEN SlotCount(table) ELSE -1,
                       domain, kind))
NewHere == Demand(FindInCurrentScope(table, frames, Line.name) = None, "DUPLICATE_DEFINITION")
Domain == IF InFunction THEN "local" ELSE "global"
KindOf(op) == IF op \in {"let", "static_let"} THEN "constant" ELSE "variable"

CollectVar ==
    /\ At("collect", {"var", "let"})
    /\ Judged(NewHere ## Demand(~IsParam(Line.name), "DUPLICATE_DEFINITION"),
              /\ Declare(Domain, KindOf(Line.op)) /\ TakeIndex
              /\ UNCHANGED <<program, blocks, structs, frames, labels, scopes, bound>>)

CollectStatic ==
    /\ At("collect", {"static_var", "static_let"})
    /\ Judged(NewHere,
              /\ Declare("static", KindOf(Line.op)) /\ TakeIndex
              /\ UNCHANGED <<program, blocks, structs, frames, labels, scopes, bound>>)

CollectFunc ==
    /\ At("collect", {"func"})
    /\ LET inner == Append(frames, Len(table))
           Param(t, p) == AddSymbol(t, inner,
                            Symbol(p.name, Resolved(p.type), SlotCount(t), "param", "variable"))
       IN Judged(Demand(IsInjective([j \in DOMAIN Line.params |-> Line.params[j].name]),
                        "DUPLICATE_PARAMETER"),
              /\ frames' = inner /\ table' = FoldLeft(Param, table, Line.params)
              /\ OpenBlock("func") /\ TakeIndex
              /\ UNCHANGED <<program, structs, labels, scopes, bound>>)

CollectOpen ==
    /\ At("collect", {"if", "while"})
    /\ frames' = Append(frames, Len(table))
    /\ OpenBlock(IF Line.op = "if" THEN "then" ELSE "while") /\ TakeIndex /\ Passed
    /\ UNCHANGED <<program, structs, table, labels, scopes, bound>>

(* tc_symbol_table_pop_scope: the labels of the level first. *)
PopScope ==
    /\ labels' = PopLabels(labels, Level(frames))
    /\ frames' = Front(frames)

(* The else arm is a block of its own, of the same if. *)
InElse == blocks' = [blocks EXCEPT ![Len(blocks)].kind = "else", ![Len(blocks)].line = pos]
CollectElse ==
    /\ At("collect", {"else"})
    /\ labels' = PopLabels(labels, Level(frames))
    /\ frames' = Append(Front(frames), Len(table))
    /\ InElse /\ Passed
    /\ UNCHANGED <<program, next, structs, table, scopes, bound>>

(* The arms of an if close together, behind the last one. *)
CollectEnd ==
    /\ At("collect", {"end"})
    /\ PopScope /\ CloseBlock /\ Passed
    /\ table' = MarkScopeEnd(table, Last(blocks).owner, next)
    /\ UNCHANGED <<program, next, structs, scopes, bound>>

CollectEndFunc ==
    /\ At("collect", {"endfunc"})
    /\ PopScope /\ CloseBlock /\ Passed
    /\ UNCHANGED <<program, next, structs, table, scopes, bound>>

CollectLabel ==
    /\ At("collect", {"label"})
    /\ LET entry == [name |-> Line.name, func |-> FunctionId, index |-> next, path |-> <<>>,
                     depth |-> Level(frames)]
       IN Judged(Demand(~LabelTaken(labels, entry), "DUPLICATE_LABEL"),
              /\ labels' = Append(labels, entry) /\ TakeIndex
              /\ UNCHANGED <<program, blocks, structs, table, frames, scopes, bound>>)

Structural == {"func", "endfunc", "if", "while", "else", "end", "label"}
Declaring == {"var", "let", "static_var", "static_let"}
CollectOther ==
    /\ Reading("collect") /\ Line.op \notin Structural \cup Declaring
    /\ TakeIndex /\ Passed
    /\ UNCHANGED <<program, blocks, static, scopes, bound>>

(* The symbols of the module get its name. *)
CollectedModule ==
    /\ stage = "collect"
    /\ NextModule("collect", "labels", Len(Module.stmts))
    /\ table' = [i \in DOMAIN table |->
                    IF table[i].module = "" THEN [table[i] EXCEPT !.module = Module.name]
                    ELSE table[i]]
    /\ labels' = IF turn = Len(program) THEN <<>> ELSE labels
    /\ UNCHANGED <<program, structs, frames, scopes, bound, report>>

-----------------------------------------------------------------------------
(* labels: tc_6a_collect_labels_stmt                                       *)

Same == UNCHANGED <<program, structs, table, frames, scopes, bound>>

LabelsOpen ==
    /\ At("labels", {"func", "if", "while"})
    /\ OpenBlock(IF Line.op = "if" THEN "then" ELSE Line.op) /\ TakeIndex /\ Passed
    /\ Same /\ UNCHANGED labels
LabelsElse == At("labels", {"else"}) /\ InElse /\ Passed /\ Same /\ UNCHANGED <<next, labels>>
LabelsClose ==
    At("labels", {"end", "endfunc"}) /\ CloseBlock /\ Passed /\ Same /\ UNCHANGED <<next, labels>>

LabelsLabel ==
    /\ At("labels", {"label"})
    /\ LET entry == [name |-> Line.name, func |-> FunctionId, index |-> next, path |-> Path,
                     depth |-> Len(Path)]
       IN Judged(Demand(InFunction, "LABEL_OUTSIDE_FUNCTION") ##
                 Demand(~InLoop, "LABEL_INSIDE_LOOP") ##
                 Demand(~LabelTaken(labels, entry), "DUPLICATE_LABEL"),
              /\ labels' = Append(labels, entry) /\ TakeIndex
              /\ Same /\ UNCHANGED blocks)
LabelsGoto ==
    /\ At("labels", {"goto"})
    /\ Judged(Demand(InFunction, "GOTO_OUTSIDE_FUNCTION") ## Demand(~InLoop, "GOTO_INSIDE_LOOP"),
              TakeIndex /\ Same /\ UNCHANGED <<blocks, labels>>)
LabelsOther ==
    /\ Reading("labels") /\ Line.op \notin Structural \cup {"goto"}
    /\ TakeIndex /\ Passed /\ Same /\ UNCHANGED <<blocks, labels>>

(* The second pass of the module starts from its top level. *)
LabelsDone ==
    /\ stage = "labels" /\ pos > Len(Module.stmts)
    /\ stage' = "check" /\ pos' = 1 /\ next' = FirstIndex(Module) /\ blocks' = <<>>
    /\ scopes' = <<<<>>>>
    /\ UNCHANGED <<program, turn, static, bound, report>>

-----------------------------------------------------------------------------
(* check: tc_pass2_check_stmt                                              *)

Env(self) ==
    [table |-> table, visible |-> Last(scopes), members |-> Members(Module), structs |-> structs,
     sigs |-> Signatures, index |-> next, in_function |-> InFunction, module |-> Module.name,
     imports |-> Imports, self |-> self]

(* tc_resolved_binding_set: what the names of the statement are bound to.  *)
Bind(n, at) == [module |-> Module.name, line |-> pos, index |-> next, qual |-> n.qual,
                name |-> n.name, at |-> at]
BindBase(b, base) == Bind(IF base.member THEN Member(b) ELSE b, base.at)
BindField(e, b) == BindBase(b, BaseOf(e, b))
Binding(e, o) == IF o.k = "var" THEN Bind(o, Resolve(e, o).at) ELSE BindField(e, Split(e, o))
OperandBindings(e, r) ==
    {Binding(e, o) : o \in {r.o[i] : i \in {j \in DOMAIN r.o : r.o[j].k # "lit"}}}

(* A statement that was judged and leaves the tables alone. *)
JudgedUse(code, bindings) ==
    Judged(code, /\ bound' = bound \cup bindings /\ TakeIndex
                 /\ UNCHANGED <<program, blocks, static, scopes>>)

(* tc_pass2_check_nested_func_name_conflict *)
NotAFunction(x) == Demand(MemberKind(Members(Module), x) # "func", "FUNCTION_NAME_CONFLICT")

(* tc_visible_add_from_global *)
Own == ByDefIndex(table, Line.name, next, Module.name)
Show(at, readonly) ==
    [scopes EXCEPT ![Len(scopes)] = Append(@, [at |-> at, readonly |-> readonly])]

(* tc_pass2_bind_ptr_origin: the mark of a pointer whose target may not be *)
(* stored to, on the symbol and on what the block shows under the name.    *)
IsPtr(t) == Tag(t) = "ptr"
Mark(t, at, readonly) ==
    IF IsPtr(t[at].type) THEN [t EXCEPT ![at].readonly = readonly] ELSE t
MarkVisible(x, readonly) ==
    LET k == VisibleAs(table, Last(scopes), x)
    IN IF k = None \/ ~IsPtr(table[Last(scopes)[k].at].type) THEN scopes
       ELSE [scopes EXCEPT ![Len(scopes)][k].readonly = readonly]

CheckVar ==
    /\ At("check", {"var"})
    /\ LET e == Env(Line.name)
           type == WithCounts(e, Type)
           typed == [table EXCEPT ![Own].type = type]
           readonly == IsPtr(type) /\ TargetReadonly([e EXCEPT !.table = typed], Rhs)
       IN Judged(NotAFunction(Line.name) ## CountsCode(e, Type) ## RhsCode(e, Rhs, type),
              /\ table' = Mark(typed, Own, readonly)
              /\ scopes' = Show(Own, readonly)
              /\ bound' = bound \cup OperandBindings(e, Rhs) /\ TakeIndex
              /\ UNCHANGED <<program, blocks, structs, frames, labels>>)

(* A constant is computed here, from constants (tc_eval_const_rhs).        *)
ConstantSource(e, o) ==
    LET at == IF o.k = "field" THEN FieldBase(e, o).at ELSE Named(e, o.qual, o.name)
    IN IF o.k = "lit" THEN Ok
       ELSE Demand(at # None, "UNDEFINED_VARIABLE") ##
            Demand(e.table[at].kind = "constant", "CONSTANT_EXPRESSION")
ConstantSources(e, r) == FirstOf(Len(r.o), LAMBDA i : ConstantSource(e, r.o[i]))

(* Its cast: TC_RHS_CONST_CAST. *)
ConstCastCode(e, r, t) ==
    LET o == r.o[1]
        s == Source(e, o, 64)
    IN Mismatch(SameTag(r.type, t)) ## Mismatch(Tag(r.type) \notin {"struct", "block", "void"}) ##
       Mismatch((o.class = "null") = (Tag(r.type) = "ptr")) ##
       ConstantSource(e, o) ## (IF o.class = "null" THEN Ok ELSE InRangeOf(o, s)) ##
       Demand(r.mode # "truncate"
                \/ (IsInteger(Tag(r.type)) /\ IsInteger(Tag(s))
                       /\ Bits(e.structs, r.type) < Bits(e.structs, s)), "MODE_MISMATCH")

Computed == {"load", "address", "ptr_move", "ptr_compare", "block_load", "funcall"}
BareConst(r) == r.form = "const" /\ r.o[1].qual = ""
LetCode(e, r, t) ==
    IF r.form = "cast" THEN ConstCastCode(e, r, t)
    ELSE (IF BareConst(r) THEN Resolve(e, r.o[1]).code ## ConstantSources(e, r) ELSE Ok) ##
         TypedCode(e, r, t) ##
         Demand(r.form \notin Computed, "CONSTANT_EXPRESSION") ##
         (IF r.form = "ptr_size" THEN Ok ELSE ConstantSources(e, r))
LetValue(e, r) ==
    CASE r.form = "lit" -> r.o[1].n
      [] r.form = "const" -> e.table[Resolve(e, r.o[1]).at].value
      [] OTHER -> 0
CheckLet ==
    /\ At("check", {"let"})
    /\ LET e == Env("")
           type == WithCounts(e, Type)
       IN Judged(NotAFunction(Line.name) ## CountsCode(e, Type) ## LetCode(e, Rhs, type),
              /\ table' = [table EXCEPT ![Own].type = type, ![Own].value = LetValue(e, Rhs)]
              /\ scopes' = Show(Own, FALSE)
              /\ bound' = bound \cup OperandBindings(e, Rhs) /\ TakeIndex
              /\ UNCHANGED <<program, blocks, structs, frames, labels>>)

(* The rest of a static is checked with its value. *)
CheckStatic ==
    /\ At("check", {"static_var", "static_let"})
    /\ LET e == Env(Line.name)
           type == WithCounts(e, Type)
       IN Judged(CountsCode(e, Type) ##
                 (IF Rhs.form = "block" THEN BlockCtorCode(e, Rhs, type) ELSE Ok),
              /\ table' = [table EXCEPT ![Own].type = type] /\ TakeIndex
              /\ UNCHANGED <<program, blocks, structs, frames, labels, scopes, bound>>)

(* The parameters, and nothing of the module. *)
ParamPlace(x) ==
    LET hits == {i \in Called(table, x) : table[i].domain = "param" /\ table[i].line = pos}
    IN ByDefIndex(table, x, table[Min(hits)].def, Module.name)
CheckFunc ==
    /\ At("check", {"func"})
    /\ scopes' = Append(scopes, [j \in DOMAIN Line.params |->
                    [at |-> ParamPlace(Line.params[j].name), readonly |-> FALSE]])
    /\ OpenBlock("func") /\ TakeIndex /\ Passed
    /\ UNCHANGED <<program, static, bound>>

(* The blocks of an if and a while start with a copy of what is visible:   *)
(* tc_visible_copy_from.                                                   *)
CheckOpen ==
    /\ At("check", {"if", "while"})
    /\ LET e == Env("")
       IN Judged(ConditionCode(e, Rhs),
              /\ scopes' = Append(scopes, Last(scopes))
              /\ bound' = bound \cup OperandBindings(e, Rhs)
              /\ OpenBlock(IF Line.op = "if" THEN "then" ELSE "while") /\ TakeIndex
              /\ UNCHANGED <<program, static>>)
CheckElse ==
    /\ At("check", {"else"})
    /\ scopes' = Append(Front(scopes), Last(Front(scopes))) /\ InElse /\ Passed
    /\ UNCHANGED <<program, next, static, bound>>
CheckClose ==
    /\ At("check", {"end", "endfunc"})
    /\ scopes' = Front(scopes) /\ CloseBlock /\ Passed
    /\ UNCHANGED <<program, next, static, bound>>

CheckWrite ==
    /\ At("check", {"write"})
    /\ JudgedUse(Operand(Env(""), Rhs.o[1], Tag(Type)) ## FormatCode(Tag(Type), Line.fmt),
                 OperandBindings(Env(""), Rhs))

CheckRead ==
    /\ At("check", {"read"})
    /\ LET e == Env("")
           at == ResolveAsTarget(e, Line).at
       IN JudgedUse(TargetCode(e, Line) ## Mismatch(SameTag(TypeAt(e, at), Type)),
                    {Bind(Line, at)})

(* tc_reclassify_qualified_binding_assign: x.y = where no x is known and   *)
(* module x has a member y.                                                *)
FieldTarget == [k |-> "field", qual |-> Line.qual, name |-> Line.name, path |-> Line.path,
                class |-> "none", n |-> 0]
MaybeQualified(e) ==
    Line.op = "field_assign" /\ Len(Line.path) = 1 /\ MayBeMember(e, FieldTarget)
QualifiedTarget == [qual |-> Line.name, name |-> Line.path[1]]
IsQualified(e) == MaybeQualified(e) /\ Named(e, Line.name, Line.path[1]) # None
QualifiedCode(e) ==
    Demand(~MaybeQualified(e) \/ ~IsPrivateElsewhere(table, QualifiedTarget),
           "PRIVATE_MEMBER_ACCESS")

AssignCode(e, n) == TargetCode(e, n) ## RhsCode(e, Rhs, TypeAt(e, ResolveAsTarget(e, n).at))
CheckAssign ==
    /\ At("check", {"assign", "field_assign"})
    /\ LET e == Env("")
           n == IF Line.op = "assign" THEN [qual |-> Line.qual, name |-> Line.name]
                ELSE QualifiedTarget
           at == ResolveAsTarget(e, n).at
           readonly == TargetReadonly(e, Rhs)
       IN /\ Line.op = "assign" \/ IsQualified(e)
          /\ Judged(QualifiedCode(e) ## AssignCode(e, n),
                /\ IF IsPtr(TypeAt(e, at))
                   THEN table' = Mark(table, at, readonly) /\ scopes' = MarkVisible(n.name, readonly)
                   ELSE UNCHANGED <<table, scopes>>
                /\ bound' = bound \cup {Bind(n, at)} \cup OperandBindings(e, Rhs) /\ TakeIndex
                /\ UNCHANGED <<program, blocks, structs, frames, labels>>)

CheckFieldAssign ==
    /\ At("check", {"field_assign"}) /\ ~IsQualified(Env(""))
    /\ LET e == Env("")
       IN JudgedUse(QualifiedCode(e) ## FieldAssignCode(e, FieldTarget, Rhs),
                    {Bind(Split(e, FieldTarget), ResolveBase(e, Split(e, FieldTarget)).at)}
                        \cup OperandBindings(e, Rhs))

StoreCode(e) ==
    CASE Line.op = "ptr_store" -> PtrStoreCode(e, Rhs)
      [] Line.op = "block_store" -> BlockStoreCode(e, Rhs)
      [] Line.op = "block_copy" -> BlockCopyCode(e, Rhs)
      [] OTHER -> MemcopyCode(e, Rhs)
CheckStore ==
    /\ At("check", {"ptr_store", "block_store", "block_copy", "memcopy_unsafe"})
    /\ JudgedUse(StoreCode(Env("")), OperandBindings(Env(""), Rhs))

CheckCall ==
    /\ At("check", {"call"})
    /\ JudgedUse(CallCode(Env(""), Rhs, <<>>), OperandBindings(Env(""), Rhs))
CheckReturn ==
    /\ At("check", {"return"})
    /\ JudgedUse(IF InFunction THEN ReturnCode(Env(""), Line.rhs.o, Resolved(Function.type))
                 ELSE "RETURN_OUTSIDE_FUNCTION",
                 OperandBindings(Env(""), Rhs))

CheckLoopJump ==
    /\ At("check", {"break", "continue"})
    /\ JudgedUse(Demand(InLoop, IF Line.op = "break" THEN "BREAK_OUTSIDE_LOOP"
                                ELSE "CONTINUE_OUTSIDE_LOOP"), {})

CheckLabel ==
    At("check", {"label"}) /\ JudgedUse(Demand(InFunction, "LABEL_OUTSIDE_FUNCTION"), {})
CheckGoto ==
    /\ At("check", {"goto"})
    /\ LET target == ResolveGoto(labels, Line.name, FunctionId, Path)
       IN JudgedUse(Demand(InFunction, "GOTO_OUTSIDE_FUNCTION") ##
                    Demand(target # None, "LABEL_NOT_FOUND") ## JumpCode(Path, labels[target].path),
                    {Bind([qual |-> "label", name |-> Line.name], labels[target].index)})

(* The labels of the next module replace those of this one. *)
CheckedModule ==
    /\ stage = "check"
    /\ NextModule("labels", "accepted", Len(Module.stmts))
    /\ labels' = <<>> /\ scopes' = <<<<>>>>
    /\ UNCHANGED <<program, structs, table, frames, bound, report>>

NoReport == [code |-> Ok, stage |-> "", module |-> "", line |-> 0]

Init ==
    /\ \E family \in Programs : program \in family
    /\ stage = "structure" /\ turn = 1 /\ pos = 1 /\ next = 0 /\ blocks = <<>>
    /\ structs = <<>> /\ table = <<>> /\ frames = <<0>> /\ labels = <<>>
    /\ scopes = <<<<>>>> /\ bound = {} /\ report = NoReport

Register == CheckStructure \/ RegisterStruct \/ ResolveTypes \/ CheckSignatures
Collect ==
    \/ CollectVar \/ CollectStatic \/ CollectFunc \/ CollectOpen \/ CollectElse \/ CollectEnd
    \/ CollectEndFunc \/ CollectLabel \/ CollectOther \/ CollectedModule
Labels ==
    \/ LabelsOpen \/ LabelsElse \/ LabelsClose \/ LabelsLabel \/ LabelsGoto \/ LabelsOther
    \/ LabelsDone
Check ==
    \/ CheckVar \/ CheckLet \/ CheckStatic \/ CheckFunc \/ CheckOpen \/ CheckElse \/ CheckClose
    \/ CheckWrite \/ CheckRead \/ CheckAssign \/ CheckFieldAssign \/ CheckStore \/ CheckCall
    \/ CheckReturn \/ CheckLoopJump \/ CheckLabel \/ CheckGoto \/ CheckedModule

Analyse == Register \/ Collect \/ Labels \/ Check

-----------------------------------------------------------------------------
(* The tables fit together at every step of every stage: scope frames are  *)
(* nested, no label or symbol is of a scope deeper than the open ones, no  *)
(* two variables of the program share a slot, and what a block shows and   *)
(* what a name is bound to are symbols.                                    *)
TypeOK ==
    /\ turn \in DOMAIN program /\ pos \in Nat /\ next \in Nat
    /\ stage # "rejected" => Len(frames) = 1 + (IF stage = "collect" THEN Len(blocks) ELSE 0)
    /\ \A k \in DOMAIN frames : frames[k] <= Len(table) /\ (k > 1 => frames[k - 1] <= frames[k])
    /\ stage = "collect" => \A i \in DOMAIN labels : labels[i].depth < Len(frames)
    /\ \A i, j \in DOMAIN table :
        i # j /\ table[i].kind = "variable" /\ table[j].kind = "variable"
            => table[i].slot # table[j].slot
    /\ stage = "check" => Len(scopes) = Len(blocks) + 1
    /\ \A k \in DOMAIN scopes : \A j \in DOMAIN scopes[k] : scopes[k][j].at \in DOMAIN table
    /\ \A b \in bound : b.qual # "label" => b.at \in DOMAIN table
    /\ (report = NoReport) = (stage # "rejected")
=============================================================================

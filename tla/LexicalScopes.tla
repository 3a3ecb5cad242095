---------------------------- MODULE LexicalScopes ----------------------------
(***************************************************************************)
(* What the checker promises about names, labels and structs, said of the  *)
(* source alone: which declaration a name stands for, which label a goto   *)
(* reaches, which structs have a size. The checker finds them with scope   *)
(* frames, visible tables and statement indices; here they are read off    *)
(* the nesting of the tokens.                                              *)
(***************************************************************************)
EXTENDS Checker

-----------------------------------------------------------------------------
(* The nesting of a module's tokens                                        *)

Opens == {"func", "if", "while", "else"}
InsideDepth(m, j) == IF m.stmts[j].op = "else" THEN Depth(m, j) ELSE Depth(m, j) + 1

(* Token j opens a block that is still open at token i. *)
Encloses(m, j, i) ==
    /\ j < i /\ m.stmts[j].op \in Opens
    /\ \A k \in (j + 1) .. i :
        /\ Depth(m, k) >= InsideDepth(m, j)
        /\ m.stmts[k].op = "else" => Depth(m, k) > InsideDepth(m, j)
Around(m, i) == {j \in 1 .. (i - 1) : Encloses(m, j, i)}

(* How many statements stand before the token. *)
IndexAt(m, i) == Cardinality({j \in 1 .. (i - 1) : m.stmts[j].op \notin {"else", "end", "endfunc"}})
(* The end of the if or while at token j. *)
EndOf(m, j) ==
    Min({k \in (j + 1) .. Len(m.stmts) : m.stmts[k].op = "end" /\ Depth(m, k) = InsideDepth(m, j)})

ModuleCalled(x) == program[CHOOSE k \in DOMAIN program : program[k].name = x]

-----------------------------------------------------------------------------
(* Declarations                                                            *)

HasParam(m, j, x) ==
    m.stmts[j].op = "func" /\ \E p \in DOMAIN m.stmts[j].params : m.stmts[j].params[p].name = x
IsLocal(m, d, x) == m.stmts[d].op \in {"var", "let"} /\ m.stmts[d].name = x

(* The declarations of x that the language lets token i see. *)
Seen(m, i, x) ==
    {d \in 1 .. (i - 1) :
        \/ IsLocal(m, d, x) /\ Around(m, d) \subseteq Around(m, i)
        \/ HasParam(m, d, x) /\ d \in Around(m, i)}

(* What a module shows under its name. The language asks for an import of  *)
(* the module; the code does not, see the README.                          *)
IsStatic(s, x) == s.op \in {"static_var", "static_let"} /\ s.name = x
Exports(m, x) ==
    \E i \in DOMAIN m.stmts :
        /\ IsStatic(m.stmts[i], x) \/ (IsLocal(m, i, x) /\ IsTopLevel(m, i))
        /\ m.stmts[i].vis # "private"

(* A bare name in front of a field may also be a module.                   *)
Denotes(m, i, n) ==
    CASE n.qual = "" ->
            \/ Seen(m, i, n.name) # {}
            \/ \E k \in DOMAIN program : program[k].name = n.name /\ n.path # <<>>
                                            /\ Exports(program[k], n.path[1])
      [] n.qual = "Self" -> \E d \in DOMAIN m.stmts : IsStatic(m.stmts[d], n.name)
      [] OTHER -> \E k \in DOMAIN program :
                    program[k].name = n.qual /\ Exports(program[k], n.name)

(* The names a statement uses: its operands, the counts in its types, what *)
(* it writes, and a function it calls without a qualifier.                 *)
Name(n, path) == [qual |-> n.qual, name |-> n.name, path |-> path]
Counts(t) == {[qual |-> t[k].qual, name |-> t[k].id, path |-> <<>>] :
                k \in {h \in DOMAIN t : t[h].c = "block" /\ t[h].id # ""}}
Uses(m, i) ==
    LET s == m.stmts[i]
    IN {Name(s.rhs.o[j], s.rhs.o[j].path) : j \in {k \in DOMAIN s.rhs.o : s.rhs.o[k].k # "lit"}}
        \cup Counts(s.type) \cup Counts(s.rhs.type)
        \cup (IF s.op \in {"assign", "read", "field_assign"} THEN {Name(s, s.path)} ELSE {})
        \cup (IF s.rhs.form = "funcall" /\ s.rhs.qual = "" THEN {Name(s.rhs, <<>>)} ELSE {})

(* A name is declared twice: in a block, or in a function and by it. *)
Redeclared(m, i) ==
    LET x == m.stmts[i].name
    IN /\ m.stmts[i].op \in {"var", "let", "static_var", "static_let"}
       /\ \/ \E d \in 1 .. (i - 1) : (IsLocal(m, d, x) \/ IsStatic(m.stmts[d], x))
                                        /\ Around(m, d) = Around(m, i)
          \/ \E j \in Around(m, i) : HasParam(m, j, x)

-----------------------------------------------------------------------------
(* A name that is accepted stands for the innermost declaration around it  *)
(* that comes before it, in its own module: with homonyms in both arms of  *)
(* a branch, in a loop, among the parameters, and in another module        *)
(* (tc_analyzer_pass2.c: tc_visible_copy_from, tc_visible_add_from_global, *)
(* tc_resolve_visible_symbol).                                             *)
BindsLexically ==
    \A b \in bound : b.qual = "" =>
        LET seen == Seen(ModuleCalled(b.module), b.line, b.name)
        IN /\ seen # {}
           /\ table[b.at].name = b.name /\ table[b.at].module = b.module
           /\ table[b.at].line = Max(seen)

(* The verdicts on names are right both ways: a program is refused for a   *)
(* name only where the statement uses one that stands for nothing, or      *)
(* stands in its own initialiser, or where the name is declared twice; and *)
(* a program that passes has no such place (tc_pass1_collect_stmt,         *)
(* tc_pass2_check_stmt).                                                   *)
NamesVerdict ==
    LET m == ModuleCalled(report.module)
        InItself(i) == /\ m.stmts[i].op = "var"
                       /\ \E n \in Uses(m, i) : n.qual = "" /\ n.name = m.stmts[i].name
    IN /\ report.code = "DUPLICATE_DEFINITION" => Redeclared(m, report.line)
       /\ report.code \in {"UNDEFINED_VARIABLE", "FUNCTION_SCOPE_ACCESS"} =>
            InItself(report.line) \/ \E n \in Uses(m, report.line) : ~Denotes(m, report.line, n)
       /\ stage = "accepted" =>
            \A k \in DOMAIN program : \A i \in DOMAIN program[k].stmts :
                /\ ~Redeclared(program[k], i)
                /\ \A n \in Uses(program[k], i) : Denotes(program[k], i, n)

(* The other arm of a branch around the token declares the name. *)
InOtherArm(m, i, x) ==
    \E j \in Around(m, i) : \E d \in 1 .. (j - 1) : \E k \in 1 .. (d - 1) :
        /\ m.stmts[j].op = "else" /\ IsLocal(m, d, x)
        /\ m.stmts[k].op = "if" /\ EndOf(m, k) = EndOf(m, j)
        /\ k \in Around(m, d) /\ Depth(m, d) = Depth(m, j)

(* A block of another module spans the index of the definition. *)
Spanned(b) ==
    \E k \in DOMAIN program : \E j \in DOMAIN program[k].stmts :
        /\ program[k].name # b.module /\ program[k].stmts[j].op \in {"if", "while"}
        /\ IndexAt(program[k], j) < table[b.at].def
        /\ table[b.at].def < IndexAt(program[k], EndOf(program[k], j))

LookupAgrees(b) == CfgFindVisible(table, b.name, b.index, b.module) = b.at
IsVariableUse(b) == b.qual = ""

(* The lookup by name and statement index that the control-flow graph and  *)
(* the executor use finds the symbol the name was bound to                 *)
(* (tc_cfg_find_visible, tc_symbol_table_find_visible), as long as no      *)
(* other arm of a branch and no block of another module comes in between.  *)
LookupsAgree ==
    stage = "accepted" =>
        \A b \in bound :
            IsVariableUse(b) /\ ~InOtherArm(ModuleCalled(b.module), b.line, b.name) /\ ~Spanned(b)
                => LookupAgrees(b)

(* That the data flow tells variables apart by their declaration and not   *)
(* by their name, so that one that is hidden is another                    *)
(* (compiler standard, line 1167), would be this, without exception.       *)
DeclarationsAreIdentities ==
    stage = "accepted" => \A b \in bound : IsVariableUse(b) => LookupAgrees(b)

-----------------------------------------------------------------------------
(* Labels                                                                  *)

FunctionAround(m, i) == {j \in Around(m, i) : m.stmts[j].op = "func"}
LabelsFor(m, g) ==
    {l \in DOMAIN m.stmts : m.stmts[l].op = "label" /\ m.stmts[l].name = m.stmts[g].name
                              /\ FunctionAround(m, l) = FunctionAround(m, g)}

(* What the language says of the goto at token g (section 7.3.2): the      *)
(* label in its own block or the nearest around it is the target.          *)
Outcome(m, g) ==
    LET labelled == LabelsFor(m, g)
        reachable == {l \in labelled : Around(m, l) \subseteq Around(m, g)}
        nearest == {l \in reachable : \A k \in reachable : Around(m, k) \subseteq Around(m, l)}
    IN CASE nearest # {} -> [code |-> Ok, at |-> IndexAt(m, Max(nearest))]
         [] nearest = {} /\ labelled = {} -> [code |-> "LABEL_NOT_FOUND", at |-> 0]
         [] nearest = {} /\ (\E l \in labelled : Around(m, g) \subseteq Around(m, l)) ->
                [code |-> "JUMP_INTO_BLOCK", at |-> 0]
         [] OTHER -> [code |-> "JUMP_INCOMPATIBLE_BLOCK", at |-> 0]

(* A goto that is accepted goes to the nearest label of its name along the *)
(* chain of blocks around it, and one that is refused is refused for what  *)
(* is there instead; a label is refused as a duplicate only if its own     *)
(* block has it already (tc_analyze_6a.c, tc_resolve_goto_label).          *)
LabelVerdict ==
    LET m == ModuleCalled(report.module)
    IN /\ \A b \in bound : b.qual = "label" =>
            Outcome(ModuleCalled(b.module), b.line) = [code |-> Ok, at |-> b.at]
       /\ report.stage = "check" /\ m.stmts[report.line].op = "goto" =>
            Outcome(m, report.line).code = report.code
       /\ report.code = "DUPLICATE_LABEL" =>
            \E l \in 1 .. (report.line - 1) :
                /\ m.stmts[l].op = "label" /\ m.stmts[l].name = m.stmts[report.line].name
                /\ Around(m, l) = Around(m, report.line)

-----------------------------------------------------------------------------
(* Structs                                                                 *)

(* The structs a value of struct i holds inside itself: what stands behind *)
(* a pointer is not inside.                                                *)
Holds(i) ==
    UNION {LET t == structs[i].fields[j].type
           IN {t[k].n : k \in {h \in DOMAIN t : t[h].c = "struct"
                                                /\ \A g \in 1 .. (h - 1) : t[g].c # "ptr"}} :
           j \in DOMAIN structs[i].fields}

(* Every struct has a size: once the types are resolved there is no set of *)
(* structs each of which holds another of the set                          *)
(* (tc_struct_validate_type_node, tc_struct_table_register_program).       *)
StructsAreGrounded ==
    stage \notin {"structure", "register", "rejected"} =>
        \A S \in SUBSET DOMAIN structs \ {{}} : \E i \in S : Holds(i) \cap S = {}
=============================================================================

------------------------------- MODULE Symbols -------------------------------
(***************************************************************************)
(* The symbol table of the analyzer and every way a name is looked up in   *)
(* it (src/vm/runtime/tc_symbol.c, src/vm/analyzer/tc_analyzer_pass1.c,    *)
(* tc_analyzer_pass2.c, tc_analyzer_pass2_rhs.c, tc_analyzer_dfa.c,        *)
(* tc_scope.c and the lookups of tc_cfg.c).                                *)
(*                                                                         *)
(* One table holds the symbols of all modules of a program, in the order   *)
(* the first pass adds them. A symbol is defined at a statement index, and *)
(* every module counts its statements from 0: two modules' indices overlap.*)
(* A name in the source is [qual, name]: qual is "", "Self" or a module.   *)
(* A lookup answers with the symbol's place in the table, None (0) if      *)
(* there is none.                                                          *)
(***************************************************************************)
EXTENDS Integers, Sequences, FiniteSets, FiniteSetsExt, SequencesExt

None == 0

(* The first and the last element of a set of places, None if it is empty. *)
First(S) == IF S = {} THEN None ELSE Min(S)
Latest(S) == IF S = {} THEN None ELSE Max(S)
OrElse(i, j) == IF i # None THEN i ELSE j

(* The places of the symbols of a table that are called x. *)
Called(table, x) == {i \in DOMAIN table : table[i].name = x}

-----------------------------------------------------------------------------
(* Scope frames: frames[k] is how many symbols there were when the frame   *)
(* at level k - 1 was opened; frame 1 is the top level of all modules.     *)

Level(frames) == Len(frames) - 1

(* tc_symbol_table_add_ex *)
AddSymbol(table, frames, symbol) ==
    Append(table, [name |-> symbol.name, type |-> symbol.type, slot |-> symbol.slot,
                   domain |-> symbol.domain, line |-> symbol.line, def |-> symbol.def,
                   kind |-> symbol.kind, vis |-> symbol.vis, value |-> symbol.value,
                   level |-> Level(frames), end |-> -1, readonly |-> FALSE, module |-> ""])

InFrame(table, frames, k, x) ==
    {i \in Called(table, x) : i > frames[k] /\ table[i].level = k - 1}

(* Mutant: any open scope will do. *)
FindInAnyScope(table, frames, x) ==
    Latest(UNION {InFrame(table, frames, k, x) : k \in DOMAIN frames})

(* tc_symbol_table_find_in_current_scope *)
FindInCurrentScope(table, frames, x) == Latest(InFrame(table, frames, Len(frames), x))

(* tc_symbol_table_find, tc_symbol_table_find_in_scope, once the first     *)
(* pass is over and only the outermost frame is left.                      *)
Find(table, x) == Latest({i \in Called(table, x) : table[i].level = 0})

(* tc_symbol_table_runtime_slot_count *)
SlotCount(table) ==
    Max({0} \cup {table[i].slot + 1 : i \in {j \in DOMAIN table : table[j].kind = "variable"}})

(* tc_mark_block_scope_end: of whatever module the symbol is. *)
MarkScopeEnd(table, owner, end) ==
    [i \in DOMAIN table |->
        IF table[i].end < 0 /\ table[i].def > owner /\ table[i].def < end
        THEN [table[i] EXCEPT !.end = end] ELSE table[i]]

-----------------------------------------------------------------------------
(* Lookups by statement index                                              *)

DefinedBefore(table, x, index) == {i \in Called(table, x) : table[i].def < index}
Open(symbol, index) == symbol.end < 0 \/ index < symbol.end

(* Of those defined last, the first in the table. *)
LatestFirst(table, S) ==
    First({i \in S : \A j \in S : table[j].def <= table[i].def})
LatestLast(table, S) ==
    Latest({i \in S : \A j \in S : table[j].def <= table[i].def})

(* tc_symbol_table_find_visible, with the index by name or without. *)
FindVisible(table, x, index) ==
    LET seen == {i \in DefinedBefore(table, x, index) : Open(table[i], index)}
    IN IF seen # {} THEN LatestFirst(table, seen) ELSE Find(table, x)

(* tc_symbol_for_assign_target: a block that is closed does not matter. *)
AssignTarget(table, x, index) == LatestFirst(table, DefinedBefore(table, x, index))

OfModule(table, i, module) == module = "" \/ table[i].module \in {"", module}

(* tc_find_symbol_by_def_index, tc_cfg_find_def: of the own module if     *)
(* there is one, else the first.                                           *)
ByDefIndex(table, x, index, module) ==
    LET hits == {i \in Called(table, x) : table[i].def = index}
        own == {i \in hits : OfModule(table, i, module)}
    IN IF own # {} THEN First(own) ELSE First(hits)

(* Mutant: the hit is kept, of whatever module it is. *)
CfgFindVisibleAnywhere(table, x, index, module) == FindVisible(table, x, index)

(* tc_cfg_find_visible: a hit in another module is looked for again in the *)
(* own one, and kept if that has none.                                     *)
CfgFindVisible(table, x, index, module) ==
    LET hit == FindVisible(table, x, index)
        own == {i \in DefinedBefore(table, x, index) :
                    Open(table[i], index) /\ OfModule(table, i, module)}
    IN IF hit = None \/ OfModule(table, hit, module) \/ own = {} THEN hit
       ELSE LatestLast(table, own)

-----------------------------------------------------------------------------
(* Names with a qualifier                                                  *)

(* tc_member_index_build, tc_member_index_find: the functions, structs and *)
(* static members of a module; a member is [name, kind, vis].              *)
MemberKind(members, x) ==
    IF \A i \in DOMAIN members : members[i].name # x THEN "none"
    ELSE members[Min({i \in DOMAIN members : members[i].name = x})].kind

(* tc_qualified_member_allowed *)
Allowed(table, i, qual) ==
    IF i # None /\ table[i].module = qual /\ table[i].vis # "private" THEN i ELSE None

(* tc_reject_private_member_access *)
IsPrivateElsewhere(table, n) ==
    /\ n.qual \notin {"", "Self"}
    /\ \E i \in Called(table, n.name) : table[i].module = n.qual /\ table[i].vis = "private"

(* tc_resolve_self_member *)
SelfMember(table, members, x) ==
    IF MemberKind(members, x) = "none" THEN None ELSE Find(table, x)

(* Mutant: what a block was opened with hides what is declared in it. *)
VisibleFirst(table, visible, x) ==
    First({k \in DOMAIN visible : table[visible[k].at].name = x})

(* A visible table is the sequence of what it shows, each [at, readonly]:  *)
(* the place of the symbol it copies and its own copy of the mark. The     *)
(* names in it are bare.                                                   *)
VisibleAs(table, visible, x) ==
    Latest({k \in DOMAIN visible : table[visible[k].at].name = x})
ShownAt(visible, k) == IF k = None THEN None ELSE visible[k].at
Visible(table, visible, x) == ShownAt(visible, VisibleAs(table, visible, x))

(* tc_find_named_binding *)
NamedBinding(table, visible, members, n) ==
    CASE n.qual = "Self" -> SelfMember(table, members, n.name)
      [] n.qual \notin {"", "Self"} -> Allowed(table, Find(table, n.name), n.qual)
      [] OTHER -> OrElse(Visible(table, visible, n.name), Find(table, n.name))

(* tc_func_try_function_scope_access: a bare name of a member, in a        *)
(* function, asks for Self.                                                *)
NeedsSelf(members, x) == MemberKind(members, x) \in {"func", "static_var", "static_let"}

(* The place, or None and why. *)
Found(i) == [at |-> i, code |-> "ok"]
NotFound(code) == [at |-> None, code |-> code]
FoundOr(i, code) == IF i = None THEN NotFound(code) ELSE Found(i)
MissingCode(asks_for_self) ==
    IF asks_for_self THEN "FUNCTION_SCOPE_ACCESS" ELSE "UNDEFINED_VARIABLE"

ResolveQualified(table, visible, members, n) ==
    IF IsPrivateElsewhere(table, n) THEN NotFound("PRIVATE_MEMBER_ACCESS")
    ELSE FoundOr(NamedBinding(table, visible, members, n), "UNDEFINED_VARIABLE")

(* A block of the table that is closed again held the name. *)
IsClosed(table, i) == i # None /\ table[i].end >= 0
WasInBlock(table, x, index) == IsClosed(table, AssignTarget(table, x, index))

(* tc_resolve_visible_symbol, for an operand. *)
ResolveVisible(table, visible, members, n, index, in_function) ==
    IF n.qual # "" THEN ResolveQualified(table, visible, members, n)
    ELSE FoundOr(Visible(table, visible, n.name),
                 MissingCode(/\ in_function /\ NeedsSelf(members, n.name)
                             /\ ~WasInBlock(table, n.name, index)))

(* tc_resolve_visible_symbol_scoped, for a target: the member comes first. *)
ResolveTarget(table, visible, members, n, in_function) ==
    IF n.qual # "" THEN ResolveQualified(table, visible, members, n)
    ELSE FoundOr(Visible(table, visible, n.name),
                 MissingCode(in_function /\ NeedsSelf(members, n.name)))

-----------------------------------------------------------------------------
(* Labels: an entry is [name, func, index, path]; depth is Len(path). In   *)
(* the first pass the table has no paths, only the level of the scope.     *)

SameLabel(a, b) == a.name = b.name /\ a.func = b.func /\ a.depth = b.depth

(* tc_symbol_table_add_label refuses the first label of the same place. *)
LabelTaken(labels, entry) ==
    \E i \in DOMAIN labels :
        SameLabel(labels[i], entry) /\ (entry.path # <<>> => labels[i].path = entry.path)

(* Mutant: the labels of a block outlive it. *)
KeepLabels(labels, level) == labels

(* tc_symbol_table_pop_labels *)
PopLabels(labels, level) ==
    SubSeq(labels, 1, Latest({i \in DOMAIN labels : labels[i].depth # level}))

PathIsPrefix(p, q) == Len(p) <= Len(q) /\ SubSeq(q, 1, Len(p)) = p

(* Mutant: the last label of the name in the function. *)
LastLabel(labels, x, func, path) ==
    Latest({i \in DOMAIN labels : labels[i].name = x /\ labels[i].func = func})

(* tc_resolve_goto_label: here, then the nearest block around, then a      *)
(* block inside, then anywhere in the function.                            *)
ResolveGoto(labels, x, func, path) ==
    LET any == {i \in DOMAIN labels : labels[i].name = x /\ labels[i].func = func}
        same == {i \in any : labels[i].path = path}
        around == {i \in any : labels[i].depth < Len(path) /\ PathIsPrefix(labels[i].path, path)}
        inside == {i \in any : labels[i].depth > Len(path) /\ PathIsPrefix(path, labels[i].path)}
    IN CASE same # {} -> Latest(same)
         [] same = {} /\ around # {} ->
                First({i \in around : \A j \in around : labels[j].depth <= labels[i].depth})
         [] same \cup around = {} /\ inside # {} -> First(inside)
         [] OTHER -> Latest(any)

(* tc_check_goto_jump *)
JumpCode(path, target) ==
    CASE PathIsPrefix(target, path) -> "ok"
      [] Len(path) < Len(target) /\ PathIsPrefix(path, target) -> "JUMP_INTO_BLOCK"
      [] OTHER -> "JUMP_INCOMPATIBLE_BLOCK"
=============================================================================

------------------------------ MODULE MCChecker ------------------------------
(***************************************************************************)
(* Small programs for the checker and the run behind it: every way a name  *)
(* can be declared, hidden and used around a branch, a loop and a          *)
(* function; every place of a goto and its labels; and programs of one     *)
(* statement behind a fixed set of declarations, one per operation and     *)
(* way to get it wrong.                                                    *)
(***************************************************************************)
EXTENDS CheckedRun

(* Types *)
I32 == <<Scalar("int32")>>
F64 == <<Scalar("float64")>>
OfScalar(c) == <<Scalar(c)>>
PtrT(t) == <<Ptr>> \o t
BlockT(t, n) == <<Block(n)>> \o t
Block2 == BlockT(I32, 2)
Block4 == BlockT(I32, 4)
CountedBy(qual, x) == <<Con("block", 0, qual, x)>> \o I32
StructT(x) == <<Written("", x)>>

(* Operands *)
Op(k, qual, x, path, class, n) ==
    [k |-> k, qual |-> qual, name |-> x, path |-> path, class |-> class, n |-> n]
L(class, n) == Op("lit", "", "", <<>>, class, n)
I(n) == L("int", n)
Null == L("null", 0)
Yes == L("bool", 1)
V(x) == Op("var", "", x, <<>>, "none", 0)
VQ(qual, x) == Op("var", qual, x, <<>>, "none", 0)
F(x, path) == Op("field", "", x, path, "none", 0)
OfL(x) == F("L", <<x>>)

(* Right-hand sides *)
R(form, type, o) == [form |-> form, op |-> "", mode |-> "strict", type |-> type, o |-> o,
                     keys |-> <<>>, qual |-> "", name |-> ""]
Oper(form, op, mode, type, o) == [R(form, type, o) EXCEPT !.op = op, !.mode = mode]
Fill(type, o) == Oper("block", "fill", "strict", type, <<o>>)
OfElements(type, o) == Oper("block", "values", "strict", type, o)
Address(type, x) == R("address", type, <<V(x)>>)
Move(type, o, d) == Oper("ptr_move", "add", "strict", type, <<o, d>>)
Ctor(type, keys, o) == [R("struct", type, o) EXCEPT !.keys = keys]
Call(qual, x, keys, o) ==
    [R("funcall", Void, o) EXCEPT !.qual = qual, !.name = x, !.keys = keys]
NoRhs == R("none", Void, <<>>)
One == RhsOf(I(1))

(* Statements *)
NoFormat == [spec |-> "none", flags |-> {}, precise |-> FALSE, repeated |-> FALSE, wide |-> FALSE]
Tok(op, x, vis, type, rhs) ==
    [op |-> op, name |-> x, qual |-> "", path |-> <<>>, vis |-> vis, type |-> type, rhs |-> rhs,
     params |-> <<>>, fmt |-> NoFormat]
Stmt(op, x, type, rhs) == Tok(op, x, "none", type, rhs)
Simple(op) == Stmt(op, "", Void, NoRhs)
Var(x, type, rhs) == Stmt("var", x, type, rhs)
Let(x, type, rhs) == Stmt("let", x, type, rhs)
Assign(x, rhs) == Stmt("assign", x, Void, rhs)
AssignQ(qual, x, rhs) == [Assign(x, rhs) EXCEPT !.qual = qual]
FieldAssign(x, path, rhs) == [Stmt("field_assign", x, Void, rhs) EXCEPT !.path = path]
Store(op, type, o) == Stmt(op, "", Void, R("store", type, o))
Write(type, o) == Stmt("write", "", type, R("write", Void, <<o>>))
WriteAs(type, o, fmt) == [Write(type, o) EXCEPT !.fmt = fmt]
Read(x, type) == Stmt("read", x, type, NoRhs)
If(o) == Stmt("if", "", Void, RhsOf(o))
While(o) == Stmt("while", "", Void, RhsOf(o))
Else == Simple("else")
End == Simple("end")
EndFunc == Simple("endfunc")
Return(o) == Stmt("return", "", Void, R("none", Void, o))
CallStmt(r) == Stmt("call", "", Void, r)
Label(x) == Stmt("label", x, Void, NoRhs)
Goto(x) == Stmt("goto", x, Void, NoRhs)
Func(x, vis, params, ret) == [Tok("func", x, vis, ret, NoRhs) EXCEPT !.params = params]
Param(x, type) == [name |-> x, type |-> type]
Choice(t, f) == <<If(Yes)>> \o t \o <<Else>> \o f \o <<End>>
When(t) == <<If(Yes)>> \o t \o <<End>>
Loop(t) == <<While(Yes)>> \o t \o <<End>>
Nop == <<Write(I32, I(0))>>

(* Modules *)
Field(x, type, is_var) == [name |-> x, type |-> type, is_var |-> is_var, padding |-> 0]
Def(x, vis, fields) == [name |-> x, vis |-> vis, fields |-> fields]
Mod(x, mode, imports, defs, stmts) ==
    [name |-> x, mode |-> mode, imports |-> imports, structs |-> defs, stmts |-> stmts]
Main(imports, stmts) == Mod("Main", "program", imports, <<>>, stmts)
MainWith(defs, stmts) == <<Mod("Main", "program", <<>>, defs, stmts)>>
Lib(x, stmts) == Mod(x, "lib", <<>>, <<>>, stmts)

(* A function of a library that the program imports. *)
Procedure(x, params, body) ==
    <<Func(x, "public", params, Void)>> \o body \o <<Return(<<>>), EndFunc>>
InLib(statics, params, body) ==
    <<Main(<<"L">>, Nop), Lib("L", statics \o Procedure("f", params, body))>>

-----------------------------------------------------------------------------
(* Names: x declared, hidden and used                                      *)

VarX == <<Var("x", I32, One)>>
LetX == <<Let("x", I32, One)>>
UseX == <<Write(I32, V("x"))>>
SetX == <<Assign("x", One)>>
OfItself == <<Var("x", I32, RhsOf(V("x")))>>
Outside == {Nop, VarX, LetX}
Arms == {Nop, VarX, UseX, SetX, VarX \o UseX, VarX \o VarX, LetX \o SetX, UseX \o VarX, OfItself}
Behind == {UseX, SetX, VarX \o UseX}

Branches == {InLib(<<>>, <<>>, d \o Choice(t, f) \o w) :
                d \in Outside, t \in Arms, f \in Arms, w \in Behind}
TopLevel == {<<Main(<<>>, d \o Choice(t, f) \o w)>> :
                d \in Outside, t \in {VarX, SetX}, f \in {LetX \o SetX, UseX}, w \in Behind}
Loops == {InLib(<<>>, <<>>, d \o Loop(a \o When(b) \o c) \o UseX) :
            d \in Outside, a \in {Nop, VarX}, b \in Arms, c \in {UseX, SetX, VarX}}

(* A parameter, a local and a static member of one name. *)
StaticX == <<Tok("static_var", "x", "public", I32, One)>>
ConstX == <<Tok("static_let", "x", "private", I32, One)>>
UseSelfX == <<Write(I32, VQ("Self", "x"))>>
SetSelfX == <<AssignQ("Self", "x", One)>>
Homonyms == {InLib(st, ps, a \o When(b) \o c) :
                st \in {<<>>, StaticX, ConstX}, ps \in {<<>>, <<Param("x", I32)>>},
                    a \in {Nop, VarX},
                b \in {UseX, SetX, VarX, UseSelfX, SetSelfX},
                    c \in {UseX, SetX, UseSelfX, SetSelfX}}

(* The same statement indices in two modules, blocks around them in one,   *)
(* and a variable of the same name in the other.                           *)
Indices ==
    {<<Main(<<"L">>, a \o When(Nop \o b \o Nop) \o c),
       Lib("L", Procedure("f", <<>>, d \o VarX \o w \o UseX))>> :
            a \in {<<>>, Nop, VarX}, b \in {Nop, VarX \o UseX, <<Var("y", I32, One)>>},
                c \in {Nop, VarX \o UseX},
            d \in {<<>>, Nop, Nop \o Nop}, w \in {<<>>, Nop, SetX}}

(* A static block whose value is longer than its type. *)
StaticBlocks ==
    {InLib(<<Tok("static_var", "B", "private", t, Fill(Block2, I(7)))>>, <<>>, Nop) :
        t \in {Block2, Block4}}

(* A variable that one arm declares and the other uses. *)
Siblings == {InLib(<<>>, <<>>, VarX \o Choice(t, f)) : t \in {VarX, LetX, Nop},
    f \in {UseX, SetX, VarX \o UseX}}

-----------------------------------------------------------------------------
(* Labels                                                                  *)

Spots == {Nop, <<Label("l")>>, <<Goto("l")>>}
Skips == {Nop, <<Label("l")>>}
Jumps ==
    {InLib(<<>>, <<>>, a \o Choice(b, c) \o d) : a \in Spots, b \in Spots, c \in Spots,
        d \in Spots}
    \cup {InLib(<<>>, <<>>, a \o When(b \o When(c) \o d) \o e) :
            a \in Skips, b \in Skips, c \in Spots, d \in Spots, e \in Skips}
    \cup {InLib(<<>>, <<>>, When(a) \o When(b) \o c) : a \in Spots, b \in Spots, c \in Spots}
    \cup {InLib(<<>>, <<>>, a \o Loop(b) \o c) : a \in Spots, b \in Spots, c \in Spots}
    \cup {<<Main(<<>>, p)>> : p \in Spots}
    \cup {<<Main(<<"L">>, Nop), Lib("L", Procedure("f", <<>>, a) \o Procedure("g", <<>>, b))>> :
            a \in Spots, b \in Spots}

-----------------------------------------------------------------------------
(* Operations on scalars                                                   *)

Scalars ==
    <<Var("i", I32, One), Var("s", OfScalar("int8"), One), Var("l", OfScalar("int64"), One),
      Var("u", OfScalar("uint32"), One), Var("f", F64, RhsOf(L("float", 1))),
      Var("g", OfScalar("float32"), RhsOf(L("f32", 1))), Var("b", Bool, RhsOf(Yes)),
      Let("k", I32, One)>>
Literals == {I(1), I(-1), I(200), L("uint", 1), L("float", 1), L("f32", 1), Yes, Null}
ScalarRhs ==
    {RhsOf(o) : o \in Literals \cup {V("i"), V("f"), V("b"), V("k"), V("none")}}
    \cup {Oper("arith", op, mode, I32, <<V("i"), o>>) : op \in {"add", "div"},
          mode \in {"strict", "wrap"},
            o \in {V("i"), V("s"), I(1), L("uint", 1), Null}}
    \cup {Oper("arith", "add", "wrap", OfScalar("uint32"), <<V("u"), I(1)>>),
          Oper("unary", "neg", "strict", I32, <<V("i")>>),
          Oper("unary", "abs", "wrap", I32, <<V("i")>>),
          Oper("bitwise", "and", "strict", I32, <<V("i"), V("k")>>),
          Oper("bitnot", "not", "strict", OfScalar("uint32"), <<V("u")>>),
          Oper("shift", "shl", "wrap", OfScalar("uint32"), <<V("u"), I(1)>>),
          Oper("shift", "shl", "strict", I32, <<V("i"), V("s")>>),
          Oper("shift", "shr", "strict", I32, <<V("i"), I(1)>>),
          Oper("logic", "and", "strict", Bool, <<V("b"), Yes>>),
          Oper("logic", "or", "strict", Bool, <<V("b"), V("i")>>),
          Oper("not", "not", "strict", Bool, <<V("b")>>),
          Oper("compare", "lt", "strict", I32, <<V("i"), I(2)>>),
          Oper("compare", "eq", "strict", I32, <<V("i"), V("s")>>),
          Oper("float_arith", "add", "strict", F64, <<V("f"), L("float", 1)>>),
          Oper("float_arith", "add", "ieee", F64, <<V("f"), V("f")>>),
          Oper("float_arith", "mul", "strict", OfScalar("float32"), <<V("g"), V("f")>>),
          Oper("float_unary", "neg", "strict", OfScalar("float32"), <<V("g")>>),
          Oper("float_compare", "lt", "strict", F64, <<V("f"), V("f")>>),
          Oper("float_compare", "lt", "strict", OfScalar("float32"), <<V("g"), I(1)>>)}
    \cup {Oper("cast", "", mode, t, <<o>>) : mode \in {"strict", "truncate"},
            t \in {OfScalar("int8"), F64, Bool}, o \in {V("i"), V("f"), V("b"), V("s"), V("l"),
                I(-1)}}
    \cup {R("bitcast", t, <<o>>) : t \in {OfScalar("uint32"), F64},
            o \in {V("i"), V("g"), V("l"), V("b"), I(1), I(-1), L("float", 1), Null}}
ScalarPrograms ==
    {<<Main(<<>>, Scalars \o s)>> :
        s \in {<<Var("t", t, r)>> : t \in {I32, OfScalar("int8"), OfScalar("uint32"), F64, Bool},
            r \in ScalarRhs}
              \cup {<<Let("t", t, r)>> : t \in {I32, F64}, r \in ScalarRhs}
              \cup {<<Stmt("if", "", Void, r)>> \o Nop \o <<End>> : r \in ScalarRhs}}

-----------------------------------------------------------------------------
(* Pointers, blocks and structs. A literal where a pointer, a block or a   *)
(* struct is wanted is left out but for nullptr: see the README.           *)

DefP == Def("P", "none", <<Field("x", I32, TRUE), Field("k", I32, FALSE)>>)
DefQ == Def("Q", "none", <<Field("v", StructT("P"), TRUE), Field("p", PtrT(I32), TRUE),
                           Field("m", Block2, TRUE)>>)
P == StructT("P")
Q == StructT("Q")
OwnS == StructT("S")
Composites ==
    <<Var("i", I32, One), Var("n", Usize, RhsOf(I(0))), Let("k", I32, One),
      Let("two", Usize, RhsOf(I(2))), Var("m", Block2, Fill(Block2, I(7))),
      Var("m4", Block4, Fill(Block4, I(7))), Var("v", P, Ctor(P, <<"x", "k">>, <<I(1), I(2)>>)),
      Var("p", PtrT(I32), Address(I32, "i")), Var("pp", PtrT(PtrT(I32)), Address(PtrT(I32), "p")),
      Var("pm", PtrT(Block2), Address(Block2, "m")), Var("pv", PtrT(P), Address(P, "v")),
      Var("w", Q, Ctor(Q, <<"v", "p", "m">>, <<V("v"), V("p"), V("m")>>)),
      Var("mp", BlockT(PtrT(I32), 2), Fill(BlockT(PtrT(I32), 2), Null)),
      Var("mm", BlockT(Block2, 2), Fill(BlockT(Block2, 2), V("m")))>>
WithComposites(stmts) == MainWith(<<DefP, DefQ>>, Composites \o stmts)

Fields == {F("v", <<"x">>), F("w", <<"v">>), F("w", <<"v", "x">>), F("w", <<"p">>),
    F("w", <<"m">>),
           F("v", <<"z">>), F("i", <<"x">>), F("w", <<"p", "x">>), F("m", <<"count">>),
               F("none", <<"x">>)}
Copies == {RhsOf(o) : o \in Fields \cup {V(x) : x \in {"m", "m4", "v", "w", "p", "pp", "mm"}}
    \cup {Null}}
Pointers ==
    {R("load", t, <<o>>) : t \in {I32, PtrT(I32), P, Block2},
        o \in {V(x) : x \in {"i", "p", "pp", "pm", "pv"}} \cup {Null, I(5), F("w", <<"p">>)}}
    \cup {Address(t, x) : t \in {I32, PtrT(I32), P}, x \in {"i", "p", "v", "k", "none"}}
    \cup {Move(t, o, d) : t \in {I32, P}, o \in {V("p"), V("pv"), Null},
          d \in {I(0), I(1), V("n"), V("i")}}
    \cup {Oper("ptr_compare", "eq", "strict", I32, <<V("p"), o>>) : o \in {V("p"), V("pp"), Null}}
    \cup {R("ptr_size", t, <<o>>) : t \in {I32, P}, o \in {V("p"), V("pv")}}
    \cup {R("cast", t, <<o>>) : t \in {PtrT(I32), PtrT(P)}, o \in {V("p"), V("pv"), V("i"), Null}}
Elements ==
    {R("block_load", t, <<o, d>>) : t \in {I32, PtrT(I32), Block2},
        o \in {V(x) : x \in {"m", "m4", "mp", "mm", "i"}} \cup {F("w", <<"m">>), I(5)},
        d \in {I(0), I(2), V("i"), V("p")}}
    \cup {R("block_count", Void, <<V(x)>>) : x \in {"m", "i", "v", "none"}}
Blocks ==
    {Fill(t, o) : t \in {Block2, Block4, CountedBy("", "two"), CountedBy("", "i")},
        o \in {I(7), V("i"), V("p"), V("v"), Null, F("v", <<"x">>)}}
    \cup {Fill(BlockT(PtrT(I32), 2), o) : o \in {V("i"), V("p"), Null}}
    \cup {OfElements(t, o) : t \in {Block2, CountedBy("", "two")},
          o \in {<<I(1), V("i")>>, <<I(1)>>, <<I(1), V("p")>>}}
Constructors ==
    {Ctor(P, ks, [j \in DOMAIN ks |-> os[j]]) :
        ks \in {<<"x", "k">>, <<"k", "x">>, <<"x">>, <<"x", "x">>, <<"x", "k", "z">>},
        os \in {<<I(1), V("i"), I(1)>>, <<V("i"), V("p"), I(1)>>}}
    \cup {Ctor(Q, <<"v", "p", "m">>, <<a, b, c>>) : a \in {V("v"), V("i"), F("w", <<"v">>)},
            b \in {V("p"), Null, V("pp")}, c \in {V("m"), V("m4"), V("mm"), F("w", <<"m">>)}}
Definitions ==
    {Var("t", t, r) : t \in {I32, Usize, PtrT(I32), PtrT(PtrT(I32)), P, Q, Block2, Block4,
        BlockT(Block2, 2)},
                      r \in Copies}
    \cup {Var("t", t, r) : t \in {I32, Usize, Bool, PtrT(I32), PtrT(P), P, Block2},
          r \in Pointers}
    \cup {Var("t", t, r) : t \in {I32, Usize, PtrT(I32), Block2}, r \in Elements}
    \cup {Var("t", t, r) : t \in {I32, Block2, Block4, BlockT(PtrT(I32), 2),
          CountedBy("", "two")}, r \in Blocks}
    \cup {Var("t", t, r) : t \in {P, Q}, r \in Constructors}
CompositePrograms == {WithComposites(<<s>>) : s \in Definitions}

-----------------------------------------------------------------------------
(* Statements behind the same declarations                                 *)

PtrStores ==
    {Store("ptr_store", t, <<p, o>>) : t \in {I32, PtrT(I32), P, Block2},
        p \in {V(x) : x \in {"p", "pp", "pm", "pv"}} \cup {Null, F("w", <<"p">>)},
        o \in {V(x) : x \in {"i", "p", "v", "m", "m4"}} \cup {F("w", <<"v">>), F("w", <<"m">>)}}
    \cup {Store("ptr_store", I32, <<V("p"), I(5)>>), Store("ptr_store", PtrT(I32),
          <<V("pp"), Null>>)}
BlockStores ==
    {Store("block_store", t, <<m, d, o>>) : t \in {I32, PtrT(I32)},
        m \in {V("m"), V("mp"), V("i"), V("mm")},
        d \in {I(0), I(2), V("n"), V("p")}, o \in {V("p"), V("i")}}
    \cup {Store("block_store", I32, <<V("m"), I(0), I(5)>>)}
    \cup {Store("block_copy", I32, <<a, d, b, e, l>>) : a \in {V("m"), V("m4"), V("i")},
          b \in {V("m"), V("m4"), V("mp")},
            d \in {I(0), I(1), V("n")}, e \in {I(0), V("n"), V("p")}, l \in {I(2), V("n"), I(3)}}
    \cup {Store("memcopy_unsafe", I32, <<a, d, b, I(0), l>>) :
          a \in {V("p"), V("pv"), F("w", <<"p">>)},
            b \in {V("p"), V("pp")}, d \in {I(0), I(-1), V("n")}, l \in {I(2), V("k"), V("p")}}
FieldStores ==
    {FieldAssign("v", path, r) : path \in {<<"x">>, <<"k">>, <<"z">>, <<"x", "y">>},
        r \in {One, RhsOf(V("p"))}}
    \cup {FieldAssign("w", path, RhsOf(V(x))) : path \in {<<"v">>, <<"p">>, <<"v", "x">>,
          <<"v", "k">>, <<"m">>},
            x \in {"i", "p", "v", "m4", "m"}}
    \cup {FieldAssign(x, <<"x">>, One) : x \in {"i", "none", "k"}}
Assignments ==
    {Assign(x, r) : x \in {"i", "k", "p", "m", "v", "none"},
        r \in {RhsOf(V(y)) : y \in {"i", "p", "m", "m4", "v"}}
            \cup {RhsOf(Null), Address(I32, "i")}}
    \cup {Read(x, t) : x \in {"i", "k", "n", "none", "p"}, t \in {I32, Usize}}
Format(spec, flags) ==
    [spec |-> spec, flags |-> flags, precise |-> FALSE, repeated |-> FALSE, wide |-> FALSE]
Output ==
    {Write(t, o) : t \in {I32, Usize, Bool}, o \in {V("i"), V("n"), V("k"), I(1),
        F("v", <<"x">>), F("w", <<"p">>)}}
    \cup {WriteAs(I32, V("i"), Format(spec, flags)) :
            spec \in {"d", "u", "x", "f", "t"}, flags \in {{}, {"+"}, {"#"}, {"0"}}}
    \cup {WriteAs(Bool, Yes, Format(spec, {})) : spec \in {"d", "t", "f"}}
    \cup {WriteAs(Usize, V("n"), Format(spec, {})) : spec \in {"d", "u", "x"}}
    \cup {WriteAs(I32, V("i"), [Format("d", {"+"}) EXCEPT !.repeated = TRUE]),
          WriteAs(I32, V("i"), [Format("d", {}) EXCEPT !.wide = TRUE]),
          WriteAs(Bool, Yes, [Format("t", {}) EXCEPT !.precise = TRUE])}
StatementPrograms ==
    {WithComposites(<<s>>) : s \in PtrStores \cup BlockStores \cup FieldStores \cup Assignments
        \cup Output
                              \cup {Simple("break"), Simple("continue"), Return(<<>>),
                                    Return(<<I(1)>>)}}

(* Two that move values between names, fields, pointers and blocks. *)
Moves ==
    {Assign(x, r) : x \in {"p"}, r \in {RhsOf(F("w", <<"p">>)),
        R("block_load", PtrT(I32), <<V("mp"), I(0)>>)}}
    \cup {Assign("m", r) : r \in {RhsOf(F("w", <<"m">>)),
          R("block_load", Block2, <<V("mm"), I(1)>>)}}
    \cup {Assign("v", R("load", P, <<V("pv")>>)), Assign("pp", Address(PtrT(I32), "p")),
          FieldAssign("w", <<"v">>, RhsOf(V("v"))), FieldAssign("w", <<"m">>,
              R("load", Block2, <<V("pm")>>)),
          Store("ptr_store", PtrT(I32), <<V("pp"), V("p")>>),
          Store("ptr_store", P, <<V("pv"), F("w", <<"v">>)>>),
          Store("ptr_store", Block2, <<V("pm"), V("m")>>),
          Store("block_store", PtrT(I32), <<V("mp"), I(0), V("p")>>),
          Store("block_store", Block2, <<V("mm"), I(1), V("m")>>)}
MovePairs == {WithComposites(<<a, b>>) : a \in Moves, b \in Moves}

(* Blocks of structs, of the width of the first one and of another.        *)
DefR == Def("R", "none", <<Field("y", F64, TRUE)>>)
OfR == StructT("R")
Held == {<<P, V("v")>>, <<Q, V("w")>>, <<OfR, V("r")>>}
StructBlocks ==
    {MainWith(<<DefP, DefQ, DefR>>,
              Composites \o <<Var("r", OfR, Ctor(OfR, <<"y">>, <<L("float", 1)>>)),
                              Var("mt", BlockT(h[1], 2), Fill(BlockT(h[1], 2), h[2]))>> \o s) :
        h \in Held,
        s \in {<<Var("t", g[1], R("block_load", g[1], <<V("mt"), I(1)>>)),
                 Store("block_store", g[1], <<V("mt"), I(0), g[2]>>),
                 Assign("t", R("block_load", g[1], <<V("mt"), I(0)>>))>> : g \in Held}
              \cup {<<Var("t", BlockT(g[1], 2), RhsOf(V("mt"))),
                      Store("block_copy", g[1], <<V("t"), I(0), V("mt"), I(0), I(2)>>)>> : g \in Held}}

(* A struct is assigned in a program and in a library, where variables     *)
(* have the same names.                                                    *)
OfOne(x, o) == Ctor(StructT(x), <<"a">>, <<o>>)
StructHomonyms ==
    {<<Mod("Main", "program", <<"L">>, <<Def("S", "none", <<Field("a", I32, TRUE)>>)>>,
           <<Var("v", OwnS, OfOne("S", I(1))), Var("t", OwnS, OfOne("S", I(2))),
             Assign("v", RhsOf(V("t"))), CallStmt(Call("L", "f", <<>>, <<>>))>>),
       Mod("L", "lib", <<>>, <<Def("T", "public", <<Field("a", h[1], TRUE)>>)>>,
           Procedure("f", <<>>, <<Var("t", StructT("T"), OfOne("T", h[2])), d,
                                  Assign("t", RhsOf(V("t")))>>))>> :
        h \in {<<I32, I(1)>>, <<F64, L("float", 1)>>},
        d \in {Var("v", StructT("T"), RhsOf(V("t"))), Var("v", I32, One), Write(I32, I(0))}}

-----------------------------------------------------------------------------
(* The members of a library and calls of its functions                     *)

LS == <<Written("L", "S")>>
Api ==
    <<Tok("static_var", "V", "public", I32, One), Tok("static_let", "K", "public", I32, One),
      Tok("static_var", "W", "private", I32, One),
      Tok("static_var", "B", "public", Block2, Fill(Block2, I(7))),
      Tok("static_let", "N", "public", Usize, RhsOf(I(2))),
      Func("f", "public", <<Param("a", I32), Param("c", Bool)>>, I32), Return(<<V("a")>>),
          EndFunc,
      Func("g", "public", <<>>, Void), Return(<<>>), EndFunc,
      Func("h", "private", <<>>, Void), Return(<<>>), EndFunc,
      Func("mk", "public", <<Param("a", I32)>>, OwnS), Var("s", OwnS,
          Ctor(OwnS, <<"a">>, <<V("a")>>)),
            Return(<<V("s")>>), EndFunc,
      Func("bl", "public", <<>>, Block2), Var("b", Block2, RhsOf(VQ("Self", "B"))),
            Return(<<V("b")>>), EndFunc>>
WithApi(stmts) ==
    <<Main(<<"L">>, stmts),
      Mod("L", "lib", <<>>, <<Def("S", "public", <<Field("a", I32, TRUE)>>),
                              Def("H", "private", <<Field("a", I32, TRUE)>>)>>, Api)>>
CallRhs ==
    {Call("L", "f", ks, os) : ks \in {<<"a", "c">>, <<"c", "a">>, <<"a", "a">>, <<"a", "z">>},
        os \in {<<I(1), Yes>>, <<V("i"), Yes>>, <<Yes, V("i")>>}
                \cup {<<OfL(x), Yes>> : x \in {"V", "W", "K"}}}
    \cup {Call("L", "f", <<"a">>, <<I(1)>>), Call("L", "f", <<"a", "c", "d">>,
          <<I(1), Yes, I(2)>>),
          Call("L", "mk", <<"a">>, <<V("i")>>)}
    \cup {Call(q, x, <<>>, <<>>) : q \in {"L"}, x \in {"none", "g", "h", "bl", "V"}}
    \cup {Call(q, "f", <<>>, <<>>) : q \in {"", "M"}}
MemberRhs ==
    {RhsOf(OfL(x)) : x \in {"V", "W", "none", "B"}}
    \cup {RhsOf(o) : o \in {F("M", <<"V">>), V("V"), F("s", <<"a">>)}}
    \cup {Fill(CountedBy("L", "N"), I(1)), Fill(CountedBy("L", "V"), I(1)),
          Ctor(LS, <<"a">>, <<OfL("V")>>), R("block_load", I32, <<OfL("B"), I(0)>>),
          R("block_count", Void, <<VQ("L", "B")>>)}
MemberUses ==
    {AssignQ("L", x, r) : x \in {"V", "K", "W", "none"}, r \in {One, RhsOf(OfL("V"))}}
    \cup {[Read(x, I32) EXCEPT !.qual = "L"] : x \in {"V", "K", "W"}}
MadeHere == <<Var("s", LS, Ctor(LS, <<"a">>, <<V("i")>>))>>
(* A member that is a block of another length is left out: see the README. *)
ApiUses ==
    {MadeHere \o <<Var("t", t, r)>> :
        t \in {I32, Usize, Bool, Block2, LS}, r \in CallRhs \cup MemberRhs}
    \cup {MadeHere \o <<Var("t", Block4, r)>> : r \in CallRhs}
    \cup {<<Var("t", <<Written(m, x)>>, One)>> : m \in {"L", "M", ""}, x \in {"H", "S"}}
    \cup {<<CallStmt(r)>> : r \in CallRhs} \cup {<<s>> : s \in MemberUses}
ApiPrograms == {WithApi(<<Var("i", I32, One)>> \o s) : s \in ApiUses}

(* A module that names itself: the parser takes it for a variable.         *)
OwnNames ==
    {InLib(a \o b, <<>>, <<FieldAssign("L", <<x>>, r)>>) :
        a \in {<<>>, StaticX}, b \in {<<>>, <<Tok("static_let", "K", "public", I32, One)>>},
        x \in {"x", "K"}, r \in {One, RhsOf(OfL("x"))}}
    \cup {<<Main(<<>>, VarX \o <<FieldAssign("Main", <<y>>, r)>>)>> :
            y \in {"x", "y"}, r \in {One, RhsOf(F("Main", <<"x">>))}}

(* What a function returns, called or not. *)
Returned == {I(1), Null, Yes, V("a"), V("q"), V("p"), VQ("Self", "V"), V("V"), V("none")}
                \cup {F("q", path) : path \in {<<"v">>, <<"p">>, <<"m">>, <<"v", "x">>}}
Giver(t, o) ==
    Mod("L", "lib", <<>>, <<Def("P", "public", DefP.fields), Def("Q", "public", DefQ.fields)>>,
        <<Tok("static_var", "V", "private", I32, One),
          Func("f", "public", <<Param("a", I32), Param("q", Q), Param("p", PtrT(I32))>>, t),
          Return(o), EndFunc>>)
ReturnPrograms ==
    {<<Main(<<"L">>, Nop), Giver(t, o)>> : t \in {Void, I32, P, Q, PtrT(I32), Block2},
                                           o \in {<<>>} \cup {<<x>> : x \in Returned}}

(* What a function does with its parameters, and what the caller finds.    *)
Params2 == <<Param("a", I32), Param("b", PtrT(I32))>>
StoreTo(x) == Store("ptr_store", I32, <<V(x), I(9)>>)
PointTo(x, y) == Var(x, PtrT(I32), Address(I32, y))
Bodies ==
    {<<Assign("a", One)>>, <<Read("a", I32)>>, <<Assign("V", One)>>,
        <<AssignQ("Self", "V", One)>>,
     <<AssignQ("Self", "K", One)>>, <<Var("f", I32, One)>>, <<Var("V", I32, One)>>,
     <<Var("a", I32, One)>>, <<Let("f", I32, One)>>, <<Let("j", I32, RhsOf(VQ("Self", "K")))>>,
     <<Let("j", I32, RhsOf(VQ("Self", "V")))>>, <<CallStmt(Call("", "f", <<>>, <<>>))>>,
     <<Var("t", I32, RhsOf(V("V")))>>, <<Var("t", I32, RhsOf(V("f")))>>,
     <<PointTo("q", "a"), StoreTo("q")>>, <<PointTo("q", "c"), StoreTo("q")>>, <<StoreTo("b")>>,
     <<PointTo("q", "a"), Var("r", PtrT(I32), RhsOf(V("q"))), StoreTo("r")>>,
     <<PointTo("q", "a"), Var("r", PtrT(I32), Move(I32, V("q"), I(0))), StoreTo("r")>>,
     <<PointTo("q", "a"), Assign("q", Address(I32, "c")), StoreTo("q")>>,
     <<PointTo("q", "c"), Assign("q", Address(I32, "a")), StoreTo("q")>>,
     <<PointTo("q", "a"), Var("t", I32, R("load", I32, <<V("q")>>)), Assign("c", RhsOf(V("t")))>>,
     Loop(<<Simple("break")>>), Loop(<<Simple("continue")>>), <<Simple("break")>>}
ParamPrograms ==
    {<<Main(<<"L">>, <<Var("i", I32, One), PointTo("p", "i"),
                       CallStmt(Call("L", "f", <<"a", "b">>, <<I(5), V("p")>>))>>),
       Lib("L", <<Tok("static_var", "V", "private", I32, One),
           Tok("static_let", "K", "private", I32, One)>>
                    \o Procedure("f", Params2, <<Var("c", I32, One)>> \o s))>> : s \in Bodies}

-----------------------------------------------------------------------------
(* Structs, and where the parts of a file stand                            *)

Shapes == {I32, OwnS, PtrT(OwnS), BlockT(OwnS, 2), PtrT(BlockT(OwnS, 2)), PtrT(PtrT(OwnS)),
    StructT("T"),
           PtrT(StructT("T")), <<Written("M", "T")>>, StructT("Z")}
Others == {I32, OwnS, PtrT(OwnS), BlockT(OwnS, 2), StructT("T")}
OneField(x, t) == <<Field(x, t, TRUE)>>
StructPrograms ==
    {MainWith(<<Def("S", "none", OneField("a", t)), Def(x, "none", OneField("b", u))>>, Nop) :
        t \in Shapes, u \in Others, x \in {"T", "S"}}
    \cup {<<Main(<<"L">>, Nop), Mod("L", "lib", <<>>, <<Def("S", v, OneField("a", t))>>,
          Procedure("S", <<>>, <<>>))>> :
            v \in {"public", "none"}, t \in {I32, OwnS}}
    \cup {MainWith(<<Def("S", v, f)>>, <<Var(x, I32, One)>>) : v \in {"none", "public"},
          x \in {"S", "x"},
            f \in {<<>>, OneField("a", I32) \o OneField("a", I32)}}
    \cup {<<Mod("Main", "program", <<"L">>, <<Def("S", "none", OneField("a", t))>>, Nop),
            Mod("L", "lib", <<>>, <<Def("S", "public", OneField("a", I32)),
                Def("H", "private", OneField("a", OwnS))>>, <<>>)>> :
            t \in {LS, <<Written("L", "H")>>, PtrT(OwnS), <<Written("L", "T")>>}}

StaticMembers == {<<Tok("static_var", "s", "public", I32, One)>>,
    <<Tok("static_let", "s", "none", I32, One)>>}
Functions == {Procedure("f", <<>>, <<>>), Procedure("f", <<Param("a", I32), Param("a", I32)>>,
    <<>>),
               <<Func("f", "none", <<Param("f", I32)>>, Void), Return(<<>>), EndFunc>>}
InProgram == {<<Var("a", I32, One)>>, Nop} \cup StaticMembers \cup Functions
LayerPrograms ==
    {<<Main(<<>>, a \o b)>> : a \in InProgram, b \in InProgram}
    \cup {<<Mod("Main", "lib", <<>>, <<>>, a \o b)>> : a \in StaticMembers \cup Functions,
          b \in StaticMembers \cup Functions}
    \cup {<<Main(<<"L">>, Nop), Lib("L", a \o b)>> : a \in StaticMembers \cup Functions,
          b \in StaticMembers \cup Functions}

-----------------------------------------------------------------------------
(* The catalogues of the runs. *)
SiblingArms == {Siblings}
AllPrograms ==
    {Branches, TopLevel, Loops, Homonyms, Indices, StaticBlocks, Jumps, ScalarPrograms,
     CompositePrograms, StatementPrograms, MovePairs, StructBlocks, StructHomonyms,
     ApiPrograms, OwnNames, ReturnPrograms, ParamPrograms, StructPrograms, LayerPrograms}
=============================================================================

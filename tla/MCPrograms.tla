----------------------------- MODULE MCPrograms -----------------------------
(***************************************************************************)
(* All function bodies of a given size over a choice of statement kinds,   *)
(* as the flat tables of StmtTree: the inputs of the model-checking runs.  *)
(***************************************************************************)
EXTENDS StmtTree, Sequences

(* Which bodies: the sizes min..max, the statement kinds, those that must  *)
(* all occur, the static values of conditions, the kinds of functions, and *)
(* whether anything but a label may follow a jump.                         *)
Shape(min, max, kinds, required, conds, voids, dead) ==
    [min |-> min, max |-> max, kinds |-> kinds, required |-> required,
     conds |-> conds, voids |-> voids, dead |-> dead]

(* A statement list is a sequence of rows with lengths in place of indices:*)
(* span of the statement, span of its then block or body.                  *)
Row(kind, span, then, cond) ==
    [kind |-> kind, span |-> span, then |-> then, cond |-> cond]

(* The union of sets[1], ..., sets[n]; TLC's UNION is slow on large sets.  *)
Union(sets, n) ==
    LET u[k \in 0 .. n] == IF k = 0 THEN {} ELSE u[k - 1] \cup sets[k]
    IN  u[n]

(* A statement of k rows over the given simple kinds; bodies[j+1] and      *)
(* blocks[j+1] are the lists of length j a loop body and an arm may hold.  *)
Trees(s, k, simple, bodies, blocks) ==
    (IF k = 1 THEN {<<Row(x, 1, 0, "U")>> : x \in simple} ELSE {})
    \cup (IF "while" \in s.kinds
          THEN {<<Row("while", k, k - 1, c)>> \o b : b \in bodies[k], c \in s.conds} ELSE {})
    \cup (IF "if" \in s.kinds
          THEN Union([m \in 1 .. k |->
                        {<<Row("if", k, m - 1, c)>> \o t \o f :
                            t \in blocks[m], f \in blocks[k - m + 1], c \in s.conds}], k)
          ELSE {})

Joins(s, first, rest) ==
    s.dead \/ rest = <<>> \/ rest[1].kind = "label" \/ first[1].kind \notin JumpKinds

(* Every required kind still fits into the rows that are left.             *)
Promising(s, l) ==
    Cardinality({l[i].kind : i \in 1 .. Len(l)} \cap s.required) + s.max
        >= Len(l) + Cardinality(s.required)

(* The lists of k rows, made of a statement of j rows and a shorter list.  *)
Lists(s, k, trees, lists) ==
    Union([j \in 1 .. k |->
             {l \in {x[1] \o x[2] : x \in {y \in trees[j] \X lists[k - j + 1] : Joins(s, y[1], y[2])}} :
                 Promising(s, l)}], k)

Simple(s) == s.kinds \ {"if", "while"}

(* All lists up to s.max rows, inside loops (without goto and label) and   *)
(* outside (without break and continue).                                   *)
AllLists(s) ==
    LET grow[k \in 0 .. s.max] ==
            IF k = 0 THEN [inTrees |-> <<>>, outTrees |-> <<>>, in |-> <<{<<>>}>>, out |-> <<{<<>>}>>]
            ELSE LET r == grow[k - 1]
                     it == Append(r.inTrees,
                               {t \in Trees(s, k, Simple(s) \ {"goto", "label"}, r.in, r.in) : TRUE})
                     ot == Append(r.outTrees, {t \in Trees(s, k, Simple(s) \ LoopKinds, r.in, r.out) : TRUE})
                 IN  [inTrees |-> it, outTrees |-> ot,
                      in  |-> Append(r.in, Lists(s, k, it, r.in)),
                      out |-> Append(r.out, Lists(s, k, ot, r.out))]
        all == grow[s.max].out
    IN  Union([n \in 1 .. s.max |->
                 IF n < s.min THEN {}
                 ELSE {l \in all[n + 1] : s.required \subseteq {l[i].kind : i \in 1 .. n}}], s.max)

Table(rows, void) ==
    LET n == Len(rows)
        zero == [i \in 1 .. n |-> 0]
    IN  [ n |-> n, void |-> void, jump |-> zero, slot |-> zero,
          kind |-> [i \in 1 .. n |-> rows[i].kind],
          end  |-> [i \in 1 .. n |-> i + rows[i].span],
          mid  |-> [i \in 1 .. n |-> IF rows[i].kind = "if" THEN i + 1 + rows[i].then
                                     ELSE i + rows[i].span],
          cond |-> [i \in 1 .. n |-> rows[i].cond] ]

(* What a statement may jump to, and what it may read or assign.           *)
Jumps(p, i) ==
    CASE p.kind[i] \in LoopKinds -> {InnermostLoop(p, i)} \ {0}
      [] p.kind[i] = "goto" -> GotoTargets(p, i)
      [] OTHER -> {0}

SlotChoices(p, i) ==
    CASE p.kind[i] \in {"assign", "read"} -> Visible(p, i)
      [] p.kind[i] = "use" -> IF Visible(p, i) = {} THEN {Param(p)} ELSE Visible(p, i)
      [] p.kind[i] = "return" -> IF p.void THEN {0} ELSE {Param(p)}
      [] OTHER -> {0}

(* The bodies that passed the earlier stages, every jump and slot chosen,  *)
(* without labels no goto uses: such a label is a statement without effect.*)
Filled(s, k, S) ==
    LET Fits(p, x, Choice(_, _)) == IF k > p.n THEN x = 0 ELSE x \in Choice(p, k)
        Put(f, x) == [i \in DOMAIN f |-> IF i = k THEN x ELSE f[i]]
        jumping == {[y[1] EXCEPT !.jump = Put(@, y[2])] :
                       y \in {z \in S \X (0 .. s.max) : Fits(z[1], z[2], Jumps)}}
    IN  {[y[1] EXCEPT !.slot = Put(@, y[2])] :
            y \in {z \in jumping \X (0 .. s.max + 1) : Fits(z[1], z[2], SlotChoices)}}

SmallPrograms(s) ==
    LET fill[k \in 0 .. s.max] ==
            IF k = 0 THEN {Table(l, v) : l \in AllLists(s), v \in s.voids}
            ELSE LET r == fill[k - 1] IN Filled(s, k, r)
    IN  {p \in fill[s.max] :
            OfKind(p, {"label"}) \subseteq {p.jump[i] : i \in Stmts(p)}}

(* Body q inside a block that control enters again and again:              *)
(*   label L;  if c then q end;  goto L                                    *)
Looped(q) ==
    LET n == q.n + 3
        Frame(f, first, second, last) == <<first, second>> \o f \o <<last>>
        Shift(f) == [i \in 1 .. q.n |-> IF f[i] = 0 THEN 0 ELSE f[i] + 2]
        Vars(f)  == [i \in 1 .. q.n |-> IF f[i] = Param(q) THEN n + 1 ELSE Shift(f)[i]]
    IN  [ n |-> n, void |-> q.void,
          kind |-> Frame(q.kind, "label", "if", "goto"),
          end  |-> Frame(Shift(q.end), 2, n, n + 1),
          mid  |-> Frame(Shift(q.mid), 2, n, n + 1),
          jump |-> Frame(Shift(q.jump), 0, 0, 1),
          slot |-> Frame(Vars(q.slot), 0, 0, 0),
          cond |-> Frame(q.cond, "U", "U", "U") ]

(* The bodies that use a variable they define.                             *)
UsesVariables(p) == \E i \in Stmts(p) : p.slot[i] \in OfKind(p, {"def"})

LoopedPrograms(s) ==
    LET using == {p \in SmallPrograms(s) : UsesVariables(p)}
    IN  using \cup {Looped(q) : q \in using}
=============================================================================

---------------------------- MODULE KconfigExpr ----------------------------
(***************************************************************************)
(* The dependency expressions of the configuration tool                    *)
(* (tools/kconfig/expr.c) and what menu_finalize() (tools/kconfig/menu.c)  *)
(* does to them: a dependency is rewritten, simplified and joined with the *)
(* one of the enclosing menu before it is ever evaluated, and an entry     *)
(* becomes a submenu of the one before it when the simplified expressions  *)
(* say that it depends on it.                                              *)
(*                                                                         *)
(* An expression is a record: a symbol, a comparison of two symbols, or an *)
(* operator with its operands.  Tristate values are 0 (n), 1 (m), 2 (y).   *)
(* The tree is updated in place in C; here an operator returns the tree    *)
(* that the update leaves, and a pass over two trees visits the pairs of   *)
(* their leaves in the order of the recursion.                             *)
(***************************************************************************)
EXTENDS Naturals, Sequences, SequencesExt

CONSTANTS TypeOf,      \* the type of every symbol, of the constants "unknown"
          Entries,     \* menu entries as written in a Kconfig file
          Values       \* the values that the symbols can have, as functions

\* An entry has the dependency of its menu ("up"), its own ("dep"), the condition
\* of its prompt ("cond"), its type, and the entry before it in the menu: the
\* symbol of that one ("sym") and the condition of its prompt ("before").
VARIABLES entry,       \* the entry that menu_finalize() works on
          dep,         \* its dependency as it stands
          at           \* the step that comes next

vars == <<entry, dep, at>>

Symbols == DOMAIN TypeOf
Constant == {"n", "m", "y"}
Relations == {"=", "!=", "<", "<=", ">", ">="}
Operators == {"and", "or"}

Sym(s) == [t |-> "sym", s |-> s]
Comp(r, s, c) == [t |-> r, s |-> s, c |-> c]
Not(e) == [t |-> "not", a |-> e]
Two(t, a, b) == [t |-> t, a |-> a, b |-> b]
None == [t |-> "none"]

expr_alloc_and(a, b) == IF a = None THEN b ELSE IF b = None THEN a ELSE Two("and", a, b)

-----------------------------------------------------------------------------
(* The value of an expression.                                             *)

Tri(v, s) ==
  CASE s = "n" -> 0 [] s = "m" -> 1 [] s = "y" -> 2 [] OTHER -> v[s]

\* Two typed symbols compare as n < m < y; a constant has no type, and then the
\* strings are compared.
expr_parse_string(t, s) ==
  IF s \in Constant \/ t \in Constant
  THEN [n \in 0..2 |-> CASE n = 0 -> 1 [] n = 1 -> 0 [] n = 2 -> 2]
  ELSE [n \in 0..2 |-> n]

RECURSIVE expr_calc_value(_, _)
expr_calc_value(e, v) ==
  LET YesIf(b) == IF b THEN 2 ELSE 0
      Key(s) == expr_parse_string(e.s, e.c)[Tri(v, s)]
      Lesser(a, b) == IF a < b THEN a ELSE b
      Greater(a, b) == IF a > b THEN a ELSE b
  IN CASE e.t = "none" -> 2
       [] e.t = "sym"  -> Tri(v, e.s)
       [] e.t = "and"  -> Lesser(expr_calc_value(e.a, v), expr_calc_value(e.b, v))
       [] e.t = "or"   -> Greater(expr_calc_value(e.a, v), expr_calc_value(e.b, v))
       [] e.t = "not"  -> 2 - expr_calc_value(e.a, v)
       [] e.t = "="    -> YesIf(Key(e.s) = Key(e.c))
       [] e.t = "!="   -> YesIf(Key(e.s) # Key(e.c))
       [] e.t = "<"    -> YesIf(Key(e.s) < Key(e.c))
       [] e.t = "<="   -> YesIf(Key(e.s) <= Key(e.c))
       [] e.t = ">"    -> YesIf(Key(e.s) > Key(e.c))
       [] e.t = ">="   -> YesIf(Key(e.s) >= Key(e.c))

-----------------------------------------------------------------------------
(* Passes over the leaves of a level of && or ||.                          *)

RECURSIVE Leaves(_, _)
Leaves(type, e) == IF e.t = type THEN Leaves(type, e.a) \o Leaves(type, e.b) ELSE <<e>>

RECURSIVE WithLeaves(_, _, _)
WithLeaves(type, e, ls) ==
  IF e.t # type THEN ls[1]
  ELSE LET k == Len(Leaves(type, e.a))
       IN Two(type, WithLeaves(type, e.a, SubSeq(ls, 1, k)),
                    WithLeaves(type, e.b, SubSeq(ls, k + 1, Len(ls))))

Pairs(m, n) == [k \in 1..(m * n) |-> <<((k - 1) \div n) + 1, ((k - 1) % n) + 1>>]

Neutral(type) == IF type = "or" THEN Sym("n") ELSE Sym("y")

RECURSIVE expr_eliminate_yn(_)
expr_eliminate_yn(e) ==
  IF e.t \notin Operators THEN e
  ELSE LET l == expr_eliminate_yn(e.a)
           r == expr_eliminate_yn(e.b)
           absorbing == IF e.t = "and" THEN Sym("n") ELSE Sym("y")
       IN IF absorbing \in {l, r} THEN absorbing
          ELSE IF l = Neutral(e.t) THEN r
          ELSE IF r = Neutral(e.t) THEN l
          ELSE Two(e.t, l, r)

\* Two leaves that are the same become neutral, but for y and n.
RECURSIVE expr_eq(_, _)
Matched(type, ls, p) ==
  IF /\ ~(ls[1][p[1]] = ls[2][p[2]] /\ ls[1][p[1]] \in {Sym("y"), Sym("n")})
     /\ expr_eq(ls[1][p[1]], ls[2][p[2]])
  THEN <<[ls[1] EXCEPT ![p[1]] = Neutral(type)], [ls[2] EXCEPT ![p[2]] = Neutral(type)]>>
  ELSE ls

WithBoth(type, p, ls) == <<WithLeaves(type, p[1], ls[1]), WithLeaves(type, p[2], ls[2])>>

__expr_eliminate_eq(type, p) ==
  WithBoth(type, p,
    FoldLeft(LAMBDA ls, q : Matched(type, ls, q), <<Leaves(type, p[1]), Leaves(type, p[2])>>,
             Pairs(Len(Leaves(type, p[1])), Len(Leaves(type, p[2])))))

\* At the level of the first expression, then at that of the second.
EliminateFirst(p) == IF p[1].t \in Operators THEN __expr_eliminate_eq(p[1].t, p) ELSE p
EliminateSecond(p) ==
  IF p[2].t \in Operators \ {p[1].t} THEN __expr_eliminate_eq(p[2].t, p) ELSE p
WithoutYn(p) == <<expr_eliminate_yn(p[1]), expr_eliminate_yn(p[2])>>

expr_eliminate_eq(e1, e2) ==
  IF e1 = None \/ e2 = None THEN <<e1, e2>>
  ELSE WithoutYn(EliminateSecond(EliminateFirst(<<e1, e2>>)))

expr_is_yes(e) == e \in {None, Sym("y")}

OneSymbol(p) == p[1].t = "sym" /\ p[1] = p[2]

expr_eq(e1, e2) ==
  IF e1 = None \/ e2 = None THEN expr_is_yes(e1) /\ expr_is_yes(e2)
  ELSE /\ e1.t = e2.t
       /\ e1.t \in Relations \cup {"sym"} => e1 = e2
       /\ e1.t = "not" => expr_eq(e1.a, e2.a)
       /\ e1.t \in Operators => OneSymbol(expr_eliminate_eq(e1, e2))

-----------------------------------------------------------------------------
(* Joining two operands of a level.                                        *)

JoinSym(e) == IF e.t = "not" THEN e.a.s ELSE e.s

Joinable(e1, e2) ==
  /\ {e1.t, e2.t} \subseteq {"=", "!=", "sym", "not"}
  /\ e1.t = "not" => e1.a.t \in {"=", "!=", "sym"}
  /\ e2.t = "not" => e2.a.t = "sym"
  /\ JoinSym(e1) = JoinSym(e2)
  /\ TypeOf[JoinSym(e1)] \in {"bool", "tristate"}

\* The operands are two comparisons of kind r, of one symbol with two different
\* constants: what is left is the third.
Third(e1, e2, r) ==
  IF e1.t = r /\ e2.t = r /\ {e1.c, e2.c} \subseteq Constant /\ e1.c # e2.c
  THEN Constant \ {e1.c, e2.c} ELSE {}

\* The expression that stands for e1 || e2, if there is one.
expr_join_or(e1, e2) ==
  IF expr_eq(e1, e2) THEN {e1}
  ELSE IF ~Joinable(e1, e2) THEN {}
  ELSE LET s == JoinSym(e1)
       IN IF TypeOf[s] = "tristate" THEN {Comp("!=", s, c) : c \in Third(e1, e2, "=")}
          ELSE IF {e1, e2} = {Sym(s), Not(Sym(s))} THEN {Sym("y")} ELSE {}

\* The same for e1 && e2.
expr_join_and(e1, e2) ==
  IF expr_eq(e1, e2) THEN {e1}
  ELSE IF ~Joinable(e1, e2) THEN {}
  ELSE LET s == JoinSym(e1)
           Both(a, b) == <<e1, e2>> \in {<<a, b>>, <<b, a>>}
           Apart(eq, ne) ==
             IF {eq.c, ne.c} \subseteq Constant
             THEN {IF eq.c # ne.c THEN eq ELSE Sym("n")} ELSE {}
       IN IF Both(Sym(s), Comp("=", s, "y")) THEN {Comp("=", s, "y")}
          ELSE IF Both(Sym(s), Comp("!=", s, "n")) THEN {Sym(s)}
          ELSE IF Both(Sym(s), Comp("!=", s, "m")) THEN {Comp("=", s, "y")}
          ELSE IF TypeOf[s] # "tristate" THEN {}
          ELSE IF e1.t = "=" /\ e2.t = "!=" THEN Apart(e1, e2)
          ELSE IF e1.t = "!=" /\ e2.t = "=" THEN Apart(e2, e1)
          ELSE {Comp("=", s, c) : c \in Third(e1, e2, "!=")}

\* Of the leaves at i and j of a level one is left, if they can be joined.
Join(type, e1, e2) == IF type = "or" THEN expr_join_or(e1, e2) ELSE expr_join_and(e1, e2)
Replace(type, st, p, joined) ==
  IF joined = {} THEN st
  ELSE [leaves |-> [st.leaves EXCEPT ![p[1]] = Neutral(type),
                                     ![p[2]] = CHOOSE j \in joined : TRUE],
        joined |-> TRUE]
JoinLeaves(type, st, p) ==
  Replace(type, st, p, Join(type, st.leaves[p[1]], st.leaves[p[2]]))

RECURSIVE expr_eliminate_dups1(_, _)
Inner(st, i, r) == [leaves |-> [st.leaves EXCEPT ![i] = r.e], joined |-> st.joined \/ r.joined]
Rebuilt(type, e, st) == [e |-> WithLeaves(type, e, st.leaves), joined |-> st.joined]

\* One pair of leaves, the level below the first of them before.
EliminatePair(type, st, p) ==
  IF st.leaves[p[1]].t \in Operators
  THEN JoinLeaves(type,
         Inner(st, p[1], expr_eliminate_dups1(st.leaves[p[1]].t, st.leaves[p[1]])), p)
  ELSE JoinLeaves(type, st, p)

\* Every leaf with every other.
expr_eliminate_dups1(type, e) ==
  Rebuilt(type, e,
    FoldLeft(LAMBDA st, p : EliminatePair(type, st, p),
             [leaves |-> Leaves(type, e), joined |-> FALSE],
             SelectSeq(Pairs(Len(Leaves(type, e)), Len(Leaves(type, e))),
                       LAMBDA p : p[1] # p[2])))

RECURSIVE expr_eliminate_dups(_)
Again(pass) == IF pass.joined THEN expr_eliminate_dups(expr_eliminate_yn(pass.e)) ELSE pass.e
expr_eliminate_dups(e) ==
  IF e.t \in Operators THEN Again(expr_eliminate_dups1(e.t, e)) ELSE e

-----------------------------------------------------------------------------
(* Rewriting.                                                              *)

RECURSIVE rewrite_m(_)
rewrite_m(e) ==
  CASE e.t = "not" -> Not(rewrite_m(e.a))
    [] e.t \in Operators -> Two(e.t, rewrite_m(e.a), rewrite_m(e.b))
    [] e = Sym("m") -> Two("and", e, Sym("MODULES"))
    [] OTHER -> e

RECURSIVE expr_trans_bool(_)
expr_trans_bool(e) ==
  CASE e.t = "not" -> Not(expr_trans_bool(e.a))
    [] e.t \in Operators -> Two(e.t, expr_trans_bool(e.a), expr_trans_bool(e.b))
    [] e.t = "!=" -> IF TypeOf[e.s] = "tristate" /\ e.c = "n" THEN Sym(e.s) ELSE e
    [] OTHER -> e

\* A comparison of a boolean symbol with a constant.
TransformComp(e) ==
  IF TypeOf[e.s] # "bool" \/ e.c \notin Constant \/ e.t \notin {"=", "!="} THEN e
  ELSE IF e.c = "m" THEN Sym(IF e.t = "=" THEN "n" ELSE "y")
  ELSE IF (e.c = "y") = (e.t = "=") THEN Sym(e.s) ELSE Not(Sym(e.s))

Opposite(r) ==
  CASE r = "=" -> "!=" [] r = "!=" -> "=" [] r = "<=" -> ">" [] r = ">=" -> "<"
    [] r = "<" -> ">=" [] r = ">" -> "<="

RECURSIVE expr_transform(_)
\* Fault: the operator stays as it is under De Morgan.
TransformNot_level(a) ==
  CASE a.t = "not" -> expr_transform(a.a)
    [] a.t \in Relations -> [a EXCEPT !.t = Opposite(a.t)]
    [] a.t \in Operators -> expr_transform(Two(a.t, Not(a.a), Not(a.b)))
    [] OTHER -> Not(a)

\* The operand of a negation, already transformed.
TransformNot(a) ==
  CASE a.t = "not" -> expr_transform(a.a)
    [] a.t \in Relations -> [a EXCEPT !.t = Opposite(a.t)]
    [] a.t \in Operators ->
         expr_transform(Two(IF a.t = "or" THEN "and" ELSE "or", Not(a.a), Not(a.b)))
    [] a.t = "sym" -> CASE a.s = "y" -> Sym("n") [] a.s = "m" -> a [] a.s = "n" -> Sym("y")
                        [] OTHER -> Not(a)
    [] OTHER -> Not(a)

expr_transform(e) ==
  CASE e.t \in Relations -> TransformComp(e)
    [] e.t = "not" -> TransformNot(expr_transform(e.a))
    [] e.t \in Operators -> Two(e.t, expr_transform(e.a), expr_transform(e.b))
    [] OTHER -> e

\* The expression for "e r s", with r one of = and != and s a constant.
RECURSIVE expr_trans_compare(_, _, _)
expr_trans_compare(e, r, s) ==
  LET Same == IF r = "=" THEN s = "y" ELSE s = "n"
      Unless(x) == IF r = "!=" THEN Not(x) ELSE x
      Level(t) == LET u == IF s = "n" THEN (IF t = "and" THEN "or" ELSE "and") ELSE t
                  IN IF s = "m" THEN e
                     ELSE Two(u, expr_trans_compare(e.a, "=", s), expr_trans_compare(e.b, "=", s))
  IN CASE e.t = "none" -> Unless(Sym(s))
       [] e.t \in Operators -> Unless(Level(e.t))
       [] e.t = "not" -> expr_trans_compare(e.a, Opposite(r), s)
       [] e.t \in Relations -> IF s = "m" THEN Sym(IF r = "=" THEN "n" ELSE "y")
                               ELSE IF Same THEN e ELSE Not(e)
       [] e.t = "sym" -> Comp(r, e.s, s)

RECURSIVE expr_contains_symbol(_, _)
expr_contains_symbol(e, s) ==
  CASE e.t \in Operators -> expr_contains_symbol(e.a, s) \/ expr_contains_symbol(e.b, s)
    [] e.t = "sym" -> e.s = s
    [] e.t \in Relations -> s \in {e.s, e.c}
    [] e.t = "not" -> expr_contains_symbol(e.a, s)
    [] OTHER -> FALSE

RECURSIVE expr_depends_symbol(_, _)
expr_depends_symbol(e, s) ==
  CASE e.t = "and" -> expr_depends_symbol(e.a, s) \/ expr_depends_symbol(e.b, s)
    [] e.t = "sym" -> e.s = s
    [] e.t = "="   -> e.s = s /\ e.c \in {"y", "m"}
    [] e.t = "!="  -> e.s = s /\ e.c = "n"
    [] OTHER -> FALSE

-----------------------------------------------------------------------------
(* menu_finalize(), for one entry.                                         *)

Simplified(up, e) == expr_eliminate_dups(expr_alloc_and(up, expr_transform(rewrite_m(e))))
NotNo(e) == expr_eliminate_dups(expr_transform(expr_trans_compare(e, "!=", "n")))

\* The dependency of the entry takes in that of the menu around it.
PropagateMenu ==
  /\ at = "menu"
  /\ dep' = Simplified(entry.up, entry.dep)
  /\ at' = "prompt"
  /\ UNCHANGED entry

\* The condition of the prompt takes in the dependency of the entry.
PropagatePrompt ==
  /\ at = "prompt"
  /\ dep' = LET e == Simplified(dep, entry.cond)
            IN IF entry.type # "tristate" THEN expr_trans_bool(e) ELSE e
  /\ at' = "place"
  /\ UNCHANGED entry

\* The entry becomes part of the submenu of the one before it.
Covers(base, e) == expr_is_yes(expr_eliminate_eq(NotNo(e), NotNo(base))[2])

PlaceEntry ==
  /\ at = "place"
  /\ at' = IF ~expr_contains_symbol(dep, entry.sym) THEN "after"
           ELSE IF expr_depends_symbol(dep, entry.sym) THEN "below"
           ELSE IF Covers(Simplified(entry.up, entry.before), dep) THEN "covered"
           ELSE "after"
  /\ UNCHANGED <<entry, dep>>

Init == entry \in Entries /\ dep = entry.dep /\ at = "menu"

Next == PropagateMenu \/ PropagatePrompt \/ PlaceEntry

Spec == Init /\ [][Next]_vars

-----------------------------------------------------------------------------
(* Properties.                                                             *)

TypeOK == entry \in Entries /\ at \in {"menu", "prompt", "place", "below", "covered", "after"}

\* What an expression means as it was written: m stands for m && MODULES.
Meaning(e, v) == expr_calc_value(rewrite_m(e), v)
Least(S) == CHOOSE x \in S : \A y \in S : x <= y

\* Rewriting and simplifying dependencies (expr_transform, expr_eliminate_dups,
\* the joins of && and || operands, De Morgan, comparisons with n, m and y) does
\* not change their value for any value of the symbols; for a symbol that is not
\* tristate it keeps whether the prompt is visible.
DependenciesKept ==
  \A v \in Values :
    LET menu == Least({Meaning(entry.dep, v), expr_calc_value(entry.up, v)})
        prompt == Least({menu, Meaning(entry.cond, v)})
        now == expr_calc_value(dep, v)
    IN /\ at = "prompt" => now = menu
       /\ at \notin {"menu", "prompt"} =>
            IF entry.type = "tristate" THEN now = prompt ELSE (now # 0) = (prompt # 0)

\* An entry is put below the one before it only if it cannot be visible without
\* it: the symbol of that entry is set, or at least the entry is visible.
SubmenusNested ==
  \A v \in Values :
    expr_calc_value(dep, v) # 0 =>
      /\ at = "below" => v[entry.sym] # 0
      /\ at = "covered" => expr_calc_value(Simplified(entry.up, entry.before), v) # 0

=============================================================================

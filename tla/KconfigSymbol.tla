--------------------------- MODULE KconfigSymbol ---------------------------
(***************************************************************************)
(* The symbols of a configuration (tools/kconfig/symbol.c): their values   *)
(* follow from what the user set, from prompts, defaults, select and       *)
(* imply, and from the choice that they belong to.  They are cached        *)
(* (SYMBOL_VALID) and computed anew after every change.                    *)
(*                                                                         *)
(* Order lists the symbols so that each comes after those that its         *)
(* expressions name (sym_check_deps() refuses a cycle), and a choice       *)
(* before its members, whose prompts depend on it: the recursion of        *)
(* sym_calc_value() computes them in such an order.  The dependencies are  *)
(* those that menu_finalize() leaves (KconfigExpr).                        *)
(***************************************************************************)
EXTENDS Naturals, Sequences, SequencesExt, FiniteSets

CONSTANTS Order,       \* the symbols, in an order of evaluation
          Conf,        \* what the Kconfig files say of each of them
          Loaded,      \* the settings that a .config can hold: [user, def, choice]
          Numbers      \* values to try for an int symbol

\* For every symbol: in "user" if it has SYMBOL_DEF_USER, "def" the value that the
\* user gave (for a choice, "choice" the member), and as last computed its value
\* "val", its visibility "vis", what selects it "rev", and the member picked "pick".
VARIABLES st,
          last         \* the last call that changed a value

vars == <<st, last>>

X == INSTANCE KconfigExpr WITH TypeOf <- [s \in DOMAIN Conf |-> Conf[s].type], Entries <- {},
       Values <- {}, entry <- 0, dep <- 0, at <- 0

Symbol == Range(Order)
Tristate == {s \in Symbol : Conf[s].type \in {"bool", "tristate"}}
IntSymbol == {s \in Symbol : Conf[s].type = "int"}
Choice == {s \in Symbol : Conf[s].members # <<>>}
Member == {s \in Symbol : Conf[s].of # "none"}
Members(c) == Range(Conf[c].members)

And(a, b) == IF a < b THEN a ELSE b
Or(a, b) == IF a < b THEN b ELSE a
Eval(e, d) == X!expr_calc_value(e, d.val)

-----------------------------------------------------------------------------
(* Values.  "d" is what has been computed so far.                          *)

sym_get_type(d, s) ==
  IF Conf[s].type = "tristate" /\ (d.val["MODULES"] = 0 \/ (s \in Member /\ d.vis[s] = 2))
  THEN "bool" ELSE Conf[s].type

ToType(d, s, tri) == IF tri = 1 /\ sym_get_type(d, s) = "bool" THEN 2 ELSE tri

\* A member of a choice that is y is not shown as m; m is y where there are no
\* modules.
Shown(d, s, tri) ==
  IF s \in Member /\ Conf[s].type = "tristate" /\ tri = 1 /\ d.val[Conf[s].of] = 2
  THEN 0 ELSE tri
Seen(d, s, tri) ==
  IF tri = 1 /\ (Conf[s].type # "tristate" \/ d.val["MODULES"] = 0) THEN 2 ELSE tri
Prompt(d, s) ==
  Seen(d, s, FoldLeft(LAMBDA a, p : Or(a, Shown(d, s, Eval(p, d))), 0, Conf[s].prompts))

\* Reverse dependencies: select and imply.
ReverseDep(d, s, e) == IF s \in Member \/ e = X!None THEN 0 ELSE ToType(d, s, Eval(e, d))

Reversed(d, s) == [d EXCEPT !.rev[s] = ReverseDep(d, s, Conf[s].rev)]
sym_calc_visibility(d, s) == Reversed([d EXCEPT !.vis[s] = Prompt(d, s)], s)

Direct(d, s) == ToType(d, s, Eval(Conf[s].dep, d))

\* The first default whose condition holds.
sym_get_default_prop(d, s) ==
  SelectSeq(Conf[s].defaults, LAMBDA x : Eval(x.cond, d) # 0)

Given(d, ds) == IF ds = <<>> THEN 0 ELSE And(Eval(ds[1].value, d), Eval(ds[1].cond, d))
Implied(d, s, given, imply) ==
  IF imply # 0 THEN And(Or(given, imply), Direct(d, s)) ELSE given
DefaultTri(d, s) ==
  Implied(d, s, Given(d, sym_get_default_prop(d, s)), ReverseDep(d, s, Conf[s].imply))

CalcTristate(d, s) ==
  IF s \in Member /\ d.vis[s] = 2
  THEN IF d.pick[Conf[s].of] = s THEN 2 ELSE 0
  ELSE ToType(d, s,
         Or(IF d.vis[s] # 0 /\ s \in d.user THEN And(d.def[s], d.vis[s])
            ELSE IF s \in Choice THEN 0
            ELSE DefaultTri(d, s),
            d.rev[s]))

\* The first range whose condition holds, if any.
sym_get_range_prop(d, s) == SelectSeq(Conf[s].ranges, LAMBDA r : Eval(r.cond, d) # 0)

Clamped(rs, n) ==
  IF rs = <<>> THEN n
  ELSE IF n < rs[1].low THEN rs[1].low
  ELSE IF n > rs[1].high THEN rs[1].high
  ELSE n
sym_validate_range(d, s, n) == Clamped(sym_get_range_prop(d, s), n)

DefaultInt(ds) == IF ds = <<>> THEN 0 ELSE ds[1].value
CalcInt(d, s) ==
  sym_validate_range(d, s,
    IF d.vis[s] # 0 /\ s \in d.user THEN d.def[s] ELSE DefaultInt(sym_get_default_prop(d, s)))

\* The first default that can be seen, else the first member that can.
FirstOf(wanted, shown) ==
  IF wanted # <<>> THEN wanted[1].value ELSE IF shown # <<>> THEN shown[1] ELSE "none"
sym_choice_default(d, c) ==
  FirstOf(SelectSeq(Conf[c].defaults, LAMBDA x : Eval(x.cond, d) # 0 /\ d.vis[x.value] # 0),
          SelectSeq(Conf[c].members, LAMBDA m : d.vis[m] # 0))

\* The member that a choice with the value y picks; it stays "set by the user" only
\* while all members that can be seen are.
Kept(d, c) == \A m \in Members(c) : d.vis[m] # 0 => m \in d.user
Picked(d, c) ==
  IF d.choice[c] # "none" /\ d.vis[d.choice[c]] # 0 THEN d.choice[c]
  ELSE sym_choice_default(d, c)
WithPick(d, c, pick) ==
  [d EXCEPT !.user = IF Kept(d, c) THEN @ ELSE @ \ {c},
            !.pick[c] = pick,
            !.val[c] = IF pick = "none" THEN 0 ELSE @]
WithMember(d, c) == WithPick(d, c, Picked(d, c))
sym_calc_choice(d, c) == WithMember(FoldLeft(sym_calc_visibility, d, Conf[c].members), c)

Value(d, s) == IF s \in IntSymbol THEN CalcInt(d, s) ELSE CalcTristate(d, s)
WithValue(d, s) == [d EXCEPT !.val[s] = Value(d, s)]
WithChoice(d, s) ==
  IF s \notin Choice THEN d
  ELSE IF d.val[s] = 2 THEN sym_calc_choice(d, s)
  ELSE [d EXCEPT !.pick[s] = "none"]
sym_calc_value(d, s) ==
  WithChoice(WithValue([sym_calc_visibility(d, s) EXCEPT !.val[s] = 0], s), s)

\* Every cached value is dropped, and computed again when it is asked for.
sym_clear_all_valid(d) == FoldLeft(sym_calc_value, d, Order)

-----------------------------------------------------------------------------
(* What the user does.                                                     *)

sym_tristate_within_range(s, v) ==
  /\ st.vis[s] # 0
  /\ ~(sym_get_type(st, s) = "bool" /\ v = 1)
  /\ st.vis[s] > st.rev[s]
  /\ IF s \in Member /\ st.vis[s] = 2 THEN v = 2 ELSE v >= st.rev[s] /\ v <= st.vis[s]

Accepts(s, v) == v = st.val[s] \/ sym_tristate_within_range(s, v)

\* Setting a member of a choice makes the choice and all members that can be seen
\* count as set by the user.
Noted(s, v) ==
  LET c == Conf[s].of
      also == IF s \in Member /\ v = 2 THEN {c} \cup {m \in Members(c) : st.vis[m] # 0} ELSE {}
  IN [st EXCEPT !.user = @ \cup {s} \cup also,
                !.def[s] = v,
                !.choice = IF also = {} THEN @ ELSE [@ EXCEPT ![c] = s]]

SetTristate(s, v) ==
  IF v # st.val[s]
  THEN st' = sym_clear_all_valid(Noted(s, v)) /\ last' = [sym |-> s, value |-> v]
  ELSE st' = Noted(s, v) /\ UNCHANGED last

sym_set_tristate_value(s, v) == Accepts(s, v) /\ SetTristate(s, v)

\* The first value after the present one that the symbol accepts.
sym_toggle_tristate_value(s) ==
  SetTristate(s, SelectSeq([k \in 1..3 |-> (st.val[s] + k) % 3], LAMBDA x : Accepts(s, x))[1])

sym_string_within_range(s, n) ==
  LET rs == sym_get_range_prop(st, s)
  IN rs = <<>> \/ (n >= rs[1].low /\ n <= rs[1].high)

\* Only for a symbol with a prompt that is visible: sym_is_changeable().
sym_set_string_value(s, n) ==
  /\ st.vis[s] > st.rev[s]
  /\ sym_string_within_range(s, n)
  /\ LET next == [st EXCEPT !.user = @ \cup {s}, !.def[s] = n]
     IN IF n # st.def[s] THEN st' = sym_clear_all_valid(next) /\ last' = [sym |-> s, value |-> n]
        ELSE st' = next /\ UNCHANGED last

Blank(l) ==
  LET zero == [s \in Symbol |-> 0]
  IN [user |-> l.user, def |-> l.def, choice |-> l.choice, val |-> zero, vis |-> zero,
      rev |-> zero, pick |-> [c \in Choice |-> "none"]]

Init ==
  /\ \E l \in Loaded : st = sym_clear_all_valid(Blank(l))
  /\ last = [sym |-> "none", value |-> 0]

Next ==
  \/ \E s \in Tristate : \/ \E v \in 0..2 : sym_set_tristate_value(s, v)
                          \/ sym_toggle_tristate_value(s)
  \/ \E s \in IntSymbol, n \in Numbers : sym_set_string_value(s, n)

Spec == Init /\ [][Next]_vars

-----------------------------------------------------------------------------
(* Properties.                                                             *)

TypeOK ==
  /\ st.user \subseteq Symbol
  /\ \A s \in Tristate : {st.val[s], st.vis[s], st.rev[s]} \subseteq 0..2

\* Whatever is set in whatever order: a boolean symbol is never m; a symbol is at
\* least what selects it; a number is within its range; and of a choice that is
\* y, exactly the picked member is y among those that can be seen.
ValuesConsistent ==
  /\ \A s \in Tristate : /\ Conf[s].type = "bool" => st.val[s] # 1
                          /\ st.val[s] >= st.rev[s]
  /\ \A s \in IntSymbol : sym_validate_range(st, s, st.val[s]) = st.val[s]
  /\ \A c \in Choice :
       IF st.val[c] = 2
       THEN {m \in Members(c) : st.val[m] = 2} = {st.pick[c]} /\ st.vis[st.pick[c]] # 0
       ELSE st.pick[c] = "none" /\ \A m \in Members(c) : st.val[m] # 2

\* A value that the user may set and that differs from the present one becomes the
\* value of the symbol, also of a member of a choice; until the next change of a
\* value nothing else (confirming a value, say) takes it away.
SettingHonoured == last.sym # "none" => st.val[last.sym] = last.value

=============================================================================

------------------------------- MODULE ExprTree -------------------------------
(***************************************************************************)
(* The front end of an expression: fold, which gives every node its type   *)
(* and inserts the conversions, and const_fold, which computes what is     *)
(* known of its value at compile time.                                     *)
(*                                                                         *)
(* A parsed node n is a val (literal), var, addr (of a global array),      *)
(* cast, un, op, if (with l = Nothing for `c ?: r`), comma, set (x = r) or *)
(* upd (x op= r, ++, --).  fold adds the field t.  Reading a variable is   *)
(* the node var: the decay of the lvalue is not a node of its own.         *)
(***************************************************************************)
EXTENDS Integral

CONSTANTS
  Vars,  \* variables: name -> [t |-> type, bf |-> bit-field width or 0]
  Arrays \* global arrays: name -> [to |-> element size, weak |-> BOOLEAN]

Nothing == [n |-> "nothing"]
Error == [n |-> "error"]
NoType == [p |-> "none", s |-> FALSE, to |-> 1]

Cast(t, e) == [n |-> "cast", t |-> t, e |-> e]
fold_insert_casts(t, e) == IF t = NoType THEN e ELSE Cast(t, e)

\* type_is_promotable(), expr_promote_int_if_smaller()
Promoted(e) == IF ~IsPtr(e.t) /\ Bits(e.t) < IntBits THEN Cast(IntT, e) ELSE e

\* What fold_expr_lval2rval() makes of a variable: a bit-field is promoted.
ReadVar(x) ==
  LET v == [n |-> "var", x |-> x, t |-> Vars[x].t]
  IN CASE Vars[x].bf = 0 -> v
       [] Vars[x].bf \in 1 .. IntBits - 1 -> Cast(IntT, v)
       [] OTHER -> Cast(type_sign(IntT, FALSE), v)

(***************************************************************************)
(* op_required_promotion(): the type of an operation and the types its     *)
(* operands are converted to.  "bad" is an error message.                  *)
(***************************************************************************)
Needs(res, l, r) == [res |-> res, l |-> l, r |-> r]
Bad == Needs(NoType, NoType, NoType)

PointerPromotion(op, tl, tr) ==
  CASE IsPtr(tl) /\ IsPtr(tr) ->
         IF op = "-" THEN IF tl = tr THEN Needs(Intptr, NoType, NoType) ELSE Bad
         ELSE IF op_returns_bool(op)
              THEN Needs(IntT, NoType, IF op \in Comparisons /\ tl # tr THEN tl ELSE NoType)
         ELSE Bad
    [] op_returns_bool(op) ->
         IF op \notin Comparisons THEN Needs(IntT, NoType, NoType)
         ELSE IF IsPtr(tl) THEN Needs(IntT, NoType, tl) ELSE Needs(IntT, tr, NoType)
    [] op = "+" \/ (op = "-" /\ IsPtr(tl)) ->
         IF IsPtr(tl) THEN Needs(tl, NoType, Intptr) ELSE Needs(tr, Intptr, NoType)
    [] OTHER -> Bad

UsualConversions(tl, tr) ==
  CASE tl.s = tr.s -> IF Rank(tl) > Rank(tr) THEN Needs(tl, NoType, tl)
                      ELSE IF Rank(tl) < Rank(tr) THEN Needs(tr, tr, NoType)
                      ELSE Needs(tr, NoType, NoType)
    [] IF tl.s THEN Rank(tr) >= Rank(tl) ELSE Rank(tl) >= Rank(tr) ->
         IF tl.s THEN Needs(tr, tr, NoType) ELSE Needs(tl, NoType, tl)
    [] IF tl.s THEN Bits(tl) > Bits(tr) ELSE Bits(tr) > Bits(tl) ->
         IF tl.s THEN Needs(tl, NoType, tl) ELSE Needs(tr, tr, NoType)
    [] OTHER -> LET u == type_sign(IF tl.s THEN tl ELSE tr, FALSE) IN Needs(u, u, u)

op_required_promotion(op, tl, tr) ==
  CASE IsPtr(tl) \/ IsPtr(tr) -> PointerPromotion(op, tl, tr)
    [] op \in {"<<", ">>"} -> IF Rank(tl) < Rank(IntT) THEN Needs(IntT, IntT, NoType) ELSE Needs(tl, NoType, NoType)
    [] op \in Shortcircuit -> Needs(IntT, NoType, NoType)
    [] OTHER -> LET c == UsualConversions(tl, tr)
                IN IF op_returns_bool(op) THEN [c EXCEPT !.res = IntT] ELSE c

(***************************************************************************)
(* Compile-time values: consty.  An address is a label with an offset, or  *)
(* a number (lbl = "mem").                                                 *)
(***************************************************************************)
CONST_NO == [k |-> "no", lbl |-> "", weak |-> FALSE, v |-> 0]
CONST_NUM(v) == [CONST_NO EXCEPT !.k = "num", !.v = v]
CONST_ADDR(x, off) == [k |-> "addr", lbl |-> x, weak |-> Arrays[x].weak, v |-> off]
\* CONST_FOLD_NO() of what was a constant leaves its bits.
NoLonger(k) == [k EXCEPT !.k = "no"]
MemAddr(v) == [CONST_NO EXCEPT !.k = "addr", !.lbl = "mem", !.v = v]

\* collapse_const() and what is known of the truth of the result.
IsLabel(k) == k.k = "addr" /\ k.lbl # "mem"
Truth(k) == IF k.k = "no" \/ k.weak THEN "unknown" ELSE IF IsLabel(k) \/ k.v # 0 THEN "true" ELSE "false"

\* The table of eval_shortcircuit(): an unknown left side decides nothing.
eval_shortcircuit(op, l, r) ==
  IF l = "unknown" THEN "unknown"
  ELSE IF op = "&&" THEN (IF l = "false" THEN "false" ELSE r)
  ELSE (IF l = "true" THEN "true" ELSE r)
eval_truth_to_consty(t) ==
  CASE t = "unknown" -> CONST_NO [] t = "true" -> CONST_NUM(1) [] OTHER -> CONST_NUM(0)

\* Two labels: only equality, which ignores the offsets, and differences.
TwoLabels(op, l, r, t) ==
  CASE op \in {"==", "!="} /\ ~l.weak /\ ~r.weak -> CONST_NUM(AsBool((op = "==") = (l.lbl = r.lbl)))
    [] op = "-" /\ ~l.weak /\ ~r.weak /\ l.lbl = r.lbl ->
         CONST_NUM(ToWord(l.v - r.v) \div t.to)
    [] OTHER -> CONST_NO

\* A label and a number that is already multiplied by the size pointed to.
LabelAndNumber(op, l, r) ==
  LET lbl == IF IsLabel(l) THEN l ELSE r
      num == IF IsLabel(l) THEN r ELSE l
  IN CASE op \in {"==", "!="} /\ num.v = 0 /\ ~lbl.weak -> CONST_NUM(AsBool(op = "!="))
       [] op = "+" -> [lbl EXCEPT !.v = ToWord(@ + num.v)]
       [] op = "-" -> [lbl EXCEPT !.v = ToWord(@ - num.v)]
       [] OTHER -> CONST_NO

\* const_op_num_int() of a binary operator.
ConstBinary(e, l, r) ==
  LET steps == e.op \in {"+", "-"} /\ ~(IsLabel(l) /\ IsLabel(r))
      ll == IF steps /\ ~IsPtr(e.l.t) /\ IsPtr(e.r.t) THEN [l EXCEPT !.v = ToWord(@ * e.r.t.to)] ELSE l
      rr == IF steps /\ IsPtr(e.l.t) THEN [r EXCEPT !.v = ToWord(@ * e.l.t.to)] ELSE r
  IN CASE e.op \in Shortcircuit -> eval_truth_to_consty(eval_shortcircuit(e.op, Truth(ll), Truth(rr)))
       [] IsLabel(l) /\ IsLabel(r) -> TwoLabels(e.op, ll, rr, e.l.t)
       [] IsLabel(l) \/ IsLabel(r) -> LabelAndNumber(e.op, ll, rr)
       [] DividesByZero(rr.v, e.op) -> CONST_NO
       [] OTHER -> CONST_NUM(const_op_exec(ll.v, rr.v, e.op, e.t))

ConstUnary(e, k) ==
  CASE k.k = "no" -> CONST_NO
    [] IsLabel(k) -> IF e.op = "!" /\ ~k.weak THEN CONST_NUM(0) ELSE CONST_NO
    [] OTHER -> CONST_NUM(const_op_exec_unary(k.v, e.op, e.t))

\* fold_const_expr_op(): with one side unknown && and || may still be decided.
fold_const_expr_op(e, l, r) ==
  CASE e.over # "none" -> IF e.over = "zero" THEN CONST_NUM(0) ELSE CONST_NO
    [] l.k # "no" /\ r.k # "no" -> ConstBinary(e, l, r)
    [] e.op \in Shortcircuit /\ l.k # "no" -> eval_truth_to_consty(eval_shortcircuit(e.op, Truth(l), "unknown"))
    [] OTHER -> CONST_NO

\* fold_const_expr_cast(): fold_cast_num(), cast_addr(), const_intify(), const_memify().
fold_const_expr_cast(e, k) ==
  LET from == e.e.t
      to == e.t
      lost == k.k = "addr" /\ Bits(to) < Bits(from)
              /\ (IsLabel(k) \/ integral_truncate(k.v, Bits(to)) # k.v)
  IN CASE k.k = "no" -> k
       [] lost -> NoLonger(k)
       [] k.k = "num" -> LET v == ConvertConst(k.v, from, to)
                         IN IF IsPtr(to) /\ ~IsPtr(from) THEN MemAddr(v) ELSE CONST_NUM(v)
       [] k.k = "addr" /\ ~IsLabel(k) /\ IsPtr(from) /\ ~IsPtr(to) -> CONST_NUM(k.v)
       [] OTHER -> k

\* fold_const_expr_if(): any address counts as true.
fold_const_expr_if(c, l, r) ==
  CASE c.k = "no" -> CONST_NO
    [] c.k = "addr" \/ c.v # 0 -> IF l.k = "no" THEN CONST_NO ELSE l
    [] OTHER -> IF r.k = "no" THEN CONST_NO ELSE r

RECURSIVE const_fold(_)
const_fold(e) ==
  CASE e.n = "val" -> CONST_NUM(e.v)
    [] e.n = "addr" -> CONST_ADDR(e.x, 0)
    [] e.n = "cast" -> fold_const_expr_cast(e, const_fold(e.e))
    [] e.n = "un" -> ConstUnary(e, const_fold(e.e))
    [] e.n = "op" -> fold_const_expr_op(e, const_fold(e.l), const_fold(e.r))
    [] e.n = "if" -> LET c == const_fold(e.c)
                     IN fold_const_expr_if(c, IF e.l = Nothing THEN c ELSE const_fold(e.l), const_fold(e.r))
    [] e.n = "comma" -> IF const_fold(e.l).k = "no" THEN NoLonger(const_fold(e.r)) ELSE const_fold(e.r)
    [] OTHER -> CONST_NO

(***************************************************************************)
(* fold: types and conversions.                                            *)
(***************************************************************************)
\* op_shift_check(): the constant of a shift by a bad count is overridden.  The count is read
\* without asking whether it is a constant: of a label the bits are cc1's own pointer.
BadCount(l, r, kr) ==
  kr.lbl \notin {"", "mem"} \/ (r.t.s /\ Signed(kr.v) < 0) \/ kr.v >= Bits(l.t)
op_shift_check(l, r) ==
  CASE ~BadCount(l, r, const_fold(r)) -> "none"
    [] const_fold(l).k = "num" -> "zero"
    [] OTHER -> "no"
\* op_check_precedence(): a shift next to another operator without brackets is warned of,
\* and then its count is not checked.
Unbracketed(op, sub, ops) == sub.n = "op" /\ sub.op # op /\ sub.op \in ops
op_check_precedence(op, l, r) ==
  Unbracketed(op, l, {"+", "-", "*", "/", "%", "<<", ">>"}) \/ Unbracketed(op, r, {"+", "-", "*", "/", "%"})

Operation(op, l, r, t, warned) ==
  [n |-> "op", op |-> op, l |-> l, r |-> r, t |-> t,
   over |-> IF op \in {"<<", ">>"} /\ ~warned THEN op_shift_check(l, r) ELSE "none"]
WithCasts(op, l, r, need, warned) ==
  IF need = Bad THEN Error
  ELSE Operation(op, fold_insert_casts(need.l, l), fold_insert_casts(need.r, r), need.res, warned)
FoldPromoted(op, l, r, warned) == WithCasts(op, l, r, op_required_promotion(op, l.t, r.t), warned)
FoldBinary(op, l, r) == FoldPromoted(op, Promoted(l), Promoted(r), op_check_precedence(op, l, r))

FoldUnary(op, e0) ==
  LET e == Promoted(e0)
  IN IF IsPtr(e.t) /\ op # "!" THEN Error
     ELSE [n |-> "un", op |-> op, e |-> e, t |-> IF op = "!" THEN IntT ELSE e.t]

\* fold_expr_if(): the operands are converted to each other, not promoted.
FoldIf(c, l, r) ==
  LET mid == IF l = Nothing THEN c ELSE l
      need == UsualConversions(mid.t, r.t)
      conv == fold_insert_casts(need.l, mid)
  IN IF IsPtr(mid.t) \/ IsPtr(r.t) THEN Error
     ELSE [n |-> "if", c |-> IF l = Nothing THEN conv ELSE c, l |-> IF l = Nothing THEN Nothing ELSE conv,
           r |-> fold_insert_casts(need.r, r), t |-> need.res]

\* fold_expr_assign(): any other arithmetic type is converted to the variable's.
FoldSet(x, r) ==
  LET t == Vars[x].t
  IN [n |-> "set", x |-> x, r |-> IF r.t = t THEN r ELSE Cast(t, r), t |-> t]

\* fold_expr_assign_compound(): the variable is converted when the code is generated.
FoldUpd(op, x, r0, post) ==
  LET r == Promoted(r0)
      need == op_required_promotion(op, Vars[x].t, r.t)
  IN IF need = Bad THEN Error
     ELSE [n |-> "upd", op |-> op, x |-> x, up |-> need.l, post |-> post, t |-> Vars[x].t,
           r |-> IF need.l = NoType THEN fold_insert_casts(need.r, r) ELSE r]

RECURSIVE fold(_)
fold(e) ==
  LET Ok(f) == f.n # "error"
      L == fold(e.l)
      R == fold(e.r)
      E == fold(e.e)
  IN CASE e.n = "nothing" -> e
       [] e.n = "val" -> [n |-> "val", v |-> e.v, suffix |-> e.suffix, hex |-> e.hex, t |-> LiteralType(e.v, e.suffix, e.hex)]
       [] e.n = "var" -> ReadVar(e.x)
       [] e.n = "addr" -> [n |-> "addr", x |-> e.x, t |-> PtrTo(Arrays[e.x].to)]
       [] e.n = "cast" -> IF Ok(E) THEN Cast(e.t, E) ELSE Error
       [] e.n = "un" -> IF Ok(E) THEN FoldUnary(e.op, E) ELSE Error
       [] e.n = "op" -> IF Ok(L) /\ Ok(R) THEN FoldBinary(e.op, L, R) ELSE Error
       [] e.n = "if" -> IF Ok(fold(e.c)) /\ Ok(L) /\ Ok(R) THEN FoldIf(fold(e.c), L, R) ELSE Error
       [] e.n = "comma" -> IF Ok(L) /\ Ok(R) THEN [n |-> "comma", l |-> L, r |-> R, t |-> R.t] ELSE Error
       [] e.n = "set" -> IF Ok(R) /\ ~IsPtr(R.t) THEN FoldSet(e.x, R) ELSE Error
       [] e.n = "upd" -> IF Ok(R) /\ ~IsPtr(R.t) THEN FoldUpd(e.op, e.x, R, e.post) ELSE Error
===============================================================================

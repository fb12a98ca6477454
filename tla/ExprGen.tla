-------------------------------- MODULE ExprGen --------------------------------
(***************************************************************************)
(* The code of an expression: gen_expr() over the folded tree, and out_op, *)
(* which simplifies what it can before an instruction is chosen.  Running  *)
(* the generated code is modelled with generating it: gen(e, s, opt) is    *)
(* the value the code leaves and the memory it leaves it in.               *)
(*                                                                         *)
(* An out_val is a constant (a whole word, whatever its type), a register  *)
(* with an offset still to be added, the address of a label with an        *)
(* offset, or a CPU flag.  s.mem holds the variables, s.at the addresses   *)
(* of the arrays; opt is -fconst-fold.                                     *)
(***************************************************************************)
EXTENDS ExprTree

V(k, t, v, off) == [k |-> k, t |-> t, v |-> v, off |-> off]
V_CONST_I(t, v) == V("const", t, v, 0)
V_REG(t, v) == V("reg", t, integral_truncate(v, Bits(t)), 0)
V_FLAG(b) == V("flag", BoolT, AsBool(b), 0)
IsConst(x) == x.k = "const"

\* The bits an instruction of the value's width sees, and the number they stand for.
Read(x) == integral_truncate(x.v + x.off, Bits(x.t))
Meant(bits, t) == IF t.s /\ ~IsPtr(t) /\ bits >= 2 ^ (Bits(t) - 1) THEN bits - 2 ^ Bits(t) ELSE bits
v_reg_apply_offset(x) == V_REG(x.t, Read(x))
out_change_type(x, t) == [x EXCEPT !.t = t]

\* out_normalise(): a constant by its word, anything else by a comparison with 0.
out_normalise(x, opt) ==
  CASE x.k = "flag" -> x
    [] IsConst(x) /\ opt -> [x EXCEPT !.v = AsBool(@ # 0)]
    [] OTHER -> V_FLAG(Read(x) # 0)

\* out_cast(), impl_cast_load(): widening loads the value into a register,
\* narrowing only changes the type.
\* A possible bug: a pending offset is not added before the width changes.
Widened_Late(x, to) == [V_REG(to, IF x.t.s THEN SignExtended(x.v, Bits(x.t)) ELSE integral_truncate(x.v, Bits(x.t))) EXCEPT !.off = x.off]
Widened(x, to) == V_REG(to, IF x.t.s THEN SignExtended(Read(x), Bits(x.t)) ELSE Read(x))
impl_cast(x, to) == IF Bits(x.t) < Bits(to) THEN Widened(x, to)
                    ELSE IF Bits(x.t) > Bits(to) /\ x.k = "reg" THEN out_change_type(v_reg_apply_offset(x), to)
                    ELSE out_change_type(x, to)
out_cast(x, to, opt) == impl_cast(IF to.p = "bool" THEN out_normalise(x, opt) ELSE x, to)

(***************************************************************************)
(* impl_op(): one instruction (or a division's few) at the operands' width.*)
(***************************************************************************)
maybe_promote(l, r) ==
  CASE Bits(l.t) < Bits(r.t) -> <<impl_cast(l, r.t), r>>
    [] Bits(l.t) > Bits(r.t) -> <<l, impl_cast(r, l.t)>>
    [] OTHER -> <<l, r>>

\* What a signed or unsigned instruction takes the bits of a value for.
Viewed(signed, x, bits) == IF signed THEN Signed(SignExtended(Read(x), bits)) ELSE Read(x)
SameWidth(op, p, signed) ==
  IF op \in Comparisons
  THEN V_FLAG(Compare(op, Viewed(signed, p[1], Bits(p[1].t)), Viewed(signed, p[2], Bits(p[1].t))) = 1)
  ELSE V_REG(p[1].t, WordOp(Read(p[1]), Read(p[2]), op, FALSE))
Division(op, t, a, b) == V_REG(t, CASE b = 0 -> 0 [] op = "/" -> Quot(a, b) [] OTHER -> Rem(a, b))
ShiftedRight(t, a, n) == V_REG(t, a \div 2 ^ (n % LongBits))

\* x86_check_ivfp(): a constant that stays an operand of the instruction; larger ones are loaded.
Immediate(x) == IsConst(x) /\ integral_high_bit(x.v, x.t) < IntBits - 1
\* A comparison with the constant 0 is a `test` of the other operand with itself, which no
\* assembler takes when that is a constant as well: what comes of it is not the value.
Untestable(op, l, r) == op \in {"==", "!="} /\ Immediate(l) /\ l.v = 0 /\ Immediate(r)
TestOfImmediates(op, l, r) == V("none", BoolT, 1 - Compare(op, Read(l), Read(r)), 0)

impl_op(op, l, r) ==
  CASE Untestable(op, l, r) -> TestOfImmediates(op, l, r)
    [] op = "<<" -> V_REG(l.t, Read(l) * 2 ^ (Read(r) % LongBits))
    [] op = ">>" -> ShiftedRight(l.t, Viewed(l.t.s, l, Bits(l.t)), Read(r))
    [] op \in {"/", "%"} -> Division(op, l.t, Viewed(r.t.s, l, Bits(r.t)), Viewed(r.t.s, r, Bits(r.t)))
    [] OTHER -> SameWidth(op, maybe_promote(l, r), l.t.s)

(***************************************************************************)
(* out_op()                                                                *)
(***************************************************************************)
IsPow2(v) == \E b \in 0 .. LongBits - 1 : v = 2 ^ b

\* A constant operand that leaves the other one as it is.
const_is_noop(op, c, is_lhs) ==
  CASE op \in {"+", "|", "^", "<<", ">>"} -> c = 0
    [] op = "*" -> c = 1
    [] op = "&" -> c = Word - 1
    [] op = "-" -> ~is_lhs /\ c = 0
    [] op = "/" -> ~is_lhs /\ c = 1
    [] OTHER -> FALSE

\* try_shift_conv() and try_trunc_conv(): unsigned *, / and % by a power of two.
Strength(op, l, r) ==
  CASE ~l.t.s /\ op = "/" /\ IsConst(r) /\ IsPow2(r.v) -> [op |-> ">>", l |-> l, r |-> [r EXCEPT !.v = HighBit(@)]]
    [] ~l.t.s /\ op = "*" /\ IsConst(l) /\ IsPow2(l.v) -> [op |-> "<<", l |-> r, r |-> [l EXCEPT !.v = HighBit(@)]]
    [] ~l.t.s /\ op = "*" /\ ~IsConst(l) /\ IsConst(r) /\ IsPow2(r.v) -> [op |-> "<<", l |-> l, r |-> [r EXCEPT !.v = HighBit(@)]]
    [] ~l.t.s /\ op = "%" /\ IsConst(r) /\ IsPow2(r.v) -> [op |-> "&", l |-> l, r |-> [r EXCEPT !.v = @ - 1]]
    [] OTHER -> [op |-> op, l |-> l, r |-> r]

\* A constant added to a register or a label stays an offset.
MemOffset(op, c, x) ==
  LET delta == c.v * x.t.to
  IN [x EXCEPT !.off = ToWord(@ + (IF op = "-" THEN -delta ELSE delta))]

RECURSIVE out_op(_, _, _, _)
out_op(op, l, r, opt) ==
  LET c == IF IsConst(r) THEN r ELSE l
      other == IF IsConst(r) THEN l ELSE r
      known == IsConst(l) \/ IsConst(r)
      sums == op \in {"+", "-"}
      scale(i, ptr) == IF IsConst(i) THEN [i EXCEPT !.v = ToWord(@ * ptr.t.to)]
                       ELSE out_op("*", i, V_CONST_I(Intptr, ptr.t.to), opt)
  IN CASE known /\ other.k \in {"reg", "lbl"} /\ (op = "+" \/ (op = "-" /\ IsConst(r))) -> MemOffset(op, c, other)
       [] opt /\ IsConst(l) /\ IsConst(r) /\ l.t.to = 1 /\ r.t.to = 1 /\ ~DividesByZero(r.v, op) ->
            V_CONST_I(l.t, const_op_exec(l.v, r.v, op, l.t))
       [] opt /\ known /\ ~IsConst(other) /\ const_is_noop(op, c.v, IsConst(l)) -> other
       [] sums /\ IsPtr(l.t) /\ ~IsPtr(r.t) -> impl_op(op, l, scale(r, l))
       [] sums /\ ~IsPtr(l.t) /\ IsPtr(r.t) -> impl_op(op, scale(l, r), r)
       [] sums /\ IsPtr(l.t) /\ IsPtr(r.t) ->
            out_op("/", impl_op(op, l, r), V_CONST_I(PtrTo(1), l.t.to), opt)
       [] known -> LET Reduced(s) == impl_op(s.op, s.l, s.r) IN Reduced(Strength(op, l, r))
       [] OTHER -> impl_op(op, l, r)

\* out_op_unary(), impl_op_unary()
out_op_unary(op, x, opt) ==
  CASE op = "+" -> x
    [] x.k = "flag" /\ op = "!" -> [x EXCEPT !.v = 1 - @]
    [] IsConst(x) /\ opt -> [x EXCEPT !.v = CASE op = "!" -> AsBool(@ = 0) [] op = "-" -> ToWord(-@) [] OTHER -> Word - 1 - @]
    [] op = "!" -> out_op("==", x, V_CONST_I(x.t, 0), opt)
    [] op = "-" -> V_REG(x.t, -Read(x))
    [] OTHER -> V_REG(x.t, Word - 1 - Read(x))

(***************************************************************************)
(* gen_expr()                                                              *)
(***************************************************************************)
Width(x) == IF Vars[x].bf = 0 THEN Bits(Vars[x].t) ELSE Vars[x].bf
\* out_deref() and out_store() of a variable; a bit-field is extended and cut.
out_deref(x, s) == V_REG(Vars[x].t, IF Vars[x].t.s THEN SignExtended(s.mem[x], Width(x)) ELSE s.mem[x])
out_store(x, val, s) == [s EXCEPT !.mem[x] = integral_truncate(Read(val), Width(x))]
Branches(val) == IF IsConst(val) THEN val.v # 0 ELSE Read(val) # 0
Left(val, s) == [val |-> val, s |-> s]

\* x op= r: the variable is read after r has been computed.
GenUpd(e, r, opt) ==
  LET old == out_deref(e.x, r.s)
      lhs == IF e.up = NoType THEN old ELSE out_cast(old, e.up, opt)
      op == out_op(e.op, lhs, r.val, opt)
      res == IF e.up = NoType THEN op ELSE out_cast(op, e.t, opt)
  IN Left(IF e.post THEN old ELSE res, out_store(e.x, res, r.s))
GenCast(e, g, opt) == Left(out_cast(g.val, e.t, opt), g.s)
GenUnary(e, g, opt) == Left(out_change_type(out_op_unary(e.op, g.val, opt), e.t), g.s)
GenSet(e, r) == LET Stored(s) == Left(out_deref(e.x, s), s) IN Stored(out_store(e.x, r.val, r.s))
AsLogical(e, r, opt) == Left(V_REG(e.t, Read(out_normalise(r.val, opt))), r.s)
Operated(e, l, r, opt) == Left(out_change_type(out_op(e.op, l.val, r.val, opt), e.t), r.s)
Landed(e, side) == Left(V_REG(e.t, Read(side.val)), side.s)

\* The landing block of && and || gets 0 or 1, that of ?: one side's value.
RECURSIVE gen_expr(_, _, _)
GenShortcircuit(e, l, opt) ==
  IF Branches(out_normalise(l.val, opt)) = (e.op = "&&") THEN AsLogical(e, gen_expr(e.r, l.s, opt), opt)
  ELSE Left(V_REG(e.t, AsBool(e.op = "||")), l.s)
GenOp(e, l, opt) == Operated(e, l, gen_expr(e.r, l.s, opt), opt)
GenIf(e, c, opt) ==
  Landed(e, CASE ~Branches(c.val) -> gen_expr(e.r, c.s, opt)
              [] e.l = Nothing -> c
              [] OTHER -> gen_expr(e.l, c.s, opt))
Generated(e, s, opt) ==
  CASE e.n = "val" -> Left(V_CONST_I(e.t, e.v), s)
    [] e.n = "var" -> Left(out_deref(e.x, s), s)
    [] e.n = "addr" -> Left(V("lbl", e.t, s.at[e.x], 0), s)
    [] e.n = "cast" -> GenCast(e, gen_expr(e.e, s, opt), opt)
    [] e.n = "un" -> GenUnary(e, gen_expr(e.e, s, opt), opt)
    [] e.n = "op" /\ e.op \in Shortcircuit -> GenShortcircuit(e, gen_expr(e.l, s, opt), opt)
    [] e.n = "op" -> GenOp(e, gen_expr(e.l, s, opt), opt)
    [] e.n = "if" -> GenIf(e, gen_expr(e.c, s, opt), opt)
    [] e.n = "comma" -> gen_expr(e.r, gen_expr(e.l, s, opt).s, opt)
    [] e.n = "set" -> GenSet(e, gen_expr(e.r, s, opt))
    [] e.n = "upd" -> GenUpd(e, gen_expr(e.r, s, opt), opt)

GenFolded(e, k, s, opt) == IF opt /\ k.k = "num" THEN Left(V_CONST_I(e.t, k.v), s) ELSE Generated(e, s, opt)
gen_expr(e, s, opt) == GenFolded(e, const_fold(e), s, opt)
===============================================================================

--------------------------------- MODULE Expr ---------------------------------
(***************************************************************************)
(* Expressions from the tokens to the value of the generated code,         *)
(* compared with what C says they mean.                                    *)
(***************************************************************************)
EXTENDS ExprGen, ExprSyntax, FiniteSets

CONSTANTS
  Leaves,   \* literals, variables and arrays an expression starts with
  Operands, \* leaves used as the other operand of an operator
  UnaryOps, BinaryOps, CastTypes, UpdateOps, \* what may be put around it
  Targets,  \* variables that are assigned to
  MaxDepth, \* bound on the constructs around a leaf
  Stores    \* the [mem, at] an expression is evaluated in

VARIABLES
  tree,  \* the expression, as the programmer thinks of it
  typed, \* what cc1 has folded it to, Nothing before
  depth  \* constructs used

vars == <<tree, typed, depth>>

--------------------------------------------------------------------------------
(***************************************************************************)
(* A tree as a programmer writes it, with brackets only where C's grammar  *)
(* needs them.                                                             *)
(***************************************************************************)
BindsTighter == <<{","}, {"="}, {"?"}, {"||"}, {"&&"}, {"|"}, {"^"}, {"&"}, {"==", "!="}, {"<", "<=", ">", ">="},
                  {"<<", ">>"}, {"+", "-"}, {"*", "/", "%"}>>
Level(op) == CHOOSE i \in DOMAIN BindsTighter : op \in BindsTighter[i]
LevelOf(e) ==
  CASE e.n = "comma" -> Level(",") [] e.n = "set" \/ (e.n = "upd" /\ ~e.post) -> Level("=") [] e.n = "if" -> Level("?")
    [] e.n = "op" -> Level(e.op) [] e.n \in {"un", "cast"} -> 14 [] OTHER -> 15
RECURSIVE Written(_)
\* e where a construct of at least this level is expected.
At(level, e) == IF LevelOf(e) < level THEN <<Tok("(")>> \o Written(e) \o <<Tok(")")>> ELSE Written(e)
Written(e) ==
  CASE e.n = "comma" -> At(Level("="), e.l) \o <<Tok(",")>> \o At(Level(","), e.r)
    [] e.n = "set" -> <<[n |-> "var", x |-> e.x], Tok("=")>> \o At(Level("="), e.r)
    [] e.n = "upd" /\ e.post -> <<[n |-> "var", x |-> e.x], Tok(IF e.op = "+" THEN "++" ELSE "--")>>
    [] e.n = "upd" -> <<[n |-> "var", x |-> e.x], [upd |-> e.op]>> \o At(Level("="), e.r)
    [] e.n = "if" -> At(Level("||"), e.c) \o <<Tok("?")>> \o (IF e.l = Nothing THEN <<>> ELSE Written(e.l))
                       \o <<Tok(":")>> \o At(Level("?"), e.r)
    [] e.n = "op" -> At(Level(e.op), e.l) \o <<Tok(e.op)>> \o At(Level(e.op) + 1, e.r)
    [] e.n = "un" -> <<Tok(e.op)>> \o At(14, e.e)
    [] e.n = "cast" -> <<Tok("("), [ty |-> e.t], Tok(")")>> \o At(14, e.e)
    [] OTHER -> <<e>>

(***************************************************************************)
(* A programmer writes an expression by putting constructs around it.      *)
(***************************************************************************)
WriteOperand == tree = Nothing /\ tree' \in Leaves /\ UNCHANGED <<typed, depth>>
Around(e) ==
  /\ tree # Nothing
  /\ typed = Nothing
  /\ depth < MaxDepth
  /\ tree' = e
  /\ depth' = depth + 1
  /\ UNCHANGED typed

WriteUnary == \E op \in UnaryOps : Around([n |-> "un", op |-> op, e |-> tree])
WriteCast == \E t \in CastTypes : Around([n |-> "cast", t |-> t, e |-> tree])
WritePostfix == \E op \in {"+", "-"}, x \in Targets : tree = [n |-> "var", x |-> x] /\ Around(Upd(tree, op, One, TRUE))
WriteBinary ==
  \E op \in BinaryOps, x \in Operands :
    \/ Around([n |-> "op", op |-> op, l |-> tree, r |-> x])
    \/ Around([n |-> "op", op |-> op, l |-> x, r |-> tree])
WriteConditional ==
  \E x \in Operands, y \in Operands :
    \/ Around([n |-> "if", c |-> tree, l |-> x, r |-> y])
    \/ Around([n |-> "if", c |-> x, l |-> tree, r |-> y])
    \/ Around([n |-> "if", c |-> tree, l |-> Nothing, r |-> y])
    \/ Around([n |-> "if", c |-> x, l |-> Nothing, r |-> tree])
WriteComma ==
  \E x \in Operands : \/ Around([n |-> "comma", l |-> tree, r |-> x])
                      \/ Around([n |-> "comma", l |-> x, r |-> tree])
WriteAssignment ==
  \E x \in Targets : \/ Around([n |-> "set", x |-> x, r |-> tree])
                     \/ \E op \in UpdateOps : Around(Upd([x |-> x], op, tree, FALSE))

\* cc1 parses and folds the expression; then comes the next one.
fold_expr ==
  /\ tree # Nothing
  /\ typed = Nothing
  /\ typed' = fold(parse_expr_exp(Written(tree)).e)
  /\ UNCHANGED <<tree, depth>>
NextExpr ==
  /\ typed # Nothing
  /\ tree' = Nothing
  /\ typed' = Nothing
  /\ depth' = 0

Init == tree = Nothing /\ typed = Nothing /\ depth = 0
Next ==
  \/ WriteOperand \/ WriteUnary \/ WriteCast \/ WritePostfix \/ WriteBinary \/ WriteConditional
  \/ WriteComma \/ WriteAssignment \/ fold_expr \/ NextExpr
Spec == Init /\ [][Next]_vars

--------------------------------------------------------------------------------
(***************************************************************************)
(* What C says: an evaluator over mathematical integers that knows nothing *)
(* of words.  ok is FALSE where the standard leaves the value undefined.   *)
(* Conversion to a signed type that cannot hold a value, and shifting a    *)
(* negative value right, are as cc1's target defines them.                 *)
(***************************************************************************)
Lowest(t) == IF t.s /\ ~IsPtr(t) THEN -(2 ^ (Bits(t) - 1)) ELSE 0
Highest(t) == IF t.s /\ ~IsPtr(t) THEN 2 ^ (Bits(t) - 1) - 1 ELSE 2 ^ Bits(t) - 1
Holds(t, v) == Lowest(t) <= v /\ v <= Highest(t)
To(t, v) == IF t.p = "bool" THEN AsBool(v # 0) ELSE ((v - Lowest(t)) % (2 ^ Bits(t))) + Lowest(t)

\* The first type of the standard's list that holds the literal.
CLiteral(v, suffix, hex) ==
  LET list == <<IntT, type_sign(IntT, FALSE), Prim("long", TRUE), Prim("long", FALSE), Prim("llong", TRUE), Prim("llong", FALSE)>>
      from == CASE suffix \in {"l", "ul"} -> 3 [] suffix = "ll" -> 5 [] OTHER -> 1
      may(t) == IF suffix \in {"u", "ul"} THEN ~t.s ELSE t.s \/ hex
      fits == {i \in from .. 6 : may(list[i]) /\ Holds(list[i], v)}
  IN IF fits = {} THEN list[6] ELSE list[CHOOSE i \in fits : \A j \in fits : i <= j]

CPromoted(t) == IF IsPtr(t) \/ Rank(t) >= Rank(IntT) THEN t ELSE IntT
\* The higher-ranked type, the unsigned one of two equals; made unsigned if it is
\* signed and cannot hold the other type's values.
CUnsignedIfNeeded(top, low) == IF top.s /\ Highest(low) > Highest(top) THEN type_sign(top, FALSE) ELSE top
CHigher(a, b) ==
  IF Rank(a) > Rank(b) \/ (Rank(a) = Rank(b) /\ ~a.s) THEN CUnsignedIfNeeded(a, b) ELSE CUnsignedIfNeeded(b, a)
CCommon(t1, t2) == CHigher(CPromoted(t1), CPromoted(t2))

C(ok, t, v, s) == [ok |-> ok, t |-> t, v |-> v, s |-> s]
\* A signed result has to be representable, an unsigned one wraps.
Arith(t, v, s) == IF t.s THEN C(Holds(t, v), t, v, s) ELSE C(TRUE, t, To(t, v), s)

CBitwise(op, t, a, b) ==
  LET wa == To(type_sign(t, FALSE), a)
      wb == To(type_sign(t, FALSE), b)
  IN To(t, CASE op = "&" -> wa & wb [] op = "|" -> wa | wb [] OTHER -> wa ^^ wb)

CShift(op, l, r, s) ==
  LET t == CPromoted(l.t)
      in == r.v >= 0 /\ r.v < Bits(t)
  IN IF ~in THEN C(FALSE, t, 0, s)
     ELSE IF op = ">>" THEN C(TRUE, t, l.v \div 2 ^ r.v, s)
     ELSE IF t.s THEN C(l.v >= 0 /\ Holds(t, l.v * 2 ^ r.v), t, To(t, l.v * 2 ^ r.v), s)
     ELSE C(TRUE, t, To(t, l.v * 2 ^ r.v), s)

CPointer(op, l, r, s) ==
  CASE op \in Comparisons /\ IsPtr(l.t) /\ IsPtr(r.t) -> C(op \in {"==", "!="}, IntT, Compare(op, l.v, r.v), s)
    [] op \in Comparisons -> C(op \in {"==", "!="} /\ 0 \in {l.v, r.v}, IntT, Compare(op, l.v, r.v), s)
    [] op = "-" /\ IsPtr(r.t) -> C((l.v - r.v) % l.t.to = 0, Intptr, (l.v - r.v) \div l.t.to, s)
    [] OTHER -> LET p == IF IsPtr(l.t) THEN l ELSE r
                    i == IF IsPtr(l.t) THEN r ELSE l
                    v == IF op = "-" THEN p.v - i.v * p.t.to ELSE p.v + i.v * p.t.to
                IN C(p.v # 0 /\ Holds(p.t, v), p.t, To(p.t, v), s)

CArith(op, t, a, b, s) ==
  CASE op \in Comparisons -> C(TRUE, IntT, Compare(op, a, b), s)
    [] op \in {"/", "%"} /\ b = 0 -> C(FALSE, t, 0, s)
    [] op \in {"+", "-", "*", "/"} ->
         Arith(t, CASE op = "+" -> a + b [] op = "-" -> a - b [] op = "*" -> a * b [] OTHER -> Quot(a, b), s)
    [] op = "%" -> C(Holds(t, Quot(a, b)), t, Rem(a, b), s)
    [] OTHER -> C(TRUE, t, CBitwise(op, t, a, b), s)
CConverted(op, t, l, r, s) == CArith(op, t, To(t, l.v), To(t, r.v), s)

CBinary(op, l, r, s) ==
  CASE IsPtr(l.t) \/ IsPtr(r.t) -> CPointer(op, l, r, s)
    [] op \in {"<<", ">>"} -> CShift(op, l, r, s)
    [] OTHER -> CConverted(op, CCommon(l.t, r.t), l, r, s)

CUnary(op, x, s) ==
  LET t == CPromoted(x.t)
  IN CASE op = "!" -> C(TRUE, IntT, AsBool(x.v = 0), s)
       [] op = "+" -> C(TRUE, t, x.v, s)
       [] op = "-" -> Arith(t, -x.v, s)
       [] OTHER -> C(TRUE, t, To(t, -1 - x.v), s)

\* The value of a variable; a bit-field has the range of its width.
CRead(x, s) == Meant(Read(out_deref(x, s)), Vars[x].t)
CStore(x, v, s) == [s EXCEPT !.mem[x] = To(type_sign(Vars[x].t, FALSE), To(Vars[x].t, v)) % (2 ^ Width(x))]
CVarType(x) == IF Vars[x].bf \in 1 .. IntBits - 1 THEN IntT ELSE Vars[x].t

RECURSIVE Assigns(_, _)
Assigns(e, x) ==
  CASE e.n \in {"set", "upd"} -> e.x = x \/ Assigns(e.r, x)
    [] e.n \in {"cast", "un"} -> Assigns(e.e, x)
    [] e.n \in {"op", "comma"} -> Assigns(e.l, x) \/ Assigns(e.r, x)
    [] e.n = "if" -> Assigns(e.c, x) \/ Assigns(e.l, x) \/ Assigns(e.r, x)
    [] OTHER -> FALSE

\* The result x of an operator whose operands are l and r.
Given(x, l, r) == [x EXCEPT !.ok = @ /\ l.ok /\ r.ok]
CLogical(op, l, r) ==
  IF (l.v # 0) = (op = "&&") THEN C(l.ok /\ r.ok, IntT, AsBool(r.v # 0), r.s) ELSE C(l.ok, IntT, AsBool(op = "||"), l.s)
CConditional(t, c, side) == C(c.ok /\ side.ok, t, To(t, side.v), side.s)
CAssigned(x, ok, s) == C(ok, Vars[x].t, CRead(x, s), s)
CUpdated(e, old, r, new) ==
  LET ok == r.ok /\ new.ok /\ ~Assigns(e.r, e.x)
      after == CAssigned(e.x, ok, CStore(e.x, new.v, r.s))
  IN IF e.post THEN [after EXCEPT !.v = old.v] ELSE after

CLiteralOf(e, t, s) == C(Holds(t, e.v), t, e.v, s)
CCast(t, x) == C(x.ok, t, To(t, x.v), x.s)
COperator(op, l, r) == IF op \in Shortcircuit THEN CLogical(op, l, r) ELSE Given(CBinary(op, l, r, r.s), l, r)
CSides(c, l, r) == CConditional(CCommon(l.t, r.t), c, IF c.v # 0 THEN l ELSE r)
CUpdate(e, old, r) == CUpdated(e, old, r, CBinary(e.op, old, r, r.s))

RECURSIVE Means(_, _)
Behind(e, l) == IF e.n = "comma" THEN Given(Means(e.r, l.s), l, l) ELSE COperator(e.op, l, Means(e.r, l.s))
Condition(e, c) == CSides(c, IF e.l = Nothing THEN c ELSE Means(e.l, c.s), Means(e.r, c.s))
Means(e, s) ==
  CASE e.n = "val" -> CLiteralOf(e, CLiteral(e.v, e.suffix, e.hex), s)
    [] e.n = "var" -> C(TRUE, CVarType(e.x), CRead(e.x, s), s)
    [] e.n = "addr" -> C(TRUE, PtrTo(Arrays[e.x].to), s.at[e.x], s)
    [] e.n = "cast" -> CCast(e.t, Means(e.e, s))
    [] e.n = "un" -> LET Unary(x) == Given(CUnary(e.op, x, x.s), x, x) IN Unary(Means(e.e, s))
    [] e.n \in {"op", "comma"} -> Behind(e, Means(e.l, s))
    [] e.n = "if" -> Condition(e, Means(e.c, s))
    [] e.n = "set" -> LET Set(r) == CAssigned(e.x, r.ok, CStore(e.x, r.v, r.s)) IN Set(Means(e.r, s))
    [] e.n = "upd" -> LET Update(r) == CUpdate(e, C(TRUE, CVarType(e.x), CRead(e.x, r.s), r.s), r) IN Update(Means(e.r, s))

--------------------------------------------------------------------------------
Kids(e) == CASE e.n \in {"cast", "un"} -> {e.e} [] e.n \in {"op", "comma"} -> {e.l, e.r}
             [] e.n = "if" -> {e.c, e.l, e.r} \ {Nothing} [] e.n \in {"set", "upd"} -> {e.r} [] OTHER -> {}
RECURSIVE Subs(_)
Subs(e) == {e} \cup UNION {Subs(k) : k \in Kids(e)}
Num(e) == const_fold(e).k = "num"
\* The word kept for the constant e, whose meaning is c, is the constant's value.
Exact(e, c) == Num(e) => const_fold(e).v = ToWord(c.v)

\* Known deviations of the constants, see README: a relation between unsigned longs is
\* computed signed, labels are compared and subtracted as if the offsets were unsigned or
\* absent, an address as the condition of ?: counts as true, and one as the count of a shift
\* is always too large.
WrongConstant(e) ==
  \/ e.n = "op" /\ e.op \in Comparisons \ {"==", "!="} /\ ~e.l.t.s /\ Bits(e.l.t) = LongBits
  \/ e.n = "op" /\ IsLabel(const_fold(e.l)) /\ IsLabel(const_fold(e.r))
  \/ e.n = "if" /\ const_fold(e.c).k = "addr"
  \/ e.n = "op" /\ e.op \in {"<<", ">>"} /\ const_fold(e.r).lbl \notin {"", "mem"}

\* The constant e, whose operands are exact, has the bits of its meaning c.
SameBits(t, a, b) == (a - b) % (2 ^ Bits(t)) = 0
MeantExactly(e, c) == c.ok /\ Exact(e, c)
MeantRightly(e, c, s) ==
  c.ok /\ (\A k \in Kids(e) : MeantExactly(k, Means(k, s))) => SameBits(e.t, const_fold(e).v, c.v)
\* The constant folder: constants that are computed from exact ones agree with C in all the
\* bits of their type, so that the truncation on output yields the right object or operand.
ConstantsAsC ==
  typed # Nothing /\ typed # Error =>
    \A s \in Stores : \A e \in Subs(typed) : Num(e) /\ ~WrongConstant(e) => MeantRightly(e, Means(e, s), s)

\* Deviations of the generated code: 0 << x and 0 >> x are x, an unsigned constant behind a
\* comma is folded without its type, a number that is a pointer is not told from an offset, a
\* bit-field wider than int is read as unsigned, op= of a bit-field does not re-read it, a
\* constant narrowed without being folded keeps its upper bits, ?: promotes nothing, and
\* without -fconst-fold 0 is compared with a constant by a `test` of two constants.
RECURSIVE Known(_)
Known(e) == CASE Num(e) -> TRUE [] e.n = "comma" -> Known(e.r) [] e.n \in {"cast", "un"} -> Known(e.e)
              [] e.n = "op" -> Known(e.l) /\ Known(e.r) [] OTHER -> FALSE
\* The word e is an operand with, where the code of e is none; -1 otherwise.
RECURSIVE Operand(_)
Operand(e) == CASE e.n = "val" -> e.v
                [] e.n = "cast" /\ e.t.p # "bool" /\ Bits(e.t) <= Bits(e.e.t) -> Operand(e.e)
                [] e.n = "comma" -> Operand(e.r)
                [] OTHER -> -1
Tests0(l, r) == Operand(l) = 0 /\ Operand(r) >= 0 /\ integral_high_bit(Operand(r), r.t) < IntBits - 1
TestsImmediates(e) ==
  \/ e.n = "un" /\ e.op = "!" /\ Tests0(e.e, e.e)
  \/ e.n = "op" /\ e.op \in {"==", "!="} /\ Tests0(e.l, e.r)
WrongCode(e, opt) ==
  \/ ~opt /\ TestsImmediates(e)
  \/ e.n = "op" /\ e.op \in {"<<", ">>"} /\ Known(e.l)
  \/ e.n = "comma" /\ Num(e.r) /\ ~Num(e.l) /\ ~e.t.s
  \/ e.n = "cast" /\ Known(e.e) /\ ~(opt /\ Num(e.e)) /\ Bits(e.t) < Bits(e.e.t)
  \/ e.n = "cast" /\ IsPtr(e.t) /\ ~IsPtr(e.e.t)
  \/ e.n = "if" /\ Bits(e.t) < IntBits
  \/ e.n = "var" /\ Vars[e.x].bf > IntBits
  \/ e.n = "upd" /\ Vars[e.x].bf # 0 /\ ~e.post

NoKnownBug(s, opt) ==
  \A e \in Subs(typed) : ~WrongCode(e, opt) /\ (opt => ~WrongConstant(e) /\ Exact(e, Means(e, s)))
Agree(g, c) == Meant(Read(g.val), g.val.t) = c.v /\ g.s = c.s
CodeMeans(c, s, opt) == c.ok /\ NoKnownBug(s, opt) => Agree(gen_expr(typed, s, opt), c)
\* The code generator: with constant folding or without, the code of an expression whose
\* constants are exact leaves C's value and C's memory, for every conversion, operator
\* strength reduction, pending offset, short cut and order of side effects.
GeneratedAsC ==
  typed # Nothing /\ typed # Error => \A s \in Stores, opt \in BOOLEAN : CodeMeans(Means(tree, s), s, opt)

\* The parser reads an expression that is written with no more brackets than C's grammar
\* asks for as the tree the programmer meant, and leaves no token.
ParsedAsWritten == typed # Nothing => parse_expr_exp(Written(tree)) = Parsed(tree, <<>>)
===============================================================================

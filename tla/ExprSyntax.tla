------------------------------ MODULE ExprSyntax ------------------------------
(***************************************************************************)
(* The parser of expressions: recursive descent over tokens, one function  *)
(* for each level of precedence.  A token is an operator or bracket        *)
(* [op |-> s], a compound assignment [upd |-> s], a type name [ty |-> t],  *)
(* or an operand, which is its own leaf of the tree.  A parse gives the node and the tokens behind it.     *)
(*                                                                         *)
(* Not modelled: calls, subscripts, members, & and * of lvalues, sizeof,   *)
(* _Generic, blocks, strings, compound literals, statement expressions.    *)
(***************************************************************************)
EXTENDS Sequences, Integers

Tok(s) == [op |-> s]
IsOp(ts, ops) == ts # <<>> /\ "op" \in DOMAIN Head(ts) /\ Head(ts).op \in ops
IsType(ts) == ts # <<>> /\ "ty" \in DOMAIN Head(ts)
Parsed(e, ts) == [e |-> e, ts |-> ts]
EAT(p, s) == IF IsOp(p.ts, {s}) THEN Parsed(p.e, Tail(p.ts)) ELSE Parsed([n |-> "error"], <<>>)

\* PARSE_DEFINE's table: the operators of each level, binding tightest first.
\* A possible bug: shifts bind tighter than sums.
Levels_ShiftFirst ==
  <<{"*", "/", "%"}, {"<<", ">>"}, {"+", "-"}, {"<", ">", "<=", ">="}, {"==", "!="}, {"&"}, {"^"}, {"|"}, {"&&"}, {"||"}>>
Levels ==
  <<{"*", "/", "%"}, {"+", "-"}, {"<<", ">>"}, {"<", ">", "<=", ">="}, {"==", "!="}, {"&"}, {"^"}, {"|"}, {"&&"}, {"||"}>>
UnaryToks == {"+", "-", "~", "!"}

Upd(e, op, r, post) == [n |-> "upd", op |-> op, x |-> e.x, r |-> r, post |-> post]
One == [n |-> "val", v |-> 1, suffix |-> "", hex |-> FALSE]

RECURSIVE parse_expr_exp(_), parse_expr_unary(_), parse_expr_generic(_, _), Joined(_, _), Postfixes(_),
          parse_expr_conditional(_), parse_expr_assignment(_)
\* A bracket opens a cast or an expression; anything else is an operand.
ParsePrimary(ts) ==
  CASE IsOp(ts, {"("}) /\ IsType(Tail(ts)) ->
         LET p == parse_expr_unary(SubSeq(ts, 4, Len(ts))) IN Parsed([n |-> "cast", t |-> ts[2].ty, e |-> p.e], p.ts)
    [] IsOp(ts, {"("}) -> EAT(parse_expr_exp(Tail(ts)), ")")
    [] OTHER -> Parsed(Head(ts), Tail(ts))

\* parse_expr_postfix_with(): ++ and -- as long as they follow.
Postfixes(p) ==
  IF IsOp(p.ts, {"++", "--"})
  THEN Postfixes(Parsed(Upd(p.e, IF Head(p.ts).op = "++" THEN "+" ELSE "-", One, TRUE), Tail(p.ts)))
  ELSE p

\* ++x is x += 1.
parse_expr_unary(ts) ==
  IF IsOp(ts, {"++", "--"})
  THEN LET p == parse_expr_unary(Tail(ts)) IN Parsed(Upd(p.e, IF Head(ts).op = "++" THEN "+" ELSE "-", One, FALSE), p.ts)
  ELSE IF IsOp(ts, UnaryToks)
  THEN LET p == parse_expr_unary(Tail(ts)) IN Parsed([n |-> "un", op |-> Head(ts).op, e |-> p.e], p.ts)
  ELSE Postfixes(ParsePrimary(ts))

\* Operators of one level associate to the left.
parse_expr_generic(level, ts) ==
  IF level = 0 THEN parse_expr_unary(ts) ELSE Joined(level, parse_expr_generic(level - 1, ts))
LeftAnd(p, r) == Parsed([n |-> "op", op |-> Head(p.ts).op, l |-> p.e, r |-> r.e], r.ts)
Joined(level, p) ==
  IF ~IsOp(p.ts, Levels[level]) THEN p
  ELSE Joined(level, LeftAnd(p, parse_expr_generic(level - 1, Tail(p.ts))))

\* `c ? l : r` and `c ?: r`; the middle is a whole expression.
IfElse(c, l, r) == Parsed([n |-> "if", c |-> c.e, l |-> l.e, r |-> r.e], r.ts)
Else(c, l) == IfElse(c, l, parse_expr_conditional(l.ts))
If(c) ==
  IF ~IsOp(c.ts, {"?"}) THEN c
  ELSE Else(c, EAT(IF IsOp(Tail(c.ts), {":"}) THEN Parsed([n |-> "nothing"], Tail(c.ts)) ELSE parse_expr_exp(Tail(c.ts)), ":"))
parse_expr_conditional(ts) == If(parse_expr_generic(Len(Levels), ts))

\* Whatever is on the left of an assignment is parsed as a conditional.
Assign(l, r) ==
  IF IsOp(l.ts, {"="}) THEN Parsed([n |-> "set", x |-> l.e.x, r |-> r.e], r.ts)
  ELSE Parsed(Upd(l.e, Head(l.ts).upd, r.e, FALSE), r.ts)
AssignTo(l) ==
  IF l.ts # <<>> /\ ("upd" \in DOMAIN Head(l.ts) \/ IsOp(l.ts, {"="})) THEN Assign(l, parse_expr_assignment(Tail(l.ts))) ELSE l
parse_expr_assignment(ts) == AssignTo(parse_expr_conditional(ts))

\* The comma associates to the right, which makes no difference to its meaning.
Comma(l, r) == Parsed([n |-> "comma", l |-> l.e, r |-> r.e], r.ts)
CommaAfter(l) == IF IsOp(l.ts, {","}) THEN Comma(l, parse_expr_exp(Tail(l.ts))) ELSE l
parse_expr_exp(ts) == CommaAfter(parse_expr_assignment(ts))
===============================================================================

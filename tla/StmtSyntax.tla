------------------------------ MODULE StmtSyntax ------------------------------
(***************************************************************************)
(* parse_stmt.c: from the tokens of a function's body to its statements,   *)
(* each knowing its scope and the statement it breaks out of, continues or *)
(* is a case of.                                                           *)
(*                                                                         *)
(* A token is [k, x]: its kind and what it carries.  Expressions are one   *)
(* token, and so is a declaration with its semicolon; <<>> is none.  A scope is the      *)
(* sequence of the symbol tables from the function's outermost one to the  *)
(* innermost.  A table's declarations are complete before a statement in   *)
(* it is parsed.                                                           *)
(***************************************************************************)
EXTENDS Integers, Sequences, FiniteSets

Tok(k) == [k |-> k, x |-> <<>>]

\* symtable: id stands for its address, labels are its __label__s.
symtab_new(id, decls, labels) == [id |-> id, decls |-> decls, labels |-> labels]
NoTarget == [id |-> 0, scope |-> <<>>]
\* struct stmt_ctx; base tells the statements of one function from another's.
Context(scope, base) == [cont |-> NoTarget, brk |-> NoTarget, sw |-> NoTarget, scope |-> scope, base |-> base]

\* stmt: lhs and rhs, or the statements of a block, are its kids; tgt is its
\* parent field, flow the table of a declaration in its header.
stmt_new(n, id, scope, x, kids) ==
  [n |-> n, id |-> id, scope |-> scope, x |-> x, kids |-> kids, tgt |-> NoTarget, flow |-> symtab_new(0, <<>>, {})]
Target(s) == [id |-> s.id, scope |-> s.scope]
Parsed(s, p) == [s |-> s, p |-> p]

At(toks, p) == IF p <= Len(toks) THEN toks[p].k ELSE "eof"
\* Ids of the tables a statement starting at p creates.
ScopeId(ctx, p) == 2 * (ctx.base + p)
HeaderId(ctx, p) == 2 * (ctx.base + p) + 1

(***************************************************************************)
(* The header of if, while and switch: (e) or (decl; e), in a scope of its *)
(* own, with another one inside it for the declaration.                    *)
(***************************************************************************)
parse_test_init_expr(toks, p, ctx) ==
  LET outer == Append(ctx.scope, symtab_new(ScopeId(ctx, p), <<>>, {}))
      flow == symtab_new(HeaderId(ctx, p), <<toks[p + 1].x>>, {})
  IN IF At(toks, p + 1) = "decl"
     THEN [scope |-> Append(outer, flow), flow |-> flow, x |-> toks[p + 2].x, p |-> p + 4]
     ELSE [scope |-> outer, flow |-> symtab_new(0, <<>>, {}), x |-> toks[p + 1].x, p |-> p + 3]

RECURSIVE parse_stmt(_, _, _), parse_stmt_and_decls(_, _, _), ParseItems(_, _, _, _)

WithBody(s, body) == Parsed([s EXCEPT !.kids = <<body.s>>], body.p)
InSwitch(ctx, s) == [ctx EXCEPT !.scope = s.scope, !.brk = Target(s), !.sw = Target(s)]
InLoop(ctx, scope, s) == [ctx EXCEPT !.scope = scope, !.brk = Target(s), !.cont = Target(s)]

\* The statement whose header h has been parsed; its scope is the header's.
UnderHeader(n, id, h) == Parsed([stmt_new(n, id, h.scope, h.x, <<>>) EXCEPT !.flow = h.flow], h.p)
Headed(n, toks, p, ctx) == UnderHeader(n, ctx.base + p, parse_test_init_expr(toks, p + 1, ctx))

\* The else belongs to the nearest if that can take one.
IfElse(s, then, else) == Parsed([s EXCEPT !.kids = <<then.s, else.s>>], else.p)
IfThen(toks, s, then, ctx) ==
  IF At(toks, then.p) = "else" THEN IfElse(s, then, parse_stmt(toks, then.p + 1, ctx)) ELSE WithBody(s, then)
IfTested(toks, h, ctx) == IfThen(toks, h.s, parse_stmt(toks, h.p, ctx), ctx)
IfHeaded(toks, h, ctx) == IfTested(toks, h, [ctx EXCEPT !.scope = h.s.scope])
parse_if(toks, p, ctx) == IfHeaded(toks, Headed("if", toks, p, ctx), ctx)

SwitchHeaded(toks, h, ctx) == WithBody(h.s, parse_stmt(toks, h.p, InSwitch(ctx, h.s)))
parse_switch(toks, p, ctx) == SwitchHeaded(toks, Headed("switch", toks, p, ctx), ctx)

WhileHeaded(toks, h, ctx) == WithBody(h.s, parse_stmt(toks, h.p, InLoop(ctx, h.s.scope, h.s)))
parse_while(toks, p, ctx) == WhileHeaded(toks, Headed("while", toks, p, ctx), ctx)

DoWhile(toks, s, body) == Parsed([s EXCEPT !.kids = <<body.s>>, !.x = toks[body.p + 2].x], body.p + 5)
DoBody(toks, p, s, ctx) == DoWhile(toks, s, parse_stmt(toks, p, InLoop(ctx, ctx.scope, s)))
parse_do(toks, p, ctx) == DoBody(toks, p + 1, stmt_new("do", ctx.base + p, ctx.scope, <<>>, <<>>), ctx)

\* The part of a for's header at p, up to its end.
Clause(toks, p, end) == IF At(toks, p) = end THEN <<>> ELSE toks[p].x
Beyond(toks, p, end) == IF At(toks, p) = end THEN p + 1 ELSE p + 2
\* for(init; test; inc): the scope made for it, flow, becomes the statement's own
\* only if there is an init.
ForBody(toks, p, s, scope, ctx) == WithBody(s, parse_stmt(toks, p, InLoop(ctx, scope, s)))
ForHeaded(toks, p, test, inc, flow, ctx) ==
  LET init == IF At(toks, p + 2) = "expr" THEN toks[p + 2].x ELSE <<>>
      s == stmt_new("for", ctx.base + p, IF At(toks, p + 2) = ";" THEN ctx.scope ELSE Append(ctx.scope, flow),
                    [init |-> init, test |-> Clause(toks, test, ";"), inc |-> Clause(toks, inc, ")")], <<>>)
  IN ForBody(toks, Beyond(toks, inc, ")"), [s EXCEPT !.flow = flow], Append(ctx.scope, flow), ctx)
ForTested(toks, p, test, flow, ctx) == ForHeaded(toks, p, test, Beyond(toks, test, ";"), flow, ctx)
parse_for(toks, p, ctx) ==
  ForTested(toks, p, IF At(toks, p + 2) = "expr" THEN p + 4 ELSE p + 3,
            symtab_new(HeaderId(ctx, p), IF At(toks, p + 2) = "decl" THEN <<toks[p + 2].x>> ELSE <<>>, {}), ctx)

\* A label takes the statement after it.
parse_label_next(s, toks, p, ctx) == WithBody(s, parse_stmt(toks, p, ctx))

Closed(b) == Parsed(b.s, b.p + 1)
parse_stmt(toks, p, ctx) ==
  LET k == At(toks, p)
      New(n) == stmt_new(n, ctx.base + p, ctx.scope, toks[p].x, <<>>)
  IN CASE k = "if" -> parse_if(toks, p, ctx)
       [] k = "while" -> parse_while(toks, p, ctx)
       [] k = "do" -> parse_do(toks, p, ctx)
       [] k = "for" -> parse_for(toks, p, ctx)
       [] k = "switch" -> parse_switch(toks, p, ctx)
       [] k = "{" -> Closed(parse_stmt_and_decls(toks, p + 1, ctx))
       [] k = ";" -> Parsed(New("noop"), p + 1)
       [] k = "break" -> Parsed([New(k) EXCEPT !.tgt = ctx.brk], p + 2)
       [] k = "continue" -> Parsed([New(k) EXCEPT !.tgt = ctx.cont], p + 2)
       [] k \in {"return", "goto", "expr", "call"} -> Parsed(New(k), p + 2)
       [] k \in {"case", "default"} -> parse_label_next([New(k) EXCEPT !.tgt = ctx.sw], toks, p + 2, ctx)
       [] k = "label" -> parse_label_next(New(k), toks, p + 2, ctx)

\* The declarations a block starts with, from p.
RECURSIVE DeclRun(_, _)
DeclRun(toks, p) == IF At(toks, p) = "decl" THEN <<toks[p].x>> \o DeclRun(toks, p + 1) ELSE <<>>

\* A block from after its brace: a local label, declarations, statements.  Another
\* declaration after a statement starts a nested block that shares the brace.
Code(id, scope, items) == Parsed(stmt_new("code", id, scope, <<>>, items.s), items.p)
CodeIn(toks, p, id, scope, ctx) == Code(id, scope, ParseItems(toks, p, [ctx EXCEPT !.scope = scope], <<>>))
DeclaredBlock(toks, p, labels, decls, ctx) ==
  CodeIn(toks, p + Cardinality(labels) + Len(decls), ctx.base + p, Append(ctx.scope, symtab_new(ScopeId(ctx, p), decls, labels)), ctx)
LabelledBlock(toks, p, labels, ctx) == DeclaredBlock(toks, p, labels, DeclRun(toks, p + Cardinality(labels)), ctx)
parse_stmt_and_decls(toks, p, ctx) == LabelledBlock(toks, p, IF At(toks, p) = "__label__" THEN {toks[p].x} ELSE {}, ctx)
Nested(done, nest) == Parsed(Append(done, nest.s), nest.p)
AfterItem(toks, ctx, done, this) == ParseItems(toks, this.p, ctx, Append(done, this.s))
ParseItems(toks, p, ctx, done) ==
  CASE At(toks, p) = "}" -> Parsed(done, p)
    [] At(toks, p) = "decl" -> Nested(done, parse_stmt_and_decls(toks, p, ctx))
    [] OTHER -> AfterItem(toks, ctx, done, parse_stmt(toks, p, ctx))

\* A function's body: { ... }.
parse_stmt_block(toks, base) == parse_stmt_and_decls(toks, 2, Context(<<>>, base)).s
===============================================================================

-------------------------------- MODULE StmtGen --------------------------------
(***************************************************************************)
(* What cc1 does with a function's statements: folding checks their labels *)
(* and jumps, generation turns them into basic blocks.  A call of the      *)
(* inline function generates that function's statements in place.          *)
(*                                                                         *)
(* A declaration is [v, kind]: kind "vla" is a variable-length array,      *)
(* "clean" a variable with a cleanup function.                             *)
(***************************************************************************)
EXTENDS StmtSyntax, FiniteSets, SequencesExt

CONSTANTS
  InlineToks,       \* the body of the inline function, as tokens
  INLINE_DEPTH_MAX, \* inlined calls inside one another
  Main              \* the function is main, compiled as C99

InlineBody == parse_stmt_block(InlineToks, 1000)

--------------------------------------------------------------------------------
(***************************************************************************)
(* Folding collects, in the order of the statements, the cases of every    *)
(* switch, the labels and the gotos.                                       *)
(***************************************************************************)
\* symtab_label_find_or_new(): the nearest table with this local label, or the
\* function's.
LabelKey(scope, l) ==
  LET local == {i \in DOMAIN scope : l \in scope[i].labels}
  IN <<IF local = {} THEN scope[1].id ELSE scope[CHOOSE i \in local : \A j \in local : j <= i].id, l>>

RECURSIVE fold_stmt(_)
FoldKids(kids) == FlattenSeq([i \in DOMAIN kids |-> fold_stmt(kids[i])])
\* A case adds itself to its switch after the statement it labels is folded.
fold_stmt(s) ==
  CASE s.n \in {"case", "default"} -> FoldKids(s.kids) \o <<s>>
    [] s.n \in {"code", "label", "goto", "break", "continue", "switch"} -> <<s>> \o FoldKids(s.kids)
    [] OTHER -> FoldKids(s.kids)
Labels(body) == SelectSeq(fold_stmt(body), LAMBDA s : s.n = "label")
CasesOf(sw, folded) == SelectSeq(folded, LAMBDA s : s.n = "case" /\ s.tgt.id = sw.id)
DefaultsOf(sw, folded) == SelectSeq(folded, LAMBDA s : s.n = "default" /\ s.tgt.id = sw.id)

\* Overlap is looked for between neighbours, once the cases are sorted.
fold_switch_dups(cases) ==
  LET vals == SortSeq(cases, LAMBDA a, b : a.x[1] < b.x[1])
  IN \E i \in 2 .. Len(vals) : vals[i - 1].x[2] >= vals[i].x[1]

\* A possible bug: only the innermost table is looked at.
fold_check_scope_entry_Innermost(from, to) ==
  /\ to # <<>>
  /\ \A i \in DOMAIN from : from[i].id # Last(to).id
  /\ \E j \in DOMAIN Last(to).decls : Last(to).decls[j].kind = "vla"
\* Entering a table of `to' that `from' is not in, with a variably modified declaration.
fold_check_scope_entry(from, to) ==
  LET marked == {from[i].id : i \in DOMAIN from}
      inside == {i \in DOMAIN to : \A j \in i .. Len(to) : to[j].id \notin marked}
  IN \E i \in inside : \E j \in DOMAIN to[i].decls : to[i].decls[j].kind = "vla"

\* The statements with the label of this key.
Labelled(folded, key) == SelectSeq(folded, LAMBDA s : s.n = "label" /\ LabelKey(s.scope, s.x) = key)
\* symtab_chk_labels(): labels without a statement, jumped to or only declared,
\* and gotos that enter a scope.
Incomplete(s, folded) ==
  \/ s.n = "code" /\ \E l \in Last(s.scope).labels : Labelled(folded, <<Last(s.scope).id, l>>) = <<>>
  \/ s.n = "goto" /\ Labelled(folded, LabelKey(s.scope, s.x)) = <<>>
EntersScope(s, folded) ==
  LET to == Labelled(folded, LabelKey(s.scope, s.x))
  IN s.n = "goto" /\ to # <<>> /\ fold_check_scope_entry(s.scope, Last(to).scope)
symtab_chk_labels(folded) ==
  \E i \in DOMAIN folded : Incomplete(folded[i], folded) \/ EntersScope(folded[i], folded)

\* What makes fold_had_error, or death.
fold_stmt_break_continue(s) == s.n \in {"break", "continue"} /\ s.tgt = NoTarget
\* A range is a case with a third component.  Its ends are compared unsigned.
UnsignedLess(a, b) == IF (a < 0) = (b < 0) THEN a < b ELSE b < 0
fold_stmt_case_range(s) == s.n = "case" /\ Len(s.x) = 3 /\ ~UnsignedLess(s.x[1], s.x[2])
fold_stmt_and_add_to_curswitch(s, folded) ==
  \/ s.n \in {"case", "default"} /\ s.tgt = NoTarget
  \/ s.n = "default" /\ Len(DefaultsOf(s.tgt, folded)) > 1
fold_stmt_label(s, folded) ==
  /\ s.n = "label"
  /\ Len(Labelled(folded, LabelKey(s.scope, s.x))) > 1
\* A default is not checked for the scopes it is in.
fold_switch_scopechecks(s, cases) == \E i \in DOMAIN cases : fold_check_scope_entry(s.scope, cases[i].scope)
fold_stmt_switch(s, folded) ==
  /\ s.n = "switch"
  /\ LET cases == CasesOf(s, folded) IN fold_switch_dups(cases) \/ fold_switch_scopechecks(s, cases)
fold_func_code(body) ==
  LET folded == fold_stmt(body)
      Fails(s) == \/ fold_stmt_break_continue(s) \/ fold_stmt_case_range(s) \/ fold_stmt_and_add_to_curswitch(s, folded)
                  \/ fold_stmt_label(s, folded) \/ fold_stmt_switch(s, folded)
  IN \/ \E i \in DOMAIN folded : Fails(folded[i])
     \/ symtab_chk_labels(folded)

(***************************************************************************)
(* fold_passable(): can control get past the statement?  A condition is    *)
(* Always when it is a constant that is not 0.                             *)
(***************************************************************************)
Always == <<"1">>
Zero == <<"0">>
RECURSIVE fold_code_escapable(_, _), fold_passable(_, _, _)
\* A goto, or a break that is not a switch's.
fold_code_escapable(s, depth) ==
  \/ s.n = "goto" \/ (s.n = "break" /\ depth = 0)
  \/ \E i \in DOMAIN s.kids : fold_code_escapable(s.kids[i], IF s.n = "switch" THEN depth + 1 ELSE depth)
code_passable(s, folded, doing) == \A i \in DOMAIN s.kids : fold_passable(s.kids[i], folded, doing)
if_passable(s, folded, doing) == Len(s.kids) = 1 \/ \E i \in {1, 2} : fold_passable(s.kids[i], folded, doing)
while_passable(s) == s.x # Always \/ fold_code_escapable(s.kids[1], 0)
for_passable(s) == s.x.test \notin {<<>>, Always} \/ fold_code_escapable(s.kids[1], 0)
do_passable(s, folded, doing) == fold_passable(s.kids[1], folded, doing) /\ s.x # Always
\* doing: the labels whose gotos are being followed.
goto_passable(s, folded, doing) ==
  LET key == LabelKey(s.scope, s.x)
      to == Labelled(folded, key)
  IN to = <<>> \/ (key \notin doing /\ fold_passable(Last(to), folded, doing \cup {key}))
fold_passable(s, folded, doing) ==
  CASE s.n \in {"return", "break", "continue"} -> FALSE
    [] s.n = "code" -> code_passable(s, folded, doing)
    [] s.n = "if" -> if_passable(s, folded, doing)
    [] s.n = "while" -> while_passable(s)
    [] s.n = "for" -> for_passable(s)
    [] s.n = "do" -> do_passable(s, folded, doing)
    [] s.n \in {"label", "case", "default"} -> fold_passable(s.kids[1], folded, doing)
    [] s.n = "goto" -> goto_passable(s, folded, doing)
    [] OTHER -> TRUE

\* fold_global_func(): main gets a return 0 if its end may be reached.
fold_global_func(body) ==
  IF Main /\ fold_passable(body, fold_stmt(body), {})
  THEN [body EXCEPT !.kids = Append(@, stmt_new("return", 0, body.scope, Zero, <<>>))]
  ELSE body

--------------------------------------------------------------------------------
(***************************************************************************)
(* Generation.  The state of it is g: the blocks, the current one (0: none,*)
(* the code is unreachable), the blocks kept in the statements themselves  *)
(* (loop and cse), the scope and the block of each label, the block inlined returns go   *)
(* to, the depth of inlining, the arrays whose size is cached, and whether *)
(* an assertion has failed.                                                *)
(***************************************************************************)
Uninit == [k |-> "uninit"]
NoBlocks == [n \in {} |-> 0]
OutCtx(labels) ==
  [labels |-> labels, blks |-> <<[ev |-> <<>>, end |-> Uninit]>>, cur |-> 1, loop |-> NoBlocks, cse |-> NoBlocks,
   label_to_blk |-> NoBlocks, phi |-> 0, depth |-> 0, vlamap |-> {}, failed |-> FALSE]
Put(f, k, v) == [n \in DOMAIN f \cup {k} |-> IF n = k THEN v ELSE f[n]]

\* Blocks are numbered as they are made.
Made(g, n) == Len(g.blks) + n
out_blk_new(g, n) == [g EXCEPT !.blks = @ \o [i \in 1 .. n |-> [ev |-> <<>>, end |-> Uninit]]]
Emit(g, i) == IF g.cur = 0 THEN g ELSE [g EXCEPT !.blks[g.cur].ev = Append(@, i)]
\* A block is ended once.
EndBlk(g, end) ==
  IF g.cur = 0 THEN g
  ELSE IF g.blks[g.cur].end # Uninit THEN [g EXCEPT !.failed = TRUE]
  ELSE [g EXCEPT !.blks[g.cur].end = end, !.cur = 0]
out_ctrl_transfer(g, to) == EndBlk(g, [k |-> "next", to |-> to])
out_ctrl_branch(g, test, t, f) == EndBlk(g, [k |-> "cond", test |-> test, t |-> t, f |-> f])
out_ctrl_end_ret(g) == EndBlk(g, [k |-> "ret"])
out_current_blk(g, b) == [g EXCEPT !.cur = b]
out_ctrl_transfer_make_current(g, to) == out_current_blk(out_ctrl_transfer(g, to), to)

label_getblk(g, key) == IF key \in DOMAIN g.label_to_blk THEN g
                        ELSE [out_blk_new(g, 1) EXCEPT !.label_to_blk = Put(@, key, Made(g, 1))]

(***************************************************************************)
(* Scopes.                                                                 *)
(***************************************************************************)
new_block_for_scope(g) ==
  IF g.cur = 0 \/ g.blks[g.cur].ev = <<>> THEN g
  ELSE out_ctrl_transfer_make_current(out_blk_new(g, 1), Made(g, 1))

\* The stack pointer is saved, the size computed unless the type's is cached, and
\* the array allocated.
vla_cached_size(g, d) == d.v \in g.vlamap
vla_cache_size(g, d) == [g EXCEPT !.vlamap = @ \cup {d.v}]
vla_gen_size_ty(g, d) == IF vla_cached_size(g, d) THEN g ELSE vla_cache_size(Emit(g, [i |-> "size", x |-> d.v]), d)
vla_decl_init(g, d) ==
  LET saved == Emit(g, [i |-> "save", x |-> d.v])
  IN Emit(vla_gen_size_ty(saved, d), [i |-> "alloca", x |-> d.v])
gen_block_decls(g, stab) ==
  FoldLeft(LAMBDA h, d : IF d.kind = "vla" THEN vla_decl_init(h, d) ELSE Emit(h, [i |-> "init", x |-> d.v]),
           new_block_for_scope(g), stab.decls)

gen_scope_destructors(g, stab) ==
  FoldLeft(LAMBDA h, d : CASE d.kind = "clean" -> Emit(h, [i |-> "clean", x |-> d.v])
                           [] d.kind = "vla" -> Emit(h, [i |-> "restore", x |-> d.v]) [] OTHER -> h,
           g, Reverse(stab.decls))
\* Every table from `from' outwards, up to the first one that `to' is in.
gen_scope_leave(g, from, to) ==
  LET marked == {to[i].id : i \in DOMAIN to}
      out == {0} \cup {i \in DOMAIN from : from[i].id \in marked}
      first == CHOOSE i \in out : \A j \in out : j <= i
  IN FoldLeft(gen_scope_destructors, g, Reverse(SubSeq(from, first + 1, Len(from))))
gen_scope_leave_parent(g, scope) == gen_scope_leave(g, scope, Front(scope))
LeaveBlock(g, scope) == new_block_for_scope(gen_scope_leave_parent(g, scope))

\* flow_gen() and flow_end(), with the table the statement's header is in.
FlowScope(s) == IF s.n = "for" THEN (IF Last(<<symtab_new(0, <<>>, {})>> \o s.scope) = s.flow THEN s.scope ELSE Append(s.scope, s.flow))
                ELSE s.scope
flow_gen(g, s) == gen_block_decls(g, Last(FlowScope(s)))
flow_end(g, s) == LeaveBlock(g, FlowScope(s))

(***************************************************************************)
(* A loop or switch keeps its blocks in the statement, where its breaks    *)
(* and continues find them.                                                *)
(***************************************************************************)
stmt_init_blks(g, s, cont, brk) == [g EXCEPT !.loop = Put(@, s.id, [cont |-> cont, brk |-> brk])]

RECURSIVE gen_stmt(_, _)

gen_stmt_if(g, s) ==
  LET t == Made(g, 1) f == Made(g, 2) fi == Made(g, 3)
      tested == out_ctrl_branch(flow_gen(out_blk_new(g, 3), s), [k |-> "value", x |-> s.x], t, f)
      lhs == out_ctrl_transfer(gen_stmt(out_current_blk(tested, t), s.kids[1]), fi)
      at_false == out_current_blk(lhs, f)
      rhs == out_ctrl_transfer(IF Len(s.kids) = 2 THEN gen_stmt(at_false, s.kids[2]) ELSE at_false, fi)
  IN flow_end(out_current_blk(rhs, fi), s)

gen_stmt_while(g, s) ==
  LET body == Made(g, 1)
      entered == out_ctrl_transfer_make_current(stmt_init_blks(out_blk_new(g, 3), s, Made(g, 2), Made(g, 3)), Made(g, 2))
      tested == out_ctrl_branch(flow_gen(entered, s), [k |-> "value", x |-> s.x], body, entered.loop[s.id].brk)
      looped == gen_stmt(out_current_blk(tested, body), s.kids[1])
      again == out_ctrl_transfer(looped, looped.loop[s.id].cont)
  IN flow_end(out_current_blk(again, again.loop[s.id].brk), s)

gen_stmt_do(g, s) ==
  LET begin == Made(g, 1)
      entered == out_ctrl_transfer_make_current(stmt_init_blks(out_blk_new(g, 3), s, Made(g, 2), Made(g, 3)), begin)
      body == gen_stmt(entered, s.kids[1])
      test == out_ctrl_transfer_make_current(body, body.loop[s.id].cont)
  IN out_current_blk(out_ctrl_branch(test, [k |-> "value", x |-> s.x], begin, test.loop[s.id].brk), test.loop[s.id].brk)

\* The blocks of a for are also in local variables, which it uses itself.
gen_stmt_for(g, s) ==
  LET test == Made(g, 1) body == Made(g, 2) end == Made(g, 3) inc == Made(g, 4)
      flow == flow_gen(out_blk_new(g, 4), s)
      init == out_ctrl_transfer_make_current(IF s.x.init = <<>> THEN flow ELSE Emit(flow, [i |-> "ev", x |-> s.x.init]), test)
      tested == IF s.x.test = <<>> THEN out_ctrl_transfer(init, body)
                ELSE out_ctrl_branch(init, [k |-> "value", x |-> s.x.test], body, end)
      blks == stmt_init_blks(tested, s, inc, end)
      looped == out_ctrl_transfer_make_current(gen_stmt(out_current_blk(blks, body), s.kids[1]), inc)
      again == out_ctrl_transfer(IF s.x.inc = <<>> THEN looped ELSE Emit(looped, [i |-> "ev", x |-> s.x.inc]), test)
  IN flow_end(out_current_blk(again, end), s)

\* A test for every case, in the order they were folded.  Their blocks are made
\* here, as the tests need them.
GenCase(g, c) ==
  LET cancel == Made(g, 1) this == Made(g, 2) test2 == Made(g, 3)
      made == [out_blk_new(g, 3) EXCEPT !.cse = Put(@, c.id, this)]
      Is(op, v) == [k |-> op, x |-> v]
      tested == IF c.x[1] = c.x[2] THEN out_ctrl_branch(made, Is("eq", c.x[1]), this, cancel)
                ELSE out_ctrl_branch(out_current_blk(out_ctrl_branch(made, Is("lt", c.x[1]), cancel, test2), test2),
                                     Is("gt", c.x[2]), cancel, this)
  IN out_current_blk(tested, cancel)
gen_stmt_switch(g, s) ==
  LET end == Made(g, 1)
      folded == fold_stmt(s)
      flow == flow_gen(stmt_init_blks(out_blk_new(g, 1), s, 0, end), s)
      tested == FoldLeft(GenCase, Emit(flow, [i |-> "switch", x |-> s.x]), CasesOf(s, folded))
      dflt == DefaultsOf(s, folded)
      blks == out_blk_new(tested, 2)
      none == IF dflt = <<>> THEN out_ctrl_transfer(blks, end)
              ELSE out_ctrl_transfer([blks EXCEPT !.cse = Put(@, dflt[1].id, Made(tested, 1))], Made(tested, 1))
      body == gen_stmt(out_current_blk(none, Made(tested, 2)), s.kids[1])
  IN flow_end(out_current_blk(out_ctrl_transfer(body, end), end), s)

\* A possible bug: a goto leaves only its own scope.
gen_stmt_goto_OneScope(g, s, scope) ==
  LET left == IF s.scope = scope THEN g ELSE gen_scope_leave_parent(g, s.scope)
      at == label_getblk(left, LabelKey(s.scope, s.x))
  IN out_ctrl_transfer(at, at.label_to_blk[LabelKey(s.scope, s.x)])
\* scope is where the label is.
gen_stmt_goto(g, s, scope) ==
  LET at == label_getblk(gen_scope_leave(g, s.scope, scope), LabelKey(s.scope, s.x))
  IN out_ctrl_transfer(at, at.label_to_blk[LabelKey(s.scope, s.x)])

inline_ret_add(g) == out_ctrl_transfer(g, g.phi)
gen_stmt_return(g, s) ==
  LET left == gen_scope_leave(Emit(g, [i |-> IF s.x = Zero THEN "zero" ELSE "ev", x |-> s.x]), s.scope, <<>>)
  IN IF g.depth > 0 THEN inline_ret_add(left) ELSE out_ctrl_end_ret(left)

\* inline_func_try_gen(): the labels' blocks and where returns go are the inlined
\* body's own meanwhile; what statements keep in themselves is not.
inline_vars_push(g) == [out_blk_new(g, 1) EXCEPT !.phi = Made(g, 1), !.label_to_blk = NoBlocks, !.depth = @ + 1]
inline_vars_pop(g, saved) == [g EXCEPT !.phi = saved.phi, !.label_to_blk = saved.label_to_blk, !.depth = saved.depth]
gen_inline_func(g) ==
  inline_vars_pop(out_ctrl_transfer_make_current(gen_stmt(inline_vars_push(g), InlineBody), Made(g, 1)), g)
inline_func_try_gen(g) ==
  IF g.depth >= INLINE_DEPTH_MAX THEN Emit(g, [i |-> "ev", x |-> <<"call">>]) ELSE gen_inline_func(g)

gen_stmt_break(g, s) == out_ctrl_transfer(gen_scope_leave(g, s.scope, s.tgt.scope), g.loop[s.tgt.id].brk)
gen_stmt_continue(g, s) == out_ctrl_transfer(gen_scope_leave(g, s.scope, s.tgt.scope), g.loop[s.tgt.id].cont)
gen_stmt_label(g, s) ==
  LET key == LabelKey(s.scope, s.x)
      at == label_getblk(g, key)
  IN gen_stmt(out_ctrl_transfer_make_current(at, at.label_to_blk[key]), s.kids[1])
gen_stmt_case(g, s) == gen_stmt(out_ctrl_transfer_make_current(g, g.cse[s.id]), s.kids[1])
gen_stmt_code(g, s) == LeaveBlock(FoldLeft(gen_stmt, gen_block_decls(g, Last(s.scope)), s.kids), s.scope)

gen_stmt(g, s) ==
  IF g.failed THEN g
  ELSE CASE s.n = "if" -> gen_stmt_if(g, s)
         [] s.n = "while" -> gen_stmt_while(g, s)
         [] s.n = "do" -> gen_stmt_do(g, s)
         [] s.n = "for" -> gen_stmt_for(g, s)
         [] s.n = "switch" -> gen_stmt_switch(g, s)
         [] s.n = "code" -> gen_stmt_code(g, s)
         [] s.n = "break" -> gen_stmt_break(g, s)
         [] s.n = "continue" -> gen_stmt_continue(g, s)
         [] s.n = "goto" -> gen_stmt_goto(g, s, g.labels[LabelKey(s.scope, s.x)])
         [] s.n = "return" -> gen_stmt_return(g, s)
         [] s.n = "label" -> gen_stmt_label(g, s)
         [] s.n \in {"case", "default"} -> gen_stmt_case(g, s)
         [] s.n = "call" -> inline_func_try_gen(g)
         [] s.n = "expr" -> Emit(g, [i |-> "ev", x |-> s.x])
         [] s.n = "noop" -> g

\* A function that folded without error, as its blocks.
gen_asm_global(body) ==
  LET labels == Labels(body) \o Labels(InlineBody)
      scopes == [key \in {LabelKey(labels[i].scope, labels[i].x) : i \in DOMAIN labels} |->
                   Last(SelectSeq(labels, LAMBDA l : LabelKey(l.scope, l.x) = key)).scope]
  IN out_ctrl_end_ret(gen_stmt(OutCtx(scopes), fold_global_func(body)))
===============================================================================

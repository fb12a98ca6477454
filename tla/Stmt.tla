--------------------------------- MODULE Stmt ---------------------------------
(***************************************************************************)
(* Statements from the tokens of a function to what the generated blocks   *)
(* do when they run, compared with what C says the statements do.          *)
(***************************************************************************)
EXTENDS StmtGen

CONSTANTS
  Inline,   \* the body of the inline function, as a tree
  Menus,    \* sets of constructs a function is written with
  MaxDepth, \* bound on the constructs around a statement
  Oracles,  \* values the conditions have, in the order they are evaluated
  MaxTrace, \* bound on what is observed of a run
  Fuel      \* bound on the steps of a run

VARIABLES
  menu,  \* the constructs this function is written with
  tree,  \* the function's body, as the programmer thinks of it
  depth, \* constructs used
  out    \* what cc1 makes of it: [error], and the blocks if there is none

vars == <<menu, tree, depth, out>>

--------------------------------------------------------------------------------
(***************************************************************************)
(* A tree is [n, x, kids].  The header of an if, while or switch is        *)
(* [decl, test], with decl a sequence of at most one declaration; that of  *)
(* a for is [decl, init, test, inc].                                       *)
(***************************************************************************)
Nothing == [n |-> "nothing"]
Node(n, x, kids) == [n |-> n, x |-> x, kids |-> kids]
TokX(k, x) == <<[k |-> k, x |-> x]>>
Word(w) == <<Tok(w)>>
WrittenDecls(ds) == [i \in DOMAIN ds |-> [k |-> "decl", x |-> ds[i]]]
Optional(x) == IF x = <<>> THEN <<>> ELSE TokX("expr", x)
\* An else after it would be taken by an if inside it.
RECURSIVE EndsOpen(_)
EndsOpen(t) == \/ t.n = "if" /\ (Len(t.kids) = 1 \/ EndsOpen(t.kids[2]))
               \/ t.n \in {"while", "for", "switch", "label", "case", "default"} /\ EndsOpen(t.kids[1])
RECURSIVE Written(_)
Header(t) == Word("(") \o WrittenDecls(t.x.decl) \o TokX("expr", t.x.test) \o Word(")")
ForHeader(t) == Word("(") \o (IF t.x.decl = <<>> THEN Optional(t.x.init) \o Word(";") ELSE WrittenDecls(t.x.decl))
                \o Optional(t.x.test) \o Word(";") \o Optional(t.x.inc) \o Word(")")
Written(t) ==
  CASE t.n = "block" -> Word("{") \o FlattenSeq([i \in DOMAIN t.kids |-> Written(t.kids[i])]) \o Word("}")
    [] t.n \in {"decl", "__label__"} -> TokX(t.n, t.x)
    [] t.n = "if" /\ Len(t.kids) = 2 ->
         Word("if") \o Header(t) \o (IF EndsOpen(t.kids[1]) THEN Word("{") \o Written(t.kids[1]) \o Word("}") ELSE Written(t.kids[1]))
           \o Word("else") \o Written(t.kids[2])
    [] t.n \in {"if", "while", "switch"} -> Word(t.n) \o Header(t) \o Written(t.kids[1])
    [] t.n = "do" -> Word("do") \o Written(t.kids[1]) \o Word("while") \o Word("(") \o TokX("expr", t.x.test) \o Word(")") \o Word(";")
    [] t.n = "for" -> Word("for") \o ForHeader(t) \o Written(t.kids[1])
    [] t.n \in {"case", "default", "label"} -> TokX(t.n, t.x) \o Word(":") \o Written(t.kids[1])
    [] OTHER -> TokX(t.n, t.x) \o Word(";")

(***************************************************************************)
(* A programmer writes a function by putting constructs around a           *)
(* statement.  What a construct adds is named by the depth it is added at. *)
(***************************************************************************)
Block(kids) == Node("block", <<>>, kids)
Name(s) == <<s, depth>>
Expr(s) == Node("expr", s, <<>>)
Decl(s, kind) == Node("decl", [v |-> Name(s), kind |-> kind], <<>>)
Headed1(n, test, decl, kids) == Node(n, [decl |-> decl, init |-> <<>>, test |-> test, inc |-> <<>>], kids)

WriteStatement == tree = Nothing /\ tree' \in menu.leaves /\ UNCHANGED <<menu, depth, out>>
Around(t) ==
  /\ tree # Nothing
  /\ out = Nothing
  /\ depth < MaxDepth
  /\ tree' = t
  /\ depth' = depth + 1
  /\ UNCHANGED <<menu, out>>

WriteIf ==
  /\ "if" \in menu.around
  /\ \/ Around(Headed1("if", Name("c"), <<>>, <<tree>>))
     \/ Around(Headed1("if", Name("c"), <<[v |-> Name("v"), kind |-> "plain"]>>, <<tree>>))
     \/ Around(Headed1("if", Name("c"), <<>>, <<Expr(Name("e")), tree>>))
     \/ Around(Headed1("if", Name("c"), <<>>, <<tree, Expr(Name("e"))>>))
WriteLoop ==
  \/ "while" \in menu.around /\ Around(Headed1("while", Name("c"), <<>>, <<tree>>))
  \/ "forever" \in menu.around /\ Around(Headed1("while", Always, <<>>, <<tree>>))
  \/ "do" \in menu.around /\ \E test \in {Name("c"), Always} : Around(Headed1("do", test, <<>>, <<tree>>))
  \/ /\ "for" \in menu.around
     /\ \/ Around(Node("for", [decl |-> <<>>, init |-> <<>>, test |-> <<>>, inc |-> Name("i")], <<tree>>))
        \/ Around(Node("for", [decl |-> <<[v |-> Name("v"), kind |-> "clean"]>>, init |-> <<>>, test |-> Name("c"), inc |-> <<>>], <<tree>>))
        \/ Around(Node("for", [decl |-> <<>>, init |-> Name("n"), test |-> Name("c"), inc |-> Name("i")], <<tree>>))
WriteSwitch ==
  /\ "switch" \in menu.around
  /\ \/ Around(Headed1("switch", Name("s"), <<>>, <<Block(<<Expr(Name("e")), tree>>)>>))
     \/ Around(Headed1("switch", Name("s"), <<[v |-> Name("v"), kind |-> "clean"]>>, <<tree>>))
WriteLabel ==
  \/ "label" \in menu.around /\ Around(Node("label", <<"L">>, <<tree>>))
  \/ "case" \in menu.around /\ \E c \in {<<-1, -1>>, <<1, 1>>, <<1, 2, "...">>, <<-1, 1, "...">>} : Around(Node("case", c, <<tree>>))
  \/ "default" \in menu.around /\ Around(Node("default", <<>>, <<tree>>))
WriteBlock ==
  /\ "block" \in menu.around
  /\ \/ \E s \in menu.others : Around(Block(<<s, tree>>)) \/ Around(Block(<<tree, s>>))
     \/ \E kind \in menu.kinds :
          \/ Around(Block(<<Decl("v", kind), Decl("w", "clean"), tree, Expr(Name("e"))>>))
          \/ Around(Block(<<Expr(Name("e")), Decl("v", kind), tree>>))
          \/ Around(Block(<<tree, Decl("v", kind), Expr(Name("e"))>>))
     \/ menu.locals /\ Around(Block(<<Node("__label__", <<"L">>, <<>>), tree>>))

\* cc1 compiles the function; then comes the next one.
Function == IF tree.n = "block" THEN tree ELSE Block(<<tree>>)
Compiles(body) == IF fold_func_code(body) THEN [error |-> TRUE] ELSE [error |-> FALSE, g |-> gen_asm_global(body)]
parse_and_gen ==
  /\ tree # Nothing
  /\ out = Nothing
  /\ out' = Compiles(parse_stmt_block(Written(Function), 0))
  /\ UNCHANGED <<menu, tree, depth>>
NextFunction ==
  /\ out # Nothing
  /\ out' = Nothing
  /\ tree' = Nothing
  /\ depth' = 0
  /\ UNCHANGED menu

Init == menu \in Menus /\ tree = Nothing /\ depth = 0 /\ out = Nothing
Next == WriteStatement \/ WriteIf \/ WriteLoop \/ WriteSwitch \/ WriteLabel \/ WriteBlock \/ parse_and_gen \/ NextFunction
Spec == Init /\ [][Next]_vars

--------------------------------------------------------------------------------
(***************************************************************************)
(* Running the blocks.  m is what has been observed, the arrays on the     *)
(* stack, the stack pointers that were saved, the values still to come     *)
(* (0s in the end), the value being switched on and whether 0 is returned. *)
(* Everything observed is observed with the arrays that are on the stack.  *)
(***************************************************************************)
Machine(oracle) == [tr |-> <<>>, sp |-> <<>>, saved |-> NoBlocks, o |-> oracle, v |-> 0, zero |-> FALSE]
Coming(o) == IF o = <<>> THEN 0 ELSE Head(o)
Later(o) == IF o = <<>> THEN o ELSE Tail(o)
See(m, what) == [m EXCEPT !.tr = Append(@, <<what, m.sp>>)]
Ask(m, what) == IF what = Always THEN [m EXCEPT !.v = 1]
                ELSE [See(m, what) EXCEPT !.v = Coming(m.o), !.o = Later(m.o)]
Run1(m, i) ==
  CASE i.i = "save" -> [m EXCEPT !.saved = Put(@, i.x, m.sp)]
    [] i.i = "alloca" -> [m EXCEPT !.sp = Append(@, i.x)]
    [] i.i = "restore" -> [m EXCEPT !.sp = IF i.x \in DOMAIN m.saved THEN m.saved[i.x] ELSE <<"wild">>]
    [] i.i = "switch" -> Ask(m, i.x)
    [] i.i = "zero" -> [m EXCEPT !.zero = TRUE]
    [] i.i = "ev" -> See(m, i.x)
    [] OTHER -> See(m, <<i.i, i.x>>)
Cut(tr) == SubSeq(tr, 1, IF Len(tr) < MaxTrace THEN Len(tr) ELSE MaxTrace)
RECURSIVE RunFrom(_, _, _, _)
Yes(test, v) == CASE test.k = "value" -> v # 0 [] test.k = "eq" -> v = test.x [] test.k = "lt" -> v < test.x [] OTHER -> v > test.x
Branch(blks, end, m, fuel) == RunFrom(blks, IF Yes(end.test, m.v) THEN end.t ELSE end.f, m, fuel)
Ended(blks, end, m, fuel) ==
  CASE end.k = "uninit" -> Cut(Append(m.tr, <<"off the end">>))
    [] end.k = "ret" -> Cut(Append(m.tr, <<"returned", m.zero>>))
    [] end.k = "next" -> RunFrom(blks, end.to, m, fuel)
    [] OTHER -> Branch(blks, end, IF end.test.k = "value" THEN Ask(m, end.test.x) ELSE m, fuel)
RunFrom(blks, b, m, fuel) ==
  IF fuel = 0 \/ Len(m.tr) >= MaxTrace THEN Cut(m.tr)
  ELSE Ended(blks, blks[b].end, FoldLeft(Run1, m, blks[b].ev), fuel - 1)
Trace(g, oracle) == RunFrom(g.blks, 1, Machine(oracle), Fuel)

--------------------------------------------------------------------------------
(***************************************************************************)
(* What C says.  A place is [path, ph]: the path to a statement in the     *)
(* tree and whether it is about to be entered, its test or increment is    *)
(* about to be evaluated, or it is over.  The variables that exist at a    *)
(* place follow from the tree alone, whichever way control came there.     *)
(***************************************************************************)
\* A called function's body is a part of the tree.
RECURSIVE Expanded(_), Sub(_, _), Paths(_)
Expanded(t) == IF t.n = "call" THEN [t EXCEPT !.kids = <<Inline>>]
               ELSE [t EXCEPT !.kids = [i \in DOMAIN t.kids |-> Expanded(t.kids[i])]]
Sub(t, path) == IF path = <<>> THEN t ELSE Sub(t.kids[Head(path)], Tail(path))
Paths(t) == {<<>>} \cup UNION {{<<i>> \o q : q \in Paths(t.kids[i])} : i \in DOMAIN t.kids}

Above(path, i) == SubSeq(path, 1, i - 1)
Nearest(t, path, kinds) ==
  LET at == {i \in DOMAIN path : Sub(t, Above(path, i)).n \in kinds}
  IN IF at = {} THEN 0 ELSE CHOOSE i \in at : \A j \in at : j <= i
Encloses(t, path, kinds) == Nearest(t, path, kinds) > Nearest(t, path, {"call"})
Enclosing(t, path, kinds) == Above(path, Nearest(t, path, kinds))

\* The declarations in scope at a place, outermost first.
Place(path, ph) == [path |-> path, ph |-> ph]
HasDecl(s) == s.n \in {"if", "while", "switch", "for"}
Declared(kids) == LET ds == SelectSeq(kids, LAMBDA k : k.n = "decl") IN [i \in DOMAIN ds |-> ds[i].x]
Vars(t, pl) ==
  LET From(i) ==
        LET s == Sub(t, Above(pl.path, i))
            last == IF i = Len(pl.path) /\ pl.ph = "over" THEN pl.path[i] ELSE pl.path[i] - 1
        IN IF s.n = "block" THEN Declared(SubSeq(s.kids, 1, last)) ELSE IF HasDecl(s) THEN s.x.decl ELSE <<>>
      here == IF HasDecl(Sub(t, pl.path)) /\ pl.ph \in {"test", "inc"} THEN Sub(t, pl.path).x.decl ELSE <<>>
  IN FlattenSeq([i \in DOMAIN pl.path |-> From(i)]) \o here
Arrays(ds) == LET as == SelectSeq(ds, LAMBDA d : d.kind = "vla") IN [i \in DOMAIN as |-> as[i].v]

\* The label a goto means: local to a block that says so, or the function's.
LabelOwner(t, path, l) ==
  LET from == Nearest(t, path, {"call"})
      Says(s) == s.n = "block" /\ \E k \in DOMAIN s.kids : s.kids[k].n = "__label__" /\ s.kids[k].x = l
      at == {i \in DOMAIN path : i > from /\ Says(Sub(t, Above(path, i)))}
  IN IF at = {} THEN SubSeq(path, 1, from) ELSE Above(path, CHOOSE i \in at : \A j \in at : j <= i)
LabelsOf(t, path, l) ==
  {q \in Paths(t) : Sub(t, q).n = "label" /\ Sub(t, q).x = l /\ LabelOwner(t, q, l) = LabelOwner(t, path, l)}
SwitchLabels(t, path, kind) ==
  {q \in Paths(t) : Sub(t, q).n = kind /\ Encloses(t, q, {"switch"}) /\ Enclosing(t, q, {"switch"}) = path}

(***************************************************************************)
(* The constraints C puts on a function.                                   *)
(***************************************************************************)
\* A jump does not enter the scope of an array.
MayJump(t, from, to) == ToSet(Arrays(Vars(t, Place(to, "enter")))) \subseteq ToSet(Arrays(Vars(t, from)))
Meets(a, b) == a[1] <= b[2] /\ b[1] <= a[2]
PlacedWell(t, path) ==
  LET s == Sub(t, path)
      cases == SwitchLabels(t, path, "case")
  IN CASE s.n = "break" -> Encloses(t, path, {"while", "do", "for", "switch"})
       [] s.n = "continue" -> Encloses(t, path, {"while", "do", "for"})
       [] s.n \in {"case", "default"} -> Encloses(t, path, {"switch"})
       [] s.n = "label" -> LabelsOf(t, path, s.x) = {path}
       [] s.n = "block" ->
            \A k \in DOMAIN s.kids : s.kids[k].n = "__label__" => LabelsOf(t, Append(path, k), s.kids[k].x) # {}
       [] s.n = "goto" -> \E q \in LabelsOf(t, path, s.x) : MayJump(t, Place(path, "enter"), q)
       [] s.n = "switch" ->
            /\ Cardinality(SwitchLabels(t, path, "default")) <= 1
            /\ \A q \in cases : MayJump(t, Place(path, "test"), q)
            /\ \A q, r \in cases : q # r => ~Meets(Sub(t, q).x, Sub(t, r).x)
       [] OTHER -> TRUE
Constrained(t) == \A path \in Paths(t) : PlacedWell(t, path)
\* The constraint that cc1 does not check.
DefaultsWell(t) ==
  \A path \in Paths(t) : Sub(t, path).n = "switch" =>
    \A q \in SwitchLabels(t, path, "default") : MayJump(t, Place(path, "test"), q)

\* A range from a negative number to one that is not is refused, and a range of
\* one number.
RangeRefused(t) ==
  \E path \in Paths(t) :
    LET s == Sub(t, path)
    IN s.n = "case" /\ Len(s.x) = 3 /\ (s.x[1] = s.x[2] \/ (s.x[1] < 0 /\ s.x[2] >= 0))

(***************************************************************************)
(* A step of a statement: what is evaluated, and the place control goes    *)
(* to.                                                                     *)
(***************************************************************************)
CaseFor(t, path, v) ==
  LET hit == {q \in SwitchLabels(t, path, "case") : Sub(t, q).x[1] <= v /\ v <= Sub(t, q).x[2]}
      dflt == SwitchLabels(t, path, "default")
  IN IF hit # {} THEN Place(CHOOSE q \in hit : TRUE, "enter")
     ELSE IF dflt # {} THEN Place(CHOOSE q \in dflt : TRUE, "enter") ELSE Place(path, "over")
\* Where control is when the statement at path is over.
After(t, path) ==
  LET up == Front(path)
      s == Sub(t, up)
  IN CASE s.n = "block" /\ Last(path) < Len(s.kids) -> Place(Append(up, Last(path) + 1), "enter")
       [] s.n = "while" -> Place(up, "enter")
       [] s.n = "do" -> Place(up, "test")
       [] s.n = "for" -> Place(up, "inc")
       [] OTHER -> Place(up, "over")
SeeAll(m, evs) == FoldLeft(LAMBDA n, e : IF e = <<>> THEN n ELSE See(n, e), m, evs)
\* Control goes to a place: the variables that do not exist there are destroyed,
\* the last one first.
GoTo(t, m, from, to) ==
  LET old == Vars(t, from)
      new == ToSet(Vars(t, to))
      ends == Reverse(SelectSeq([i \in DOMAIN old |-> [d |-> old[i], sp |-> Arrays(SubSeq(old, 1, i))]],
                                LAMBDA e : e.d \notin new /\ e.d.kind = "clean"))
  IN [m EXCEPT !.tr = @ \o [i \in DOMAIN ends |-> <<<<"clean", ends[i].d.v>>, ends[i].sp>>]]
Inits(ds) == [i \in DOMAIN ds |-> <<"init", ds[i].v>>]

Step(m, to) == [m |-> m, to |-> to]
Decided(m, yes, no) == Step(m, IF m.v # 0 THEN yes ELSE no)
Switched(t, path, m) == Step(m, CaseFor(t, path, m.v))
Caller(path, fn) == IF fn = 0 THEN Place(<<>>, "returned") ELSE Place(Above(path, fn), "over")
\* What happens at a place, where the statement is s, and where control goes.
Steps(t, s, pl, m) ==
  LET Kid(i) == Place(Append(pl.path, i), "enter")
      over == Place(pl.path, "over")
  IN CASE pl.ph = "over" -> Step(m, After(t, pl.path))
       [] pl.ph = "inc" -> Step(SeeAll(m, <<s.x.inc>>), Place(pl.path, "test"))
       [] s.n = "expr" -> Step(See(m, s.x), over)
       [] s.n = "decl" -> Step(See(m, <<IF s.x.kind = "vla" THEN "size" ELSE "init", s.x.v>>), over)
       [] s.n \in {"__label__", "noop"} \/ (s.n = "block" /\ s.kids = <<>>) -> Step(m, over)
       [] s.n \in {"block", "label", "case", "default", "call"} \/ (s.n = "do" /\ pl.ph = "enter") -> Step(m, Kid(1))
       [] HasDecl(s) /\ pl.ph = "enter" -> Step(SeeAll(m, Inits(s.x.decl) \o <<s.x.init>>), Place(pl.path, "test"))
       [] s.n = "if" -> Decided(Ask(m, s.x.test), Kid(1), IF Len(s.kids) = 2 THEN Kid(2) ELSE over)
       [] s.n = "for" /\ s.x.test = <<>> -> Step(m, Kid(1))
       [] s.n \in {"while", "do", "for"} -> Decided(Ask(m, s.x.test), Kid(1), over)
       [] s.n = "switch" -> Switched(t, pl.path, Ask(m, s.x.test))
       [] s.n = "break" -> Step(m, Place(Enclosing(t, pl.path, {"while", "do", "for", "switch"}), "over"))
       [] s.n = "continue" -> Step(m, After(t, Append(Enclosing(t, pl.path, {"while", "do", "for"}), 1)))
       [] s.n = "goto" -> Step(m, Place(CHOOSE q \in LabelsOf(t, pl.path, s.x) : TRUE, "enter"))
       [] s.n = "return" -> Step(See(m, s.x), Caller(pl.path, Nearest(t, pl.path, {"call"})))

RECURSIVE Does(_, _, _, _)
Goes(t, from, step, fuel) == Does(t, step.to, GoTo(t, step.m, from, step.to), fuel - 1)
Does(t, pl, m, fuel) ==
  CASE fuel = 0 \/ Len(m.tr) >= MaxTrace -> Cut(m.tr)
    [] pl.path = <<>> /\ pl.ph \in {"over", "returned"} -> Cut(Append(m.tr, <<"returned", Main /\ pl.ph = "over">>))
    [] OTHER -> Goes(t, pl, Steps(t, Sub(t, pl.path), pl, [m EXCEPT !.sp = Arrays(Vars(t, pl))]), fuel)
CTrace(t, oracle) == Does(t, Place(<<>>, "enter"), Machine(oracle), Fuel)

--------------------------------------------------------------------------------
Compiled == out # Nothing
\* Where do_passable() may take the end of main to be out of
\* reach although it is not.
EndMisjudged(t) == \E path \in Paths(t) : Sub(t, path).n = "do"
\* A function is rejected exactly when it breaks a constraint of C, the placing
\* of default aside: stray breaks, continues and cases, labels missing (jumped to
\* or declared with __label__) or defined twice, cases that overlap, jumps into the
\* scope of a variable-length array; or has a case range that cc1 takes for inverse.
\* (fold_stmt_switch(), symtab_chk_labels(), fold_check_scope_entry())
JumpsChecked == Compiled => (out.error <=> ~Constrained(Function) \/ RangeRefused(Function))

Agree(does, c) == does = c \/ (EndMisjudged(Function) /\ c # <<>> /\ Front(does) = Front(c))
\* The generated blocks do what C says, in its order: evaluate expressions,
\* create and destroy variables whichever way their scope is entered or left, and
\* have just the arrays on the stack that exist; main returns 0 from its end.  No
\* block is ended twice.
\* (gen_stmt_*(), gen_scope_leave(), inline_func_try_gen(), fold_global_func())
FlowAsC ==
  Compiled /\ ~out.error /\ DefaultsWell(Function) =>
    /\ ~out.g.failed
    /\ \A oracle \in Oracles : Agree(Trace(out.g, oracle), CTrace(Expanded(Function), oracle))
===============================================================================

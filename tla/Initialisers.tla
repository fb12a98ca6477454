----------------------------- MODULE Initialisers -----------------------------
(***************************************************************************)
(* Objects with initialisers: a declaration's braces are written element   *)
(* by element, compiled as DeclInit has it and run, and the object is      *)
(* compared with the one C describes.                                      *)
(***************************************************************************)
EXTENDS DeclInit

CONSTANTS Decls,       \* [t, proto, elements]: type, earlier declaration, <<designators, initialiser>>s
          MaxElements, \* bound on the elements of a list
          MaxLength    \* longer than any array without a length gets

ASSUME DeclsAssumption == MaxElements \in Nat /\ MaxLength \in Nat /\ Decls # {}

VARIABLES decl, list, obj
vars == <<decl, list, obj>>

\* The initialiser whose kind is k, the n-th of its list; q is a variable.
Pair == Record("struct", <<Member("i", IntType), Member("j", IntType)>>)
Value(k, n) ==
  CASE k = "n" -> <<Tok("expr", Number(2 * n - 1))>>
    [] k = "f()" -> <<Tok("expr", Expr("call", IntType, 2 * n + 10, FALSE))>>
    [] k = "q" -> <<Tok("expr", Expr("var", Pair, <<70, 80>>, FALSE))>>
    [] k = "str" -> <<Tok("expr", Expr("str", Array(CharType, 3), <<20 + n, 30 + n, 0>>, TRUE))>>
    [] k = "{}" -> <<Tok("{", <<>>), Tok("}", <<>>)>>
    [] k = "{n}" -> <<Tok("{", <<>>), Tok("expr", Number(2 * n - 1)), Tok(",", <<>>), Tok("}", <<>>)>>
    [] k = "{n,m}" -> <<Tok("{", <<>>), Tok("expr", Number(2 * n - 1)), Tok(",", <<>>), Tok("expr", Number(2 * n)), Tok("}", <<>>)>>
    [] k = "{str}" -> <<Tok("{", <<>>)>> \o <<Tok("expr", Expr("str", Array(CharType, 3), <<20 + n, 30 + n, 0>>, TRUE))>> \o <<Tok("}", <<>>)>>

Element(ds, k, n) == [i \in DOMAIN ds |-> Tok("desig", ds[i])] \o (IF ds = <<>> THEN <<>> ELSE <<Tok("=", <<>>)>>) \o Value(k, n)
Tokens(elements) == <<Tok("{", <<>>)>> \o FlattenSeq([i \in DOMAIN elements |-> Append(elements[i], Tok(",", <<>>))]) \o <<Tok("}", <<>>)>>

(***************************************************************************)
(* Objects.  A union's is <<member last written, its value>>.              *)
(***************************************************************************)
RECURSIVE Filled(_, _), PutAt(_, _, _, _), ValueAt(_, _), TypeAt(_, _), Normal(_, _)
Filled(t, x) ==
  CASE IsScalar(t) -> x
    [] t.k = "union" -> <<1, Filled(t.mems[1].t, x)>>
    [] OTHER -> [i \in 1..SizeOf(t) |-> Filled(SubType(t, i), x)]
PutAt(v, t, path, x) ==
  IF path = <<>> THEN x
  ELSE LET i == path[1] IN
       IF t.k = "union" THEN <<i, PutAt(IF v[1] = i THEN v[2] ELSE Filled(SubType(t, i), 0), SubType(t, i), Tail(path), x)>>
       ELSE [v EXCEPT ![i] = PutAt(@, SubType(t, i), Tail(path), x)]
ValueAt(v, path) == IF path = <<>> THEN v ELSE ValueAt(v[path[1]], Tail(path))
TypeAt(t, path) == IF path = <<>> THEN t ELSE TypeAt(SubType(t, path[1]), Tail(path))
\* All zero is the same whichever member of a union holds it.
Normal(v, t) ==
  CASE IsScalar(t) -> v
    [] t.k = "union" -> IF v[2] = Filled(SubType(t, v[1]), 0) THEN Filled(t, 0) ELSE <<v[1], Normal(v[2], SubType(t, v[1]))>>
    [] OTHER -> [i \in DOMAIN v |-> Normal(v[i], SubType(t, i))]

Uninitialised == 99
Run1(v, t, op) ==
  PutAt(v, t, op.path, CASE op.op = "memset" -> Filled(TypeAt(t, op.path), 0)
                         [] op.op = "memcpy" -> ValueAt(v, op.x)
                         [] op.op = "assign" -> op.x[1])
Object(t, asn) ==
  IF Died(asn) THEN <<asn.die>> ELSE <<"compiled", [t |-> t, v |-> FoldLeft(LAMBDA v, op: Run1(v, t, op), Filled(t, Uninitialised), asn.ops)]>>
Assigned(up) == IF Died(up) THEN <<up.die>> ELSE Object(up.t, decl_init_create_assignments(up.di, up.t))
Compiled(d, toks) == Assigned(decl_init_brace_up_fold(parse_init(toks).di, d.t, d.proto))

(***************************************************************************)
(* The system.                                                             *)
(***************************************************************************)
Writing == obj = <<"writing">>
Init == decl \in Decls /\ list = <<>> /\ obj = <<"writing">>

WriteElement ==
  /\ Writing /\ Len(list) < MaxElements
  /\ \E e \in decl.elements: list' = Append(list, Element(e[1], e[2], Len(list) + 1))
  /\ UNCHANGED <<decl, obj>>

Compile ==
  /\ Writing /\ list # <<>>
  /\ obj' = Compiled(decl, Tokens(list))
  /\ UNCHANGED <<decl, list>>

Next == WriteElement \/ Compile
Spec == Init /\ [][Next]_vars

(***************************************************************************)
(* What C says: each element in turn initialises the object at a cursor,   *)
(* which a designator moves and which then goes on to the next object in   *)
(* the list's own; a later value replaces an earlier one.  A record that   *)
(* was copied whole and is then designated into starts again from zero.    *)
(***************************************************************************)
RECURSIVE DesigPaths(_, _), MemberPath(_, _), FirstLeaf(_, _, _), NextPath(_, _), CList(_, _, _, _, _)
MemberPath(mems, spel) ==
  LET i == sue_member_find(mems, spel)
  IN IF mems[i].spel = spel THEN <<i>> ELSE <<i>> \o MemberPath(mems[i].t.mems, spel)
DesigPaths(t, ds) ==
  IF ds = <<>> THEN {<<>>}
  ELSE LET here == IF ds[1].k = "ar" THEN {<<i + 1>>: i \in ds[1].i..ds[1].j} ELSE {MemberPath(t.mems, ds[1].m)}
       IN UNION {{p \o q: q \in DesigPaths(TypeAt(t, p), Tail(ds))}: p \in here}
LastPath(paths) == CHOOSE p \in paths: \A q \in paths: \A i \in DOMAIN p: p[i] >= q[i]
SkipPadding(t, i) == IF IsRecord(t) /\ i <= Len(t.mems) /\ IsPadding(t.mems[i]) THEN i + 1 ELSE i
\* Where an expression lands when there are no braces for what it is in.
FirstLeaf(t, path, e) ==
  IF IsScalar(t) \/ e.t = t \/ (e.k = "str" /\ t.k = "array" /\ t.of[1] = CharType) THEN path
  ELSE FirstLeaf(SubType(t, SkipPadding(t, 1)), Append(path, SkipPadding(t, 1)), e)
\* The object after path, inside the object of type t; <<>> if there is none.
NextPath(t, path) ==
  IF path = <<>> THEN <<>>
  ELSE LET up == TypeAt(t, Front(path))
           i == SkipPadding(up, Last(path) + 1)
       IN IF up.k # "union" /\ i <= SizeOf(up) THEN Append(Front(path), i) ELSE NextPath(t, Front(path))

StringFor(t, s) == [i \in 1..t.len |-> IF i <= Len(s) THEN s[i] ELSE 0]
\* The object o with the elements from the cursor on; whole are the records
\* that were copied, set what was initialised so far and empty what with {}.
\* odd collects what is wrong with the list, or known to be too much for cc1.
PutC(o, t, path, x) ==
  LET through == {w \in o.whole: IsStrictPrefix(w, path)}
      v == IF through = {} THEN o.v ELSE LET w == CHOOSE w \in through: TRUE IN PutAt(o.v, t, w, Filled(TypeAt(t, w), 0))
      Outside(S) == {w \in S: ~IsPrefix(path, w)}
  IN [o EXCEPT !.v = PutAt(v, t, path, x), !.whole = {w \in Outside(@): ~IsPrefix(w, path)},
               !.set = Outside(@) \cup {path}, !.empty = Outside(@),
               !.top = Max({@} \cup {path[1]: i \in DOMAIN path})]
InRecord(t, path) == path # <<>> /\ IsRecord(TypeAt(t, Front(path)))
Oddities(o, t, at, di) ==
  LET ty == TypeAt(t, at)
  IN  {x \in {"type", "braced again", "into empty", "copied over"} :
         CASE x = "type" -> di.k = "scalar" /\ IsScalar(ty) /\ di.e.t # IntType
           [] x = "braced again" -> IsBrace(di) /\ IsScalar(ty) /\ InRecord(t, at) /\ at \in o.set
           [] x = "copied over" -> di.k = "scalar" /\ IsRecord(ty) /\ \E w \in o.set: IsStrictPrefix(at, w) /\ w[Len(at) + 1] > 1
           [] x = "into empty" -> di.d # <<>> /\ \E e \in o.empty: InRecord(t, e) /\ IsStrictPrefix(e, at)}
CPlace(was, t, path, di, brace(_, _, _)) ==
  LET at == IF IsBrace(di) THEN path ELSE FirstLeaf(TypeAt(t, path), path, di.e)
      o == [was EXCEPT !.odd = @ \cup Oddities(was, t, at, di)]
      ty == TypeAt(t, at)
      str == IF ty.k = "array" THEN is_char_init(ty, <<di>>) ELSE <<>>
      cleared == LET p == PutC(o, t, at, Filled(ty, 0)) IN IF di.inits = <<>> THEN [p EXCEPT !.empty = @ \cup {at}] ELSE p
  IN IF str # <<>> THEN PutC(o, t, at, StringFor(ty, str[1]))
     ELSE IF IsBrace(di)
     THEN IF IsScalar(ty) THEN PutC(o, t, at, IF di.inits = <<>> THEN 0 ELSE di.inits[1].e.v)
          ELSE brace(cleared, at, di.inits)
     ELSE LET p == PutC(o, t, at, di.e.v) IN IF IsRecord(ty) THEN [p EXCEPT !.whole = @ \cup {at}] ELSE p
\* The element at path, or one it designates into, is one of an array of
\* aggregates and has been initialised before.
Revisits(o, t, path, designated) ==
  \E k \in DOMAIN path:
    /\ TypeAt(t, SubSeq(path, 1, k - 1)).k = "array" /\ ~IsScalar(TypeAt(t, SubSeq(path, 1, k)))
    /\ designated \/ k = Len(path)
    /\ \E w \in o.set: IsPrefix(SubSeq(path, 1, k), w)
\* base is the object the list is for, cursor the next object in it.
CList(was, t, base, cursor, elements) ==
  IF elements = <<>> THEN was
  ELSE LET di == elements[1]
           tb == TypeAt(t, base)
           targets == IF di.d = <<>> THEN {cursor} ELSE DesigPaths(tb, di.d)
           Place(o2, p) == CPlace(o2, t, base \o p, di, LAMBDA o3, at, inits: CList(o3, t, at, <<SkipPadding(TypeAt(t, at), 1)>>, inits))
           last == LastPath(targets)
           leaf == IF IsBrace(di) THEN last ELSE FirstLeaf(TypeAt(tb, last), last, di.e)
           again == \E p \in targets: Revisits(was, t, base \o p, di.d # <<>>)
           o == [was EXCEPT !.odd = @ \cup (IF again THEN {"element again"} ELSE {})]
       IN IF di.d = <<>> /\ cursor = <<>> THEN [was EXCEPT !.odd = @ \cup {"excess"}]
          ELSE CList(FoldSet(LAMBDA p, acc: Place(acc, p), o, targets), t, base, NextPath(tb, leaf), Tail(elements))
\* t[] is as long as the last element initialised.
CObject(t, di) ==
  LET open == t.k = "array" /\ t.len = Incomplete
      ty == IF open THEN [t EXCEPT !.len = MaxLength] ELSE t
      o == CPlace([v |-> Filled(ty, 0), whole |-> {}, set |-> {}, empty |-> {}, top |-> 0, odd |-> {}], ty, <<>>, di,
                  LAMBDA o, at, inits: CList(o, ty, at, <<SkipPadding(TypeAt(ty, at), 1)>>, inits))
  IN [v |-> IF open THEN SubSeq(o.v, 1, o.top) ELSE o.v, odd |-> o.odd]

(***************************************************************************)
(* Where cc1 is known to fail.                                             *)
(***************************************************************************)
Ranged(d) == d.k = "ar" /\ d.i # d.j
\* A scalar member initialised before is given a value in braces: what was
\* there is freed twice.
FreedTwice(c) == "braced again" \in c.odd
\* A designator into a member that has an empty brace reads its first entry.
IntoEmpty(c) == "into empty" \in c.odd
\* A record is given where members after the first have values: it replaces the
\* first of them only, which it has not the type of.
CopiedOver(c) == "copied over" \in c.odd
\* Two elements each give a range of an array further in: the entries of the
\* first are moved into the store of the second.
RangesMoved(di) == Cardinality({k \in DOMAIN di.inits: \E n \in 2..Len(di.inits[k].d): Ranged(di.inits[k].d[n])}) > 1
\* An element of an array of aggregates is initialised again, and the list
\* has a range or a value that is not constant: refused.
PartReplaced(c, di) ==
  /\ "element again" \in c.odd
  /\ \E k \in DOMAIN di.inits: ~decl_init_is_const(di.inits[k]) \/ \E n \in DOMAIN di.inits[k].d: Ranged(di.inits[k].d[n])

\* An object holds what C says of its initialiser: positions, designators and
\* ranges, missing braces and what a later element replaces; a list C allows
\* is compiled, whatever it replaces (decl_init_brace_up_r), but for the known
\* failures.  Before it is initialised an object may hold anything; C says
\* nothing of a list with more elements than there are objects for them.
InitialisedAsC ==
  LET Holds(c) == Normal(obj[2].v, obj[2].t) = Normal(c.v, obj[2].t)
      Right(c, di) == CASE obj[1] = "compiled" -> Holds(c)
                        [] obj[1] = "error" -> "type" \in c.odd \/ CopiedOver(c)
                        [] obj[1] = "unable" -> PartReplaced(c, di)
                        [] obj[1] = "crash" -> FreedTwice(c) \/ IntoEmpty(c) \/ RangesMoved(di)
      AsC(di) == LET c == CObject(maybe_complete_array_from_prev(decl.t, decl.proto), di)
                 IN  "excess" \in c.odd \/ Right(c, di)
  IN ~Writing => AsC(parse_init(Tokens(list)).di)
===============================================================================

----------------------------- MODULE DeclSyntax -----------------------------
(***************************************************************************)
(* How cc1 reads a declaration: its specifiers (parse_btype), its          *)
(* declarator (parsed_type_ptr and the functions below it) and the type    *)
(* the two make (parse_type_declarator_to_type), with the checks           *)
(* fold_type_w_attr makes of that type.                                    *)
(*                                                                         *)
(* A token is a string.  A type is a sequence of derivations, outermost    *)
(* first, over a base: `int *x[2]' is array(2), ptr over int.  A           *)
(* derivation keeps its qualifiers, its array size (0: none given) and its *)
(* parameters.  `env' says of a name whether symtab_search finds a typedef *)
(* for it, and of which type.  Left out: attributes, asm names, alignment, *)
(* typeof, __auto_type, blocks, variable-length and qualified array sizes, *)
(* variadic functions.                                                     *)
(***************************************************************************)
EXTENDS Integers, Sequences, FiniteSets

Quals == {"const", "volatile"}
Stores == {"typedef", "extern", "static", "auto", "register"}
Prims == {"_Bool", "void", "char", "short", "int", "long", "float", "double"}
Signs == {"signed", "unsigned"}
Keywords == Quals \cup Stores \cup Prims \cup Signs \cup {"inline", "struct"}
Marks == {"*", "(", ")", "[", "]", ",", "0", "2", "3"}

NoArgs == [style |-> "none", list |-> <<>>]
Node(k, q, n, a) == [k |-> k, q |-> q, n |-> n, a |-> a]
BaseType(p) == [d |-> <<>>, b |-> [p |-> p, q |-> {}]]
Derive(t, node) == [t EXCEPT !.d = <<node>> \o @]

Kind(t) == IF t.d = <<>> THEN "base" ELSE t.d[1].k
IsFunc(t) == Kind(t) = "func"
Inner(t) == [t EXCEPT !.d = Tail(@)]

\* The qualifiers of an array type go to its element.
type_qualify(t, q) ==
    LET other == {i \in DOMAIN t.d : t.d[i].k # "array"}
    IN  IF other = {} THEN [t EXCEPT !.b.q = @ \cup q]
        ELSE LET i == CHOOSE j \in other : \A l \in other : j <= l
             IN  [t EXCEPT !.d[i].q = @ \cup q]

type_unqualify(t) ==
    IF t.d = <<>> THEN [t EXCEPT !.b.q = {}] ELSE [t EXCEPT !.d[1].q = {}]

type_decay(t) ==
    CASE Kind(t) = "array" -> Derive(Inner(t), Node("ptr", t.d[1].q, 0, NoArgs))
      [] IsFunc(t)         -> Derive(t, Node("ptr", {}, 0, NoArgs))
      [] OTHER             -> t

type_is_complete(t) ==
    LET arrays == {i \in DOMAIN t.d : \A j \in 1..i : t.d[j].k = "array"}
        under  == Cardinality(arrays)
    IN  /\ \A i \in arrays : t.d[i].n # 0
        /\ under = Len(t.d) => t.b.p # "void"

-----------------------------------------------------------------------------
\* Tokens.

IsIdent(t) == t \notin Keywords \cup Marks
At(ts, t) == ts # <<>> /\ Head(ts) = t
AtAny(ts, S) == ts # <<>> /\ Head(ts) \in S

parse_at_tdef(ts, env) == ts # <<>> /\ IsIdent(Head(ts)) /\ env[Head(ts)].tdef

parse_at_decl(ts, env) == AtAny(ts, Keywords) \/ parse_at_tdef(ts, env)

-----------------------------------------------------------------------------
\* Specifiers.

NewSpecs == [qual |-> {}, store |-> "none", inline |-> FALSE, prim |-> "int",
             mode |-> "NONE", sign |-> "none", tdef |-> BaseType("int"),
             err |-> FALSE, die |-> FALSE, end |-> FALSE]

btype_set_store(b, st) ==
    IF b.store # "none" THEN [b EXCEPT !.err = TRUE] ELSE [b EXCEPT !.store = st]

\* A further primitive after one that may be followed by more.
MorePrimitive(b, got) ==
    LET p == b.prim
        to(np, mode) == [b EXCEPT !.prim = np, !.mode = mode]
        stays(np) == IF np \in {"int", "long", "llong"} THEN "MAYBE_MORE"
                                                        ELSE "NO_MORE"
    IN  CASE got = "int" /\ p \in {"short", "long"}   -> to(p, stays(p))
          [] p = "int" /\ got \in {"short", "long"}   -> to(got, stays(got))
          [] p = "long" /\ got = "long"               -> to("llong", "MAYBE_MORE")
          [] p = "llong" /\ got = "int"               -> to("llong", "NO_MORE")
          [] {p, got} = {"long", "double"}            -> to("ldouble", "NO_MORE")
          [] OTHER                                    -> [b EXCEPT !.die = TRUE]

TakePrimitive(b, got) ==
    CASE b.mode = "NONE"       -> [b EXCEPT !.prim = got, !.mode = "MAYBE_MORE"]
      [] b.mode = "MAYBE_MORE" -> MorePrimitive(b, got)
      [] OTHER                 -> [b EXCEPT !.die = TRUE]

TakeSign(b, t) ==
    IF b.sign # "none" THEN [b EXCEPT !.die = TRUE] ELSE [b EXCEPT !.sign = t]

\* After a struct only qualifiers and storage are taken.
RECURSIVE AfterStruct(_, _)
AfterStruct(b, ts) ==
    CASE AtAny(ts, Quals)  -> AfterStruct([b EXCEPT !.qual = @ \cup {Head(ts)}], Tail(ts))
      [] AtAny(ts, Stores) -> AfterStruct(btype_set_store(b, Head(ts)), Tail(ts))
      [] OTHER             -> [b |-> b, ts |-> ts]

TakeStruct(b, ts) ==
    AfterStruct([b EXCEPT !.die = @ \/ b.sign # "none" \/ b.mode # "NONE",
                          !.mode = "NO_MORE", !.prim = "struct", !.end = TRUE], ts)

TakeTypedef(b, t, env) == [b EXCEPT !.mode = "TYPEDEF", !.tdef = env[t].ty]

RECURSIVE Specifiers(_, _, _)
Specifiers(b, ts, env) ==
    LET t == Head(ts)
        on(c) == Specifiers(c, Tail(ts), env)
    IN  CASE b.die \/ ts = <<>> -> [b |-> b, ts |-> ts]
          [] AtAny(ts, Quals)   -> on([b EXCEPT !.qual = @ \cup {t}])
          [] AtAny(ts, Stores)  -> on(btype_set_store(b, t))
          [] AtAny(ts, Prims)   -> on(TakePrimitive(b, t))
          [] AtAny(ts, Signs)   -> on(TakeSign(b, t))
          [] t = "inline"       -> on([b EXCEPT !.inline = TRUE])
          [] t = "struct"       -> TakeStruct(b, Tail(ts))
          [] b.sign = "none" /\ parse_at_tdef(ts, env) /\ b.mode = "NONE"
                                -> on(TakeTypedef(b, t, env))
          [] OTHER              -> [b |-> b, ts |-> ts]

TYPE_PRIMITIVE_TO_UNSIGNED(p) ==
    CASE p = "short" -> "ushort" [] p = "int"   -> "uint"
      [] p = "long"  -> "ulong"  [] p = "llong" -> "ullong"

\* The primitive with the sign applied.
Signed(b) ==
    IF b.prim = "char"
    THEN [b EXCEPT !.prim = IF b.sign = "signed" THEN "schar" ELSE "uchar"]
    ELSE IF b.prim \in {"_Bool", "void", "float", "double", "ldouble"}
    THEN [b EXCEPT !.die = TRUE]
    ELSE [b EXCEPT !.prim = IF b.sign = "unsigned"
                            THEN TYPE_PRIMITIVE_TO_UNSIGNED(@) ELSE @]

\* A sign after a typedef name prints an error and is then ignored.
EndSpecifiers(b) ==
    IF b.die \/ b.end THEN b
    ELSE [(IF b.sign # "none" THEN Signed(b) ELSE b) EXCEPT !.err = @ \/ (b.store = "typedef" /\ b.inline)]

BType(b, ts) ==
    [ty |-> type_qualify(IF b.mode = "TYPEDEF" THEN b.tdef ELSE BaseType(b.prim), b.qual),
     die |-> b.die, err |-> b.err, ts |-> ts, store |-> b.store, inline |-> b.inline]

parse_btype(ts, env) ==
    LET End(r) == BType(EndSpecifiers(r.b), r.ts) IN End(Specifiers(NewSpecs, ts, env))

-----------------------------------------------------------------------------
\* Types: what fold_type_w_attr and fold_funcargs refuse of them.

RECURSIVE fold_type_w_attr(_)
fold_funcargs(a) ==
    /\ \A i \in DOMAIN a.list : fold_type_w_attr(a.list[i]) /\ a.list[i] # BaseType("void")

fold_type_w_attr(t) ==
    \A i \in DOMAIN t.d :
        LET below == [t EXCEPT !.d = SubSeq(@, i + 1, Len(@))]
        IN  /\ t.d[i].k = "array" => type_is_complete(below) /\ ~IsFunc(below)
            /\ t.d[i].k = "func"  => /\ Kind(below) \notin {"array", "func"}
                                     /\ fold_funcargs(t.d[i].a)

-----------------------------------------------------------------------------
\* Declarators.  A parsed declarator is its chain of derivations, in the
\* order parse_type_declarator_to_type applies them to the base.

create_func_type_stripping_ret_quals(ret, a) ==
    Derive(type_unqualify(ret), Node("func", {}, 0, a))

RECURSIVE parse_type_declarator_to_type(_, _)
parse_type_declarator_to_type(chain, t) ==
    IF chain = <<>> THEN t
    ELSE LET c == Head(chain)
         IN  parse_type_declarator_to_type(Tail(chain),
                 IF c.k = "func"
                 THEN create_func_type_stripping_ret_quals(t, c.a)
                 ELSE Derive(t, c))

RECURSIVE parsed_type_ptr(_, _, _), QualRun(_)
QualRun(ts) == IF AtAny(ts, Quals) THEN 1 + QualRun(Tail(ts)) ELSE 0

Parsed(chain, name, ts, ok) == [chain |-> chain, name |-> name, ts |-> ts, ok |-> ok]

\* `(' begins a nested declarator unless what follows can only be a
\* parameter list, in which case the declarator has no name.
Closed(r) == IF r.ok /\ At(r.ts, ")") THEN [r EXCEPT !.ts = Tail(@)] ELSE [r EXCEPT !.ok = FALSE]
parsed_type_nest(dfor, ts, env) ==
    IF At(ts, "(")
    THEN IF parse_at_decl(Tail(ts), env) \/ At(Tail(ts), ")")
         THEN Parsed(<<>>, "", ts, TRUE)
         ELSE Closed(parsed_type_ptr(dfor, Tail(ts), env))
    ELSE IF ts # <<>> /\ IsIdent(Head(ts))
    THEN Parsed(<<>>, IF dfor THEN Head(ts) ELSE "", Tail(ts), dfor)
    ELSE Parsed(<<>>, "", ts, TRUE)

SizeOf(t) == CASE t = "2" -> 2 [] t = "3" -> 3 [] OTHER -> 0

\* The tokens after the `[' : an optional size, then `]'.
parsed_type_array(p, ts) ==
    LET sized == AtAny(ts, {"2", "3"})
        rest  == IF sized THEN Tail(ts) ELSE ts
    IN  IF At(rest, "]")
        THEN [p EXCEPT !.chain = <<Node("array", {}, IF sized THEN SizeOf(Head(ts)) ELSE 0, NoArgs)>> \o @,
                       !.ts = Tail(rest)]
        ELSE [p EXCEPT !.ok = FALSE]

\* One parameter: parameters may default to int; its name hides a typedef
\* from the parameters after it.
ArgDecl(b, p) ==
    [ok |-> ~b.die /\ ~b.err /\ p.ok /\ b.store \in {"none", "register"} /\ ~b.inline,
     ty |-> parse_type_declarator_to_type(p.chain, b.ty), name |-> p.name, ts |-> p.ts]
parse_arg_decl(ts, env) ==
    LET Behind(b) == ArgDecl(b, parsed_type_ptr(TRUE, b.ts, env)) IN Behind(parse_btype(ts, env))

Args(ok, style, list, ts) == [ok |-> ok, a |-> [style |-> style, list |-> list], ts |-> ts]
RECURSIVE ArgList(_, _, _)
ArgsFrom(list, ts, env, a) ==
    CASE ~a.ok \/ a.ts = ts \/ ~fold_type_w_attr(a.ty)            -> Args(FALSE, "none", <<>>, a.ts)
      [] list = <<>> /\ a.ty = BaseType("void") /\ a.name = ""    -> Args(TRUE, "void", <<>>, a.ts)
      [] At(a.ts, ",") -> ArgList(Append(list, a.ty), Tail(a.ts), IF a.name = "" THEN env ELSE [env EXCEPT ![a.name].tdef = FALSE])
      [] OTHER         -> Args(TRUE, "list", [i \in 1..Len(list) + 1 |-> type_decay(Append(list, a.ty)[i])], a.ts)
ArgList(list, ts, env) == ArgsFrom(list, ts, env, parse_arg_decl(ts, env))

\* An identifier that is no typedef begins an old-style identifier list.
RECURSIVE IdentList(_)
IdentList(ts) ==
    CASE ts = <<>> \/ ~IsIdent(Head(ts)) -> [ok |-> FALSE, ts |-> ts, n |-> 0]
      [] At(Tail(ts), ",") -> LET r == IdentList(Tail(Tail(ts))) IN [r EXCEPT !.n = @ + 1]
      [] OTHER -> [ok |-> TRUE, ts |-> Tail(ts), n |-> 1]

parse_func_arglist(ts, env) ==
    IF At(ts, ")") THEN Args(TRUE, "old", <<>>, ts)
    ELSE IF ts # <<>> /\ IsIdent(Head(ts)) /\ ~parse_at_tdef(ts, env)
    THEN LET OldStyle(r) == Args(r.ok, "old", [i \in 1..r.n |-> BaseType("int")], r.ts) IN OldStyle(IdentList(ts))
    ELSE ArgList(<<>>, ts, env)

FuncOf(p, r) ==
    IF r.ok /\ At(r.ts, ")") THEN [p EXCEPT !.chain = <<Node("func", {}, 0, r.a)>> \o @, !.ts = Tail(r.ts)]
    ELSE [p EXCEPT !.ok = FALSE]
parsed_type_func(p, ts, env) == FuncOf(p, parse_func_arglist(ts, env))

RECURSIVE DeclaratorSuffixes(_, _)
DeclaratorSuffixes(p, env) ==
    CASE ~p.ok -> p
      [] At(p.ts, "(") -> DeclaratorSuffixes(parsed_type_func(p, Tail(p.ts), env), env)
      [] At(p.ts, "[") -> DeclaratorSuffixes(parsed_type_array(p, Tail(p.ts)), env)
      [] OTHER -> p

parsed_type_func_or_array(dfor, ts, env) ==
    DeclaratorSuffixes(parsed_type_nest(dfor, ts, env), env)

\* A possible bug: a pointer is applied after what follows it.
Pointed_Last(q, sub) == [sub EXCEPT !.chain = @ \o <<Node("ptr", q, 0, NoArgs)>>]
\* A pointer is applied before what follows it, so it heads the chain.
Pointed(q, sub) == [sub EXCEPT !.chain = <<Node("ptr", q, 0, NoArgs)>> \o @]
PointerTo(n, dfor, ts, env) == Pointed({ts[i] : i \in 2..n + 1}, parsed_type_ptr(dfor, SubSeq(ts, n + 2, Len(ts)), env))
parsed_type_ptr(dfor, ts, env) ==
    IF At(ts, "*") THEN PointerTo(QualRun(Tail(ts)), dfor, ts, env) ELSE parsed_type_func_or_array(dfor, ts, env)

\* The declaration as parse_decl_stored_aligned leaves it.
parse_decl_stored_aligned(b, env) ==
    LET Declared(p) == [name |-> p.name, ok |-> p.ok /\ p.ts = <<>>,
                        ty |-> parse_type_declarator_to_type(p.chain, b.ty)]
    IN  Declared(parsed_type_ptr(TRUE, b.ts, env))

-----------------------------------------------------------------------------
\* Type comparison, as type_cmp makes it of two declarations of one name.

FUNCARGS_EMPTY_NOVOID(a) == a.list = <<>> /\ a.style # "void"

RECURSIVE type_cmp(_, _, _)
funcargs_cmp(a, b) ==
    \/ FUNCARGS_EMPTY_NOVOID(a)
    \/ FUNCARGS_EMPTY_NOVOID(b)
    \/ /\ Len(a.list) = Len(b.list)
       /\ \A i \in DOMAIN a.list :
             type_cmp(type_unqualify(a.list[i]), type_unqualify(b.list[i]), FALSE)

type_cmp(s, t, tentative) ==
    /\ s.b = t.b
    /\ Len(s.d) = Len(t.d)
    /\ \A i \in DOMAIN s.d :
         LET x == s.d[i]  y == t.d[i]
         IN  /\ x.k = y.k
             /\ x.q = y.q
             /\ x.k = "array" => x.n = y.n \/ (tentative /\ 0 \in {x.n, y.n})
             /\ x.k = "func"  => funcargs_cmp(x.a, y.a)
=============================================================================

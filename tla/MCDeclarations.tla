--------------------------- MODULE MCDeclarations ---------------------------
(***************************************************************************)
(* Units for TLC: lists of specifiers, shapes of declarators, names that   *)
(* are typedefs in one scope and objects in another, and the declarations  *)
(* of an object, an array and a function in every order.                   *)
(***************************************************************************)
EXTENDS DeclStandard

Id(n) == [k |-> "id", name |-> n]
Abs == [k |-> "abs"]
Paren(d) == [k |-> "paren", d |-> d]
Ptr(q, d) == [k |-> "ptr", q |-> q, d |-> d]
Arr(n, d) == [k |-> "arr", n |-> n, d |-> d]
Fun(ps, d) == [k |-> "fun", ps |-> ps, d |-> d]
Param(specs, d) == [specs |-> specs, tree |-> d]
Void == <<Param(<<"void">>, Abs)>>

Declare(specs, d) == [specs |-> specs, tree |-> d, init |-> FALSE, body |-> FALSE]
AtFile(x) == [at |-> "file", decls |-> <<x>>, use |-> "", name |-> ""]
InBlock(xs, use) == [at |-> "block", decls |-> xs, use |-> use, name |-> ""]
Enumerator(n) == [at |-> "enum", decls |-> <<>>, use |-> "", name |-> n]
Family(first, items, max) == [first |-> first, items |-> items, max |-> max]

\* Specifier lists.
Words == {"signed", "unsigned", "short", "long", "int", "char", "double"}
OtherWords == {"const", "static", "extern", "void", "_Bool", "struct", "unsigned", "int", "inline", "typedef"}
SpecLists == UNION {[1..n -> Words] : n \in 1..4} \cup UNION {[1..n -> OtherWords] : n \in 1..3}
Specs == {AtFile(Declare(s, Ptr({}, Id("x")))) : s \in SpecLists}

\* Declarator shapes, three derivations deep.
ParamLists == {<<>>, Void, <<Param(<<"int">>, Id("T")), Param(<<"int">>, Id("a"))>>,
               <<Param(<<"T">>, Abs)>>,
               <<Param(<<"int">>, Fun(<<Param(<<"T">>, Abs)>>, Abs))>>,
               <<Param(<<"int">>, Id("T")), Param(<<"T">>, Id("a"))>>,
               <<Param(<<"T">>, Arr(2, Arr(3, Id("a"))))>>,
               <<Param(<<"const", "T">>, Paren(Ptr({}, Id("T"))))>>}
Grown(S) ==
    {Ptr(q, d) : q \in {{}, {"const"}}, d \in S}
    \cup {Paren(d) : d \in {e \in S : e.k # "abs"}}
    \cup {Arr(n, d) : n \in {0, 2}, d \in {e \in S : e.k # "ptr"}}
    \cup {Fun(ps, d) : ps \in ParamLists, d \in {e \in S : e.k # "ptr"}}
Depth1 == Grown({Id("x")})
Depth2 == Grown(Depth1)
Depth3 == Grown({d \in Depth2 : d.k \notin {"fun"} \/ d.ps \in {<<>>, Void}})
TypedefT == AtFile(Declare(<<"typedef", "int">>, Ptr({}, Id("T"))))
Shapes == {AtFile(Declare(<<b>>, d)) : b \in {"int", "T"}, d \in {Id("x")} \cup Depth1 \cup Depth2 \cup Depth3}

\* A typedef name and what a block may make of it.
TDecls == {Declare(<<"int">>, Id("T")), Declare(<<"T">>, Id("T")), Declare(<<"unsigned">>, Id("T")),
           Declare(<<"T">>, Id("x")), Declare(<<"const", "T">>, Arr(2, Id("x"))), Declare(<<"T", "const">>, Ptr({}, Id("T"))),
           Declare(<<"typedef", "char">>, Id("T")), Declare(<<"T", "T">>, Id("x")), Declare(<<"int", "T">>, Id("x")),
           Declare(<<"T", "unsigned">>, Id("x")), Declare(<<"T">>, Fun(<<Param(<<"T">>, Id("T"))>>, Id("x")))}
Typedefs == {AtFile(d) : d \in TDecls} \cup {InBlock(<<d>>, "T") : d \in TDecls}
            \cup {InBlock(<<d, e>>, "x") : d \in TDecls, e \in TDecls}

\* One object, declared again and again.
WithInit(x) == [x EXCEPT !.init = TRUE]
ObjectDecls == {Declare(s, Id("x")) : s \in {<<"int">>, <<"static", "int">>, <<"extern", "int">>}}
Autos == {Declare(s, Id("x")) : s \in {<<"auto", "int">>, <<"register", "int">>}}
Objs == {AtFile(x) : x \in ObjectDecls \cup {WithInit(x) : x \in ObjectDecls}
                           \cup {Declare(<<"char">>, Id("x")), Declare(<<"auto", "int">>, Id("x")),
                                 Declare(<<"typedef", "int">>, Id("x"))}}
        \cup {InBlock(<<x>>, u) : x \in ObjectDecls, u \in {"", "x"}}
        \cup {InBlock(<<WithInit(x)>>, "x") : x \in ObjectDecls}
        \cup {InBlock(<<x, y>>, "x") : x \in ObjectDecls, y \in ObjectDecls}
        \cup {InBlock(<<x, y>>, "x") : x \in Autos, y \in Autos \cup {Declare(<<"int">>, Id("x"))}}
        \cup {InBlock(<<>>, "x"), Enumerator("x"), AtFile(Declare(<<"int">>, Abs)), InBlock(<<Declare(<<"int">>, Abs)>>, "x")}

Arrays == {AtFile(Declare(s, Arr(n, Id("x")))) : s \in {<<"int">>, <<"static", "int">>, <<"extern", "int">>}, n \in {0, 2, 3}}
          \cup {AtFile(WithInit(Declare(s, Arr(n, Id("x"))))) : s \in {<<"int">>, <<"extern", "int">>}, n \in {0, 2}}
          \cup {InBlock(<<Declare(<<"int">>, Arr(0, Id("x")))>>, ""),
                InBlock(<<Declare(<<"extern", "int">>, Arr(0, Id("x")))>>, "x"), InBlock(<<>>, "x")}

\* One function, declared and defined in every way.
WithBody(x) == [x EXCEPT !.body = TRUE]
F(s, ps) == Declare(s \o <<"int">>, Fun(ps, Id("x")))
FnStores == {<<>>, <<"static">>, <<"extern">>, <<"inline">>, <<"static", "inline">>, <<"extern", "inline">>}
Fns == {AtFile(F(s, Void)) : s \in FnStores} \cup {AtFile(WithBody(F(s, Void))) : s \in FnStores}
       \cup {AtFile(F(<<>>, ps)) : ps \in {<<>>, <<Param(<<"int">>, Id("a"))>>}}
       \cup {InBlock(<<F(s, Void)>>, "x") : s \in {<<>>, <<"static">>, <<"extern">>}}
       \cup {AtFile(Declare(s \o <<"int">>, Id("x"))) : s \in {<<>>, <<"static">>}}
       \cup {InBlock(<<>>, "x"), InBlock(<<Declare(<<"int">>, Id("x"))>>, "x")}

MCFamilies == [specs    |-> Family(Specs, {}, 1),
               shapes   |-> Family({TypedefT}, Shapes, 2),
               typedefs |-> Family({TypedefT}, Typedefs, 2),
               objects  |-> Family(Objs, Objs, 3),
               arrays   |-> Family(Arrays, Arrays, 3),
               fns      |-> Family(Fns, Fns, 3)]
=============================================================================

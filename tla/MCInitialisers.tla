---- MODULE MCInitialisers ----
EXTENDS Initialisers

St(m) == Desig("st", m, 0, 0)
Ar(i, j) == Desig("ar", "", i, j)
At(i) == Ar(i, i)
Decl(t, proto, desigs, inits, more) == [t |-> t, proto |-> proto, elements |-> (desigs \X inits) \cup more]

Union2 == Record("union", <<Member("a", IntType), Member("b", Pair)>>)
\* struct { P p; int k; } and struct { union { int a; P b; } u; int k; }
Outer == Record("struct", <<Member("p", Pair), Member("k", IntType)>>)
WithUnion == Record("struct", <<Member("u", Union2), Member("k", IntType)>>)
\* struct { int w; struct { int x, y; }; int : 3; int z; }
WithAnonymous ==
  Record("struct", <<Member("w", IntType), Member("", Record("struct", <<Member("x", IntType), Member("y", IntType)>>)),
                     Member("", IntType), Member("z", IntType)>>)
\* struct { int a[3]; char s[2]; }
WithArrays == Record("struct", <<Member("a", Array(IntType, 3)), Member("s", Array(CharType, 2))>>)
\* struct { P p[2]; int k; }
WithPairs == Record("struct", <<Member("p", Array(Pair, 2)), Member("k", IntType)>>)

\* What a range is given is whole: how a list goes on inside a range that was
\* given part of a record is not GNU C's business.
MCDecls ==
  {Decl(Array(Pair, 3), IntType, {<<>>, <<At(0)>>}, {"n", "{n}", "q", "{}"},
        {<<Ar(1, 2)>>} \X {"{n}", "q", "{}"} \cup {<<At(1), St("j")>>} \X {"n", "{n}"}),
   Decl(Array(Pair, Incomplete), IntType, {<<>>, <<At(2)>>, <<At(1), St("i")>>}, {"n", "f()"}, {<<Ar(0, 1)>>, <<At(2)>>, <<>>} \X {"{n,m}"}),
   Decl(Array(IntType, Incomplete), Array(IntType, 4), {<<>>, <<Ar(0, 1)>>, <<At(1)>>, <<Ar(1, 3)>>, <<At(3)>>}, {"n", "{n}", "f()"}, {}),
   Decl(Array(IntType, Incomplete), Array(IntType, Incomplete), {<<>>, <<Ar(0, 1)>>, <<At(1)>>, <<Ar(1, 3)>>}, {"n", "{}"}, {}),
   Decl(Array(Array(IntType, 2), 2), IntType, {<<>>, <<At(0)>>, <<At(1)>>, <<At(1), At(1)>>}, {"n"}, {<<>>, <<Ar(0, 1)>>, <<At(1)>>} \X {"{n,m}"}),
   Decl(Outer, IntType, {<<>>, <<St("k")>>, <<St("p"), St("j")>>}, {"n"}, {<<St("p")>>, <<>>} \X {"q", "{n,m}", "{}"}),
   Decl(WithUnion, IntType, {<<St("k")>>, <<St("u"), St("b"), St("j")>>, <<St("u"), St("b")>>}, {"n"}, {<<St("u"), St("b")>>} \X {"{n,m}", "{n}"}),
   Decl(WithAnonymous, IntType, {<<>>, <<St("x")>>, <<St("y")>>, <<St("w")>>, <<St("z")>>}, {"n"}, {<<St("w")>>, <<St("y")>>, <<St("z")>>, <<>>} \X {"{n}"}),
   Decl(WithArrays, IntType, {<<>>, <<St("a")>>, <<St("a"), At(1)>>, <<St("a"), Ar(0, 1)>>, <<St("a"), Ar(1, 2)>>}, {"n"},
        {<<St("s")>>} \X {"n", "str", "{str}"} \cup {<<St("a")>>} \X {"{n,m}"}),
   Decl(WithPairs, IntType, {<<>>, <<St("k")>>, <<St("p")>>, <<St("p"), At(1)>>, <<St("p"), At(0), St("j")>>}, {"n"},
        {<<St("p")>>, <<St("p"), Ar(0, 1)>>, <<St("p"), At(1)>>} \X {"{n,m}"})}
====

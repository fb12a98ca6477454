---------------------------- MODULE DeclStandard ----------------------------
(***************************************************************************)
(* What C says of the declarations of a unit (C11 6.2.2, 6.7, 6.9), from   *)
(* the syntax trees of its items and not from their tokens, and the        *)
(* properties that compare cc1 with it.                                    *)
(***************************************************************************)
EXTENDS Declarations

\* 6.7.2p2: the sets of type specifiers and the types they name.
TypeWords == Prims \cup Signs \cup {"struct"}
Count(s, t) == Cardinality({i \in DOMAIN s : s[i] = t})
SpecifierTable ==
    LET sets == [void |-> {<<"void">>}, char |-> {<<"char">>}, schar |-> {<<"signed", "char">>},
                 uchar |-> {<<"unsigned", "char">>},
                 short |-> {<<"short">>, <<"signed", "short">>, <<"short", "int">>, <<"signed", "short", "int">>},
                 ushort |-> {<<"unsigned", "short">>, <<"unsigned", "short", "int">>},
                 int |-> {<<>>, <<"int">>, <<"signed">>, <<"signed", "int">>},
                 uint |-> {<<"unsigned">>, <<"unsigned", "int">>},
                 long |-> {<<"long">>, <<"signed", "long">>, <<"long", "int">>, <<"signed", "long", "int">>},
                 ulong |-> {<<"unsigned", "long">>, <<"unsigned", "long", "int">>},
                 llong |-> {<<"long", "long">>, <<"signed", "long", "long">>, <<"long", "long", "int">>,
                            <<"signed", "long", "long", "int">>},
                 ullong |-> {<<"unsigned", "long", "long">>, <<"unsigned", "long", "long", "int">>},
                 float |-> {<<"float">>}, double |-> {<<"double">>}, ldouble |-> {<<"long", "double">>},
                 _Bool |-> {<<"_Bool">>}, struct |-> {<<"struct">>}]
    IN  UNION {{<<[t \in TypeWords |-> Count(s, t)], p>> : s \in sets[p]} : p \in DOMAIN sets}

\* The type the specifiers give: [ok, ty].
SpecType(specs, env) ==
    LET words == [t \in TypeWords |-> Count(specs, t)]
        named == {e \in SpecifierTable : e[1] = words}
        tdefs == SelectSeq(specs, LAMBDA t : IsIdent(t))
        q     == Range(specs) \cap Quals
        alone == \A t \in TypeWords : words[t] = 0
    IN  IF tdefs = <<>>
        THEN [ok |-> named # {}, ty |-> type_qualify(BaseType(IF named = {} THEN "int" ELSE (CHOOSE e \in named : TRUE)[2]), q)]
        ELSE [ok |-> alone /\ Len(tdefs) = 1 /\ env[tdefs[1]].tdef, ty |-> type_qualify(env[tdefs[1]].ty, q)]

\* 6.7.6: a declarator says how the name is used, from the inside out.
RECURSIVE Meaning(_, _, _)
Typed(ok, m) == [m EXCEPT !.ok = @ /\ ok]
MeaningWith(x, b, env) == Typed(b.ok, Meaning(x.tree, b.ty, env))
MeaningOf(x, env) == MeaningWith(x, SpecType(x.specs, env), env)
RECURSIVE ParamsOf(_, _)
ParamsOf(ps, env) ==
    LET name == NameOf(ps[1].tree)
    IN  IF ps = <<>> THEN <<>>
        ELSE <<MeaningOf(ps[1], env)>> \o ParamsOf(Tail(ps), IF name = "" THEN env ELSE [env EXCEPT ![name].tdef = FALSE])

OnlyVoid(ps, all) == Len(all) = 1 /\ all[1].ty = BaseType("void") /\ NameOf(ps[1].tree) = ""
FunctionTaking(ps, all, void, t) ==
    [ok |-> /\ Kind(t) \notin {"array", "func"}
            /\ \A i \in DOMAIN all : all[i].ok /\ (void \/ all[i].ty # BaseType("void")),
     ty |-> Derive(type_unqualify(t),
                   Node("func", {}, 0,
                        [style |-> IF ps = <<>> THEN "old" ELSE IF void THEN "void" ELSE "list",
                         list |-> IF void THEN <<>> ELSE [i \in DOMAIN all |-> type_decay(all[i].ty)]]))]
FunctionOf(ps, all, t) == FunctionTaking(ps, all, OnlyVoid(ps, all), t)

MeaningOver(d, f, env) == Typed(f.ok, Meaning(d.d, f.ty, env))
Meaning(d, t, env) ==
    CASE d.k \in {"id", "abs"} -> [ok |-> TRUE, ty |-> t]
      [] d.k = "paren" -> Meaning(d.d, t, env)
      [] d.k = "ptr"   -> Meaning(d.d, Derive(t, Node("ptr", d.q, 0, NoArgs)), env)
      [] d.k = "arr"   -> Typed(~IsFunc(t) /\ type_is_complete(t), Meaning(d.d, Derive(t, Node("array", {}, d.n, NoArgs)), env))
      [] d.k = "fun"   -> MeaningOver(d, FunctionOf(d.ps, ParamsOf(d.ps, env), t), env)

-----------------------------------------------------------------------------
\* The declarations of the unit as C reads them.

Scope(k) == IF unit[k].at = "block" THEN k ELSE 0

StoreOf(specs) == LET s == SelectSeq(specs, LAMBDA t : t \in Stores) IN IF s = <<>> THEN "none" ELSE s[1]

Sized(x, t) == IF x.init /\ Kind(t) = "array" /\ t.d[1].n = 0 THEN [t EXCEPT !.d[1].n = 1] ELSE t
Entry(x, k, m) ==
    [name |-> NameOf(x.tree), item |-> k, at |-> Scope(k), store |-> StoreOf(x.specs), inline |-> "inline" \in Range(x.specs),
     ty |-> Sized(x, m.ty), init |-> x.init, body |-> x.body,
     ok |-> m.ok /\ Cardinality({i \in DOMAIN x.specs : x.specs[i] \in Stores}) <= 1]

\* Every declaration of the unit in order, read with the typedefs in its scope.
Item(es, k) == FoldLeft(LAMBDA e, x : Append(e, Entry(x, k, MeaningOf(x, Env(e, Scope(k))))), es, unit[k].decls)
Entries == FoldLeft(Item, <<>>, [k \in DOMAIN unit |-> k])

\* 6.2.2: the linkage of the i-th declaration.
RECURSIVE Linkage(_, _)
Linkage(es, i) ==
    LET d == es[i]
        before == symtab_search(SubSeq(es, 1, i - 1), d.at, d.name)
    IN  CASE d.store = "typedef" -> "none"
          [] d.at = 0 /\ d.store = "static" -> "internal"
          [] d.store = "extern" \/ IsFunc(d.ty) ->
                IF before # 0 /\ Linkage(es, before) # "none" THEN Linkage(es, before) ELSE "external"
          [] d.at = 0 -> "external"
          [] OTHER -> "none"

\* What 6.7 and 6.9 forbid of one declaration, and of two of one name.
Forbidden(d) ==
    \/ ~d.ok
    \/ d.inline /\ ~(IsFunc(d.ty) /\ d.store # "typedef")
    \/ d.store = "typedef" /\ (d.init \/ d.body)
    \/ d.store \in {"auto", "register"} /\ (d.at = 0 \/ IsFunc(d.ty))
    \/ d.at # 0 /\ d.store = "extern" /\ d.init
    \/ d.at # 0 /\ d.store = "static" /\ IsFunc(d.ty)
    \/ d.at # 0 /\ d.store \notin {"extern", "typedef"} /\ ~type_is_complete(d.ty)

Linked(es, i, j) == es[i].name = es[j].name /\ "none" \notin {Linkage(es, i), Linkage(es, j)}

ForbiddenPair(es, i, j) ==
    LET a == es[i]  b == es[j]
        tdefs == {a.store = "typedef", b.store = "typedef"}
    IN  \/ a.name = b.name /\ a.at = b.at /\
             (\/ tdefs = {TRUE, FALSE}
              \/ ~type_cmp(a.ty, b.ty, TRUE)
              \/ a.at # 0 /\ tdefs = {FALSE} /\ ~Linked(es, i, j)
              \/ a.at = 0 /\ Linked(es, i, j) /\ Linkage(es, i) # Linkage(es, j))
        \/ Linked(es, i, j) /\ ((a.init /\ b.init) \/ (a.body /\ b.body))

\* The declaration the use in the k-th item refers to.
Referent(es, k) ==
    symtab_search(SelectSeq(es, LAMBDA e : e.item <= k), Scope(k), unit[k].use)
Uses == {k \in DOMAIN unit : unit[k].use # ""}
Enumerated(k) == \E j \in 1..k - 1 : unit[j].at = "enum" /\ unit[j].name = unit[k].use

Valid(es) ==
    /\ \A i \in DOMAIN es : ~Forbidden(es[i]) /\ ~(es[i].at = 0 /\ es[i].name \in Range(enums))
    /\ \A i, j \in DOMAIN es : i < j => ~ForbiddenPair(es, i, j)
    /\ \A i, j \in DOMAIN enums : i < j => enums[i] # enums[j]
    /\ \A k \in Uses : IF Referent(es, k) = 0 THEN Enumerated(k)
                        ELSE es[Referent(es, k)].store # "typedef"

\* What C leaves undefined, or diagnoses only where it is linked: no claim.
Undefined(es) ==
    \/ \E i, j \in DOMAIN es :
         Linked(es, i, j) /\ es[i].at # es[j].at
           /\ (Linkage(es, i) # Linkage(es, j) \/ ~type_cmp(es[i].ty, es[j].ty, TRUE))
    \/ \E i \in DOMAIN es :
         \/ es[i].at = 0 /\ es[i].store = "static" /\ ~type_is_complete(es[i].ty)
         \/ es[i].inline /\ \A j \in DOMAIN es : Linked(es, i, j) => ~es[j].body

Defs(name) == SelectSeq(out, LAMBDA s : s.name = name /\ s.at = 0)

UsedName(es, name) ==
    \E k \in Uses : unit[k].use = name /\ Referent(es, k) # 0 /\ Linkage(es, Referent(es, k)) # "none"

\* The definition C requires of a name: "none", "one", or "any" where the
\* unit cannot tell (an internal name it never uses).
Required(es, name) ==
    LET all == {i \in DOMAIN es : es[i].name = name /\ Linkage(es, i) # "none"}
        file == {i \in all : es[i].at = 0}
        internal == \E i \in all : Linkage(es, i) = "internal"
        body == \E i \in all : es[i].body
        tentative == \E i \in file : ~IsFunc(es[i].ty) /\ (es[i].store # "extern" \/ es[i].init)
        onlyInline == \A i \in file : es[i].inline /\ es[i].store # "extern"
    IN  CASE ~body /\ ~tentative -> "none"
          [] internal -> IF UsedName(es, name) THEN "one" ELSE "any"
          [] body /\ onlyInline -> "none"
          [] OTHER -> "one"

CompositeSize(es, name) ==
    LET sizes == {es[i].ty.d[1].n : i \in {j \in DOMAIN es : es[j].name = name /\ es[j].at = 0 /\ Kind(es[j].ty) = "array"}} \ {0}
    IN  IF sizes = {} THEN 1 ELSE CHOOSE n \in sizes : TRUE
-----------------------------------------------------------------------------
\* Where cc1 is known to differ, each case by itself.

Objects(es, name) == {i \in DOMAIN es : es[i].name = name /\ es[i].at = 0 /\ Kind(es[i].ty) = "array"}
Size(d) == d.ty.d[1].n

\* An int beside long is forgotten: a second int, or double, is accepted.
IntForgotten ==
    \E k \in DOMAIN unit : \E x \in Range(unit[k].decls) :
        Count(x.specs, "int") > 1 \/ {"int", "long", "double"} \subseteq Range(x.specs)

\* A sign after a typedef name: an error is printed, and no more.
SignedTypedef ==
    \E k \in DOMAIN unit : \E x \in Range(unit[k].decls) :
        \E i, j \in DOMAIN x.specs : i < j /\ IsIdent(x.specs[i]) /\ x.specs[j] \in Signs

\* A complete array declared again after its initialiser: rejected.
ArrayAfterInit(es) ==
    \E n \in Names : \E i, j, k \in Objects(es, n) :
        i < j /\ j <= k /\ es[i].init /\ Size(es[j]) # 0 /\ es[k].store # "extern"

\* An extern declaration gives the size of a tentative array: it is not seen
\* when it comes last, and may take the default initialiser, which is then
\* not written, when it comes first.
SizedByExtern(es) ==
    \E n \in Names : \E i, k \in Objects(es, n) :
        /\ es[i].store = "extern" /\ ~es[i].init /\ Size(es[i]) # 0
        /\ es[k].store # "extern" /\ ~es[k].init /\ Size(es[k]) = 0

\* Types are compared only between neighbours: an array without a size or a
\* function without parameters between two others parts them.
TypesApart(es) ==
    \E i, j, k \in DOMAIN es :
        /\ es[i].name = es[j].name /\ es[j].name = es[k].name
        /\ type_cmp(es[i].ty, es[j].ty, TRUE) /\ type_cmp(es[j].ty, es[k].ty, TRUE)
        /\ ~type_cmp(es[i].ty, es[k].ty, TRUE)

\* A block that uses an internal name through a declaration of its own is
\* not seen once anything else of that name is declared.
UseForgotten(es) ==
    \E i, j \in DOMAIN es :
        i < j /\ es[i].name = es[j].name /\ es[i].at # 0 /\ Linkage(es, i) = "internal"

\* A block's declaration of a static function is rejected; a block's
\* declaration of anything with the name of an inline function has the
\* function written.
BlockFunction(es) ==
    \E i, j \in DOMAIN es :
        /\ es[i].name = es[j].name /\ es[i].at # 0 /\ es[j].at = 0
        /\ es[j].inline \/ (IsFunc(es[i].ty) /\ es[j].store = "static")

\* Two objects of one block, each auto or register, pass for typedefs.
TakenForTypedefs(es) ==
    \E i, j \in DOMAIN es :
        /\ i # j /\ es[i].name = es[j].name /\ es[i].at = es[j].at /\ es[i].at # 0
        /\ {es[i].store, es[j].store} \subseteq {"auto", "register"}

\* A declaration of nothing (`int;') is diagnosed, by a warning.
DeclaresNothing(es) == \E i \in DOMAIN es : es[i].name = ""

Deviates(es) == \/ IntForgotten \/ SignedTypedef \/ ArrayAfterInit(es) \/ SizedByExtern(es)
                \/ TypesApart(es) \/ UseForgotten(es) \/ BlockFunction(es)
                \/ TakenForTypedefs(es) \/ DeclaresNothing(es)

Judged(es) == phase = "done" /\ ~Undefined(es) /\ ~Deviates(es)


SameType(s, t) ==
    \/ s = t
    \/ /\ s.d # <<>> /\ t.d # <<>>
       /\ s = [t EXCEPT !.d[1].n = IF @ = 0 THEN s.d[1].n ELSE @, !.d[1].a.style = s.d[1].a.style]

\* Every name of an accepted unit has the type its declaration's syntax says
\* (parse_btype, parsed_type_ptr), whatever else the typedef names in it are
\* at that point declared as.
TypedAsC ==
    LET AsIn(es) == Judged(es) /\ ~err =>
                      /\ Len(decls) = Len(es)
                      /\ \A i \in DOMAIN es : decls[i].name = es[i].name /\ SameType(decls[i].ty, es[i].ty)
    IN  AsIn(Entries)

AsRequired(es, n, defs, need) ==
    /\ Len(defs) \in CASE need = "none" -> {0} [] need = "one" -> {1} [] need = "any" -> {0, 1}
    /\ \A k \in DOMAIN defs :
         /\ defs[k].global = (\E i \in DOMAIN es : es[i].name = n /\ es[i].at = 0 /\ Linkage(es, i) = "external")
         /\ Objects(es, n) # {} => defs[k].n = CompositeSize(es, n)
\* gen_asm writes exactly the definitions C requires of an accepted unit:
\* one of each object and function the unit defines, however often and in
\* whichever order it is declared, with the linkage its first declaration
\* gave it, the size all of its declarations give together, and none of a
\* function that is only inline.
DefinedAsC ==
    LET AsIn(es) == Judged(es) /\ ~err => \A n \in Names : AsRequired(es, n, Defs(n), Required(es, n))
    IN  AsIn(Entries)
=============================================================================

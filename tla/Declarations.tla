---------------------------- MODULE Declarations ----------------------------
(***************************************************************************)
(* The declarations of one translation unit, from parse_and_fold to        *)
(* gen_asm: each is parsed, linked to the previous declaration of its name *)
(* (link_to_previous_decl), checked and folded; at the end of the unit     *)
(* clashes are looked for (symtab_fold_decls) and tentative definitions    *)
(* merged (fold_merge_tenatives); then every declaration is written, as a  *)
(* definition or as nothing (gen_asm_global_w_store).                      *)
(*                                                                         *)
(* An item of the unit is a declaration at file scope, an enumerator, or a *)
(* function g whose block declares something and may then use a name.      *)
(* Families[f] gives the items a unit of family f may begin with, those it *)
(* goes on with and how many of them it has at most.                       *)
(***************************************************************************)
EXTENDS DeclSyntax, SequencesExt

CONSTANT Families

VARIABLES
    family,  \* the family the unit is drawn from
    unit,    \* the items read so far
    decls,   \* every declaration with a name, in the order of the unit
    enums,   \* the enumerators of file scope
    err,     \* parse_had_error or fold_had_error, or die_at
    phase,   \* "parse", "emit" or "done"
    pos,     \* the next declaration to write
    out      \* the symbols written

vars == <<family, unit, decls, enums, err, phase, pos, out>>

-----------------------------------------------------------------------------
\* The source text of a declarator.

RECURSIVE Written(_), WrittenParams(_)
Written(d) ==
    CASE d.k = "id"    -> <<d.name>>
      [] d.k = "abs"   -> <<>>
      [] d.k = "paren" -> <<"(">> \o Written(d.d) \o <<")">>
      [] d.k = "ptr"   -> <<"*">> \o SetToSeq(d.q) \o Written(d.d)
      [] d.k = "arr"   -> Written(d.d) \o <<"[">> \o (IF d.n = 0 THEN <<>> ELSE <<ToString(d.n)>>) \o <<"]">>
      [] d.k = "fun"   -> Written(d.d) \o <<"(">> \o WrittenParams(d.ps) \o <<")">>

WrittenParams(ps) ==
    IF ps = <<>> THEN <<>>
    ELSE ps[1].specs \o Written(ps[1].tree)
         \o (IF Len(ps) = 1 THEN <<>> ELSE <<",">> \o WrittenParams(Tail(ps)))

Text(x) == x.specs \o Written(x.tree)

RECURSIVE NameOf(_)
NameOf(d) == CASE d.k = "id" -> d.name [] d.k = "abs" -> "" [] OTHER -> NameOf(d.d)

-----------------------------------------------------------------------------
\* The symbol table: file scope is 0, block k is the body of the k-th item.

Named(ds, at, name) == {i \in DOMAIN ds : ds[i].at = at /\ ds[i].name = name}
Latest(S) == IF S = {} THEN 0 ELSE CHOOSE i \in S : \A j \in S : j <= i

\* The most recent declaration of the name in the scope, or else outside it.
symtab_search(ds, at, name) ==
    IF Named(ds, at, name) # {} THEN Latest(Named(ds, at, name))
    ELSE Latest(Named(ds, 0, name))

Names == {NameOf(x.tree) : x \in UNION {UNION {Range(i.decls) : i \in f.first \cup f.items} : f \in Range(Families)}}
         \cup {"T", "x", "a"}

Env(ds, at) ==
    [n \in Names |-> LET i == symtab_search(ds, at, n)
                     IN  IF i = 0 THEN [tdef |-> FALSE, ty |-> BaseType("int")]
                         ELSE [tdef |-> ds[i].store = "typedef", ty |-> ds[i].ty]]

decl_proto(ds, i) ==
    LET RECURSIVE up(_)
        up(j) == IF ds[j].proto = 0 THEN j ELSE up(ds[j].proto)
    IN  up(i)

\* The declarations a walk over the links d->proto, or d->impl, visits from d.
Chain(ds, i, link) ==
    LET RECURSIVE walk(_)
        walk(j) == IF j = 0 THEN <<>> ELSE <<j>> \o walk(ds[j][link])
    IN  walk(i)
Clones(ds, i) == Range(Chain(ds, i, "proto")) \cup Range(Chain(ds, i, "impl"))

decl_linkage(ds, i) ==
    LET st == ds[decl_proto(ds, i)].store
    IN  CASE st = "extern" -> "external"
          [] st = "static" -> "internal"
          [] st \in {"register", "auto", "typedef"} -> "none"
          [] OTHER -> IF ds[i].sym = "global" THEN "external" ELSE "none"

decl_is_pure_inline(ds, i) ==
    \A j \in Clones(ds, i) : ds[j].inline /\ ds[j].store = "none"

decl_unused_and_internal(ds, i) ==
    /\ \A j \in Clones(ds, i) : ~ds[j].used
    /\ decl_linkage(ds, i) # "external"

decl_should_emit_code(ds, i) ==
    ds[i].code /\ ~decl_is_pure_inline(ds, i) /\ ~decl_unused_and_internal(ds, i)

decl_should_emit_var(ds, i) == ~decl_unused_and_internal(ds, i)

decl_cmp(ds, i, j) ==
    /\ type_cmp(ds[i].ty, ds[j].ty, FALSE)
    /\ ds[i].store = ds[j].store \/ {ds[i].store, ds[j].store} \cap {"typedef", "static"} = {}

-----------------------------------------------------------------------------
\* Linking a declaration to the previous one.  A state of the parser is
\* [ds, err, die]; each step below may only add to err and die.

Err(s, c) == [s EXCEPT !.err = @ \/ c]
Die(s, c) == [s EXCEPT !.die = @ \/ c]

check_function_storage_redef(s, i, p) ==
    Err(s, s.ds[decl_proto(s.ds, p)].store # "static" /\ s.ds[i].store = "static")


check_var_storage_redef(s, i, p) ==
    LET first == s.ds[decl_proto(s.ds, p)].store = "static"
    IN  Err(s, \/ s.ds[i].store = "none" /\ first
               \/ s.ds[i].store = "static" /\ ~first)

\* f(void) before f() makes the second f(void), unless f has its body.
decl_pull_to_func(s, i, p) ==
    LET t == check_function_storage_redef(s, i, p)
        late == s.ds[p].code /\ ~s.ds[p].inline
    IN  IF late \/ s.ds[p].ty.d[1].a.style # "void" \/ s.ds[i].ty.d[1].a.list # <<>> THEN t
        ELSE [t EXCEPT !.ds[i].ty.d[1].a.style = "void"]

link_to_previous_decl(s, i, at) ==
    LET d == s.ds[i]
        p == symtab_search([s.ds EXCEPT ![i].name = ""], at, d.name)
        linked == [s EXCEPT !.ds[i].proto = p, !.ds[p].impl = i]
        alone  == [s EXCEPT !.ds[p].impl = i]
        fns == {IsFunc(d.ty), IsFunc(s.ds[p].ty)}
    IN  IF p = 0 THEN s
        ELSE CASE fns = {TRUE}  -> decl_pull_to_func(linked, i, p)
               [] fns = {FALSE} /\ s.ds[p].at = at -> check_var_storage_redef(linked, i, p)
               [] OTHER         -> alone

-----------------------------------------------------------------------------
\* Folding a declaration.

fold_decl_add_sym(s, i) ==
    LET d == s.ds[i]
        global == d.at = 0 \/ d.store \in {"static", "extern"} \/ IsFunc(d.ty)
    IN  IF d.store = "typedef" THEN s
        ELSE [s EXCEPT !.ds[i].sym = IF global THEN "global" ELSE "local"]

fold_decl_func(s, i) ==
    LET d == s.ds[i]
    IN  Die(Err(s, d.store \in {"register", "auto"}),
            d.at # 0 /\ (d.code \/ d.store = "static"))

\* An initialised extern of file scope is a definition and loses its extern;
\* an initialiser completes an array (to the one element it has here).
fold_decl_var_dinit(s, i) ==
    LET d == s.ds[i]
        stays == d.store # "extern" \/ d.at # 0
        ty == IF Kind(d.ty) = "array" /\ d.ty.d[1].n = 0
              THEN [d.ty EXCEPT !.d[1].n = 1] ELSE d.ty
    IN  IF ~d.init THEN s
        ELSE Die(Err([s EXCEPT !.ds[i].store = IF stays THEN @ ELSE "none", !.ds[i].ty = ty],
                     d.store = "typedef"),
                 d.store = "extern" /\ d.at # 0)

fold_decl_var(s, i) == fold_decl_var_dinit(Err(s, s.ds[i].inline), i)

fold_decl_maybe_member(s, i) ==
    LET t == fold_decl_add_sym(s, i)
    IN  IF IsFunc(s.ds[i].ty) THEN fold_decl_func(t, i) ELSE fold_decl_var(t, i)

fold_check_decl_complete(s, i) ==
    LET d == s.ds[i]
    IN  Err(s, d.store \notin {"typedef", "extern"} /\ ~type_is_complete(d.ty))

fold_decl_global(s, i) == Err(s, s.ds[i].store \in {"auto", "register"})

parse_post_func(s, i) == Err(s, s.ds[i].code /\ s.ds[i].store = "typedef")

NewDecl(x, p, b, at) ==
    [name |-> p.name, store |-> b.store, inline |-> b.inline, ty |-> p.ty,
     init |-> x.init, gen |-> FALSE, code |-> x.body, proto |-> 0, impl |-> 0,
     used |-> FALSE, at |-> at, sym |-> "none", merged |-> FALSE]

\* A declaration without a name is warned about and leaves nothing behind,
\* unless it has a function's type or specifiers no object may have.
warn_for_unused_typename(s, b, p, at) ==
    Err(s, IsFunc(p.ty) \/ b.inline \/ (at = 0 /\ b.store \in {"auto", "register"}))

\* One declaration, in the scope given: parsed, added, linked and folded.
Folded(s, i, at) ==
    IF at = 0 THEN fold_decl_global(fold_decl_maybe_member(s, i), i) ELSE fold_check_decl_complete(fold_decl_maybe_member(s, i), i)
LinkedAndFolded(s, i, at) == Folded(parse_post_func(link_to_previous_decl(s, i, at), i), i, at)
Taken(s, x, b, p, at, env) ==
    IF b.die \/ ~p.ok \/ (at # 0 /\ ~parse_at_decl(Text(x), env)) THEN [s EXCEPT !.die = TRUE]
    ELSE IF p.name = "" THEN warn_for_unused_typename(Err(s, b.err \/ ~fold_type_w_attr(p.ty)), b, p, at)
    ELSE LinkedAndFolded([s EXCEPT !.ds = Append(@, NewDecl(x, p, b, at)), !.err = @ \/ b.err \/ ~fold_type_w_attr(p.ty)],
                         Len(s.ds) + 1, at)
Declarator(s, x, b, at, env) == Taken(s, x, b, parse_decl_stored_aligned(b, env), at, env)
Declaration(s, x, at, env) == Declarator(s, x, parse_btype(Text(x), env), at, env)
parse_decl_group(s, x, at) == IF s.die THEN s ELSE Declaration(s, x, at, Env(s.ds, at))

\* A block-scope function must agree, storage included, with the function or
\* the external object it hides (objects are only looked at for -Wshadow).
fold_shadow_dup_check_block_decls(s, at) ==
    LET Hides(i, o) == \/ IsFunc(s.ds[o].ty)
                       \/ {decl_linkage(s.ds, i), decl_linkage(s.ds, o)} = {"external"}
    IN  Err(s, \E i \in DOMAIN s.ds :
                 LET o == Latest(Named(s.ds, 0, s.ds[i].name))
                 IN  /\ s.ds[i].at = at /\ IsFunc(s.ds[i].ty)
                     /\ o # 0 /\ Hides(i, o)
                     /\ ~decl_cmp(s.ds, i, o))

\* An identifier in an expression is an enumerator or marks the declaration
\* it finds as used.
decl_use(s, at, name) ==
    LET i == symtab_search(s.ds, at, name)
    IN  IF i = 0 THEN Err(s, name \notin Range(enums))
        ELSE IF s.ds[i].store = "typedef" THEN Err(s, TRUE)
        ELSE [s EXCEPT !.ds[i].used = TRUE]

\* cc1 goes on reading after an error, but the unit is refused whatever
\* follows, so the model reads no more of it.
Running == phase = "parse" /\ ~err

ItemScope(item) == IF item.at = "block" THEN Len(unit) + 1 ELSE 0
Used(s, item, at) == IF s.die \/ item.use = "" THEN s ELSE decl_use(s, at, item.use)
Checked(s, at) == IF at = 0 \/ s.die THEN s ELSE fold_shadow_dup_check_block_decls(s, at)
AllDecls(item, at) ==
    FoldLeft(LAMBDA s, x : parse_decl_group(s, x, at), [ds |-> decls, err |-> FALSE, die |-> FALSE], item.decls)
ParsedTo(s) ==
    /\ decls' = s.ds
    /\ err' = (s.err \/ s.die)
    /\ phase' = IF s.die THEN "done" ELSE phase

\* The next item of the unit is read.
Read(item) ==
    /\ Running
    /\ Len(unit) < Families[family].max
    /\ unit' = Append(unit, item)
    /\ ParsedTo(Used(Checked(AllDecls(item, ItemScope(item)), ItemScope(item)), item, ItemScope(item)))
    /\ enums' = IF item.at = "enum" THEN Append(enums, item.name) ELSE enums
    /\ UNCHANGED <<family, pos, out>>

-----------------------------------------------------------------------------
\* The end of the unit.

\* The declarations of a name in a scope, in the order ident_loc_cmp sorts
\* them: functions with a body last, and before that f(...) before f().
SortedIdents(ds, at, name) ==
    LET rank(i) == IF ~IsFunc(ds[i].ty) THEN 0
                   ELSE (IF ds[i].code THEN 2 ELSE 0)
                        + (IF FUNCARGS_EMPTY_NOVOID(ds[i].ty.d[1].a) THEN 1 ELSE 0)
    IN  SetToSortSeq(Named(ds, at, name),
                     LAMBDA i, j : rank(i) < rank(j) \/ (rank(i) = rank(j) /\ i < j))

\* The storages that share a bit with store_typedef (5): store_auto (1),
\* store_register (4) and store_typedef itself.
LikeTypedef == {"auto", "register", "typedef"}

\* Two neighbours of that order that may not stand together.
Clash(ds, at, i, j) ==
    LET a == ds[i]  b == ds[j]
        ext == {a.store = "extern", b.store = "extern"}
    IN  \/ (a.store = "typedef") # (b.store = "typedef")
        \/ IsFunc(a.ty) # IsFunc(b.ty)
        \/ ~type_cmp(a.ty, b.ty, TRUE)
        \/ at # 0 /\ (\/ ext = {TRUE, FALSE}
                      \/ ext = {FALSE} /\ ~({a.store, b.store} \subseteq LikeTypedef) /\ ~IsFunc(a.ty))
        \/ at = 0 /\ IsFunc(a.ty) /\ a.code /\ b.code

symtab_fold_decls ==
    \A at \in 0..Len(unit), name \in Names :
        LET s == SortedIdents(decls, at, name)
            e == Len(SelectSeq(enums, LAMBDA n : n = name))
        IN  /\ \A k \in 1..Len(s) - 1 : ~Clash(decls, at, s[k], s[k + 1])
            /\ at = 0 => e = 0 \/ (e = 1 /\ s = <<>>)

decl_default_init(d) ==
    [d EXCEPT !.init = TRUE, !.gen = TRUE,
              !.ty = IF Kind(d.ty) = "array" /\ d.ty.d[1].n = 0
                     THEN [d.ty EXCEPT !.d[1].n = 1] ELSE d.ty]

\* The walk up the chain of one object: the first explicit initialiser, or
\* else complete array, is its definition; a second one is an error.
MergeChain(s, i) ==
    FoldLeft(LAMBDA t, j :
               LET d == t.ds[j]
                   m == [t EXCEPT !.ds[j].merged = TRUE]
               IN  IF d.init THEN [m EXCEPT !.err = @ \/ t.found, !.found = TRUE]
                   ELSE IF ~t.found /\ Kind(d.ty) = "array" /\ type_is_complete(d.ty)
                   THEN [m EXCEPT !.ds[j] = decl_default_init(@), !.found = TRUE]
                   ELSE m,
             [ds |-> s.ds, err |-> s.err, found |-> FALSE],
             Chain(s.ds, i, "proto"))

\* A possible bug: the last declaration gets a default initialiser whether or
\* not another one of its name has an initialiser.
MergeOne_Always(s, i) ==
    LET d == s.ds[i]
        t == MergeChain(s, i)
    IN  IF d.at # 0 \/ d.merged \/ IsFunc(d.ty) \/ d.store \in {"typedef", "extern"} THEN s
        ELSE [ds |-> [t.ds EXCEPT ![i] = decl_default_init(@)], err |-> t.err]

MergeOne(s, i) ==
    LET d == s.ds[i]
        t == MergeChain(s, i)
    IN  IF d.at # 0 \/ d.merged \/ IsFunc(d.ty) \/ d.store \in {"typedef", "extern"} THEN s
        ELSE [ds |-> IF t.found THEN t.ds ELSE [t.ds EXCEPT ![i] = decl_default_init(@)],
              err |-> t.err]

fold_merge_tenatives(ds) ==
    FoldLeft(LAMBDA s, k : MergeOne(s, Len(ds) + 1 - k), [ds |-> ds, err |-> FALSE],
             [k \in DOMAIN ds |-> k])

EndOfUnit ==
    LET m == fold_merge_tenatives(decls)
    IN  /\ phase = "parse"
        /\ unit # <<>>
        /\ err' = (err \/ ~symtab_fold_decls \/ m.err)
        /\ decls' = m.ds
        /\ phase' = IF err' THEN "done" ELSE "emit"
        /\ pos' = 1
        /\ UNCHANGED <<family, unit, enums, out>>

-----------------------------------------------------------------------------
\* Writing the declarations.

Symbol(ds, i) ==
    [name |-> ds[i].name, at |-> ds[i].at, fn |-> IsFunc(ds[i].ty),
     global |-> decl_linkage(ds, i) = "external",
     n |-> IF Kind(ds[i].ty) = "array" THEN ds[i].ty.d[1].n ELSE 0]

\* asm_declare_decl_init writes nothing for an object that is still extern.
asm_declare_decl_init(ds, i) == IF ds[i].store = "extern" THEN <<>> ELSE <<Symbol(ds, i)>>

gen_asm_global_w_store(ds, i, emit_tenatives) ==
    IF ds[i].store = "typedef" THEN <<>>
    ELSE IF IsFunc(ds[i].ty)
    THEN IF decl_should_emit_code(ds, i) THEN <<Symbol(ds, i)>> ELSE <<>>
    ELSE IF (~emit_tenatives /\ ~ds[i].init) \/ ~decl_should_emit_var(ds, i) THEN <<>>
    ELSE asm_declare_decl_init(ds, i)

\* The declarations of a block that are not automatic are written when the
\* function they are in is.
gen_block_decls(ds, i) ==
    IF IsFunc(ds[i].ty)
    THEN IF ds[i].proto = 0 THEN gen_asm_global_w_store(ds, i, TRUE) ELSE <<>>
    ELSE IF ds[i].store \in {"static", "extern"}
    THEN gen_asm_global_w_store(ds, i, ds[i].store # "extern")
    ELSE <<>>

gen_asm ==
    /\ phase = "emit"
    /\ pos <= Len(decls)
    /\ out' = out \o (IF decls[pos].at = 0 THEN gen_asm_global_w_store(decls, pos, FALSE)
                                           ELSE gen_block_decls(decls, pos))
    /\ pos' = pos + 1
    /\ UNCHANGED <<family, unit, decls, enums, err, phase>>

Finish ==
    /\ phase = "emit"
    /\ pos > Len(decls)
    /\ phase' = "done"
    /\ UNCHANGED <<family, unit, decls, enums, err, pos, out>>

Init ==
    /\ family \in DOMAIN Families
    /\ unit = <<>> /\ decls = <<>> /\ enums = <<>> /\ out = <<>>
    /\ err = FALSE /\ phase = "parse" /\ pos = 0

Items == IF unit = <<>> THEN Families[family].first ELSE Families[family].items

Next == \/ \E item \in Items : Read(item)
        \/ EndOfUnit
        \/ gen_asm
        \/ Finish

Spec == Init /\ [][Next]_vars
=============================================================================

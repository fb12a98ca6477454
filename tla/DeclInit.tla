------------------------------- MODULE DeclInit -------------------------------
(***************************************************************************)
(* Initialisers: parse_init.c and decl_init.c.  An initialiser is parsed   *)
(* into a tree of braces, then "braced up": walked together with the type, *)
(* so that afterwards each aggregate has a brace with one entry for each   *)
(* of its members; and last turned into assignments.                       *)
(*                                                                         *)
(* The elements left to walk, init_iter, are a sequence; die says how the  *)
(* compilation ended, if it did: by an error the program deserves, by one  *)
(* that stands for what cc1 cannot do, or by a crash.                      *)
(***************************************************************************)
EXTENDS Integers, Sequences, SequencesExt, FiniteSetsExt

\* Types.  A member with no spelling is an anonymous record, or padding (an
\* anonymous bit-field) when it is a scalar.  len is Incomplete for t[].
Incomplete == -1
Type(k, of, mems, len) == [k |-> k, of |-> of, mems |-> mems, len |-> len]
IntType == Type("int", <<>>, <<>>, 0)
CharType == Type("char", <<>>, <<>>, 0)
Array(t, n) == Type("array", <<t>>, <<>>, n)
Record(k, mems) == Type(k, <<>>, mems, 0)
Member(spel, t) == [spel |-> spel, t |-> t]
IsRecord(t) == t.k \in {"struct", "union"}
IsScalar(t) == t.k \in {"int", "char"}
IsPadding(m) == m.spel = "" /\ ~IsRecord(m.t)

\* decl_init: e is the expression of a scalar, d the designators left on it;
\* own says that a copy points into the range_store of the brace being made.
Dinit(k, e, inits) == [k |-> k, e |-> e, inits |-> inits, d |-> <<>>, own |-> TRUE]
Expr(k, t, v, const) == [k |-> k, t |-> t, v |-> v, const |-> const]
Number(n) == Expr("val", IntType, n, TRUE)
Scalar(e) == Dinit("scalar", e, <<>>)
Brace(inits) == Dinit("brace", Number(0), inits)
Null == Dinit("null", Number(0), <<>>)
Copy(of) == Dinit("copy", Number(0), <<of>>)
IsBrace(di) == di.k = "brace"
EntriesOf(di) == IF di = Null THEN <<>> ELSE di.inits

(***************************************************************************)
(* parse_init: tokens are "{", "}", ",", "=", designators and expressions. *)
(***************************************************************************)
Tok(k, x) == [k |-> k, x |-> x]
Desig(k, m, i, j) == [k |-> k, m |-> m, i |-> i, j |-> j]
DesigRun(toks) == SelectInSeq(Append(toks, Tok("end", <<>>)), LAMBDA t: t.k # "desig") - 1

RECURSIVE parse_init(_), ParseElements(_, _)
parse_init(toks) ==
  IF toks[1].k # "{" THEN [di |-> Scalar(toks[1].x), rest |-> Tail(toks)]
  ELSE LET r == ParseElements(Tail(toks), <<>>) IN [di |-> Brace(r.inits), rest |-> r.rest]
\* GNU's [i] needs no "=".
ParseElements(toks, done) ==
  IF toks[1].k = "}" THEN [inits |-> done, rest |-> Tail(toks)]
  ELSE LET n == DesigRun(toks)
           after == SubSeq(toks, n + 1, Len(toks))
           sub == parse_init(IF after[1].k = "=" THEN Tail(after) ELSE after)
           di == [sub.di EXCEPT !.d = [i \in 1..n |-> toks[i].x]]
       IN ParseElements(IF sub.rest[1].k = "," THEN Tail(sub.rest) ELSE sub.rest, Append(done, di))

(***************************************************************************)
(* Questions about initialisers.                                           *)
(***************************************************************************)
decl_init_is_struct_copy(di, t) ==
  /\ IsBrace(di) /\ Len(di.inits) = 1
  /\ di.inits[1].k = "scalar" /\ di.inits[1].e.t = t /\ IsRecord(t)

RECURSIVE decl_init_is_const(_), decl_init_is_zero(_)
decl_init_is_const(di) == IF di.k = "scalar" THEN di.e.const ELSE \A i \in DOMAIN di.inits: decl_init_is_const(di.inits[i])
decl_init_is_zero(di) ==
  IF di.k = "scalar" THEN di.e.const /\ di.e.k = "val" /\ di.e.v = 0
  ELSE di.k # "wild" /\ \A i \in DOMAIN di.inits: decl_init_is_zero(di.inits[i])
\* Asked of an aggregate copied from a compound literal it writes through a
\* null pointer.
IsConstCrashes(di, t) == decl_init_is_struct_copy(di, t) /\ di.inits[1].e.k = "compound_lit"

\* A copy of its own of what the range put there.
decl_init_resolve_copy(di) == IF di.k = "copy" THEN di.inits[1] ELSE di

dynarray_padinsert(s, i, x) ==
  [j \in 1..Max({Len(s), i}) |-> IF j = i THEN x ELSE IF j <= Len(s) THEN s[j] ELSE Null]
EntryAt(s, i) == IF i <= Len(s) THEN s[i] ELSE Null

\* The entries that point into another brace's store are moved by an offset
\* into this one's, and point nowhere from then on.
range_store_add(entries) ==
  [i \in DOMAIN entries |-> IF entries[i].k = "copy" /\ ~entries[i].own THEN [entries[i] EXCEPT !.k = "wild"] ELSE entries[i]]
Foreign(entries) == [i \in DOMAIN entries |-> IF entries[i].k = "copy" THEN [entries[i] EXCEPT !.own = FALSE] ELSE entries[i]]

(***************************************************************************)
(* Bracing up.  Each step returns what it made, what is left to walk, and  *)
(* whether the compiler stopped.                                           *)
(***************************************************************************)
Made(x, it) == [x |-> x, it |-> it, die |-> "no"]
Die(how) == [x |-> Null, it |-> <<>>, die |-> how]
Died(r) == r.die # "no"
WithoutDesig(it) == <<[it[1] EXCEPT !.d = Tail(@)]>> \o Tail(it)

RECURSIVE decl_init_brace_up_r(_, _, _, _), decl_init_brace_up_array2(_, _, _, _, _), decl_init_brace_up_sue2(_, _, _, _, _, _)

\* What is replaced, cur, is freed; inside a brace it is passed on and freed
\* a second time, which the allocator answers with abort().
decl_init_brace_up_scalar(cur, it, t) ==
  CASE it = <<>> -> Made(Scalar(Number(0)), it)
    [] it # <<>> /\ it[1].d # <<>> -> Die("error")
    [] it # <<>> /\ it[1].d = <<>> /\ IsBrace(it[1]) ->
         IF cur # Null THEN Die("crash")
         ELSE [decl_init_brace_up_r(cur, it[1].inits, t, FALSE) EXCEPT !.it = Tail(it)]
    [] OTHER -> IF it[1].e.t # IntType THEN Die("error") ELSE Made(it[1], Tail(it))

\* The element i (from 0) next: what was there, for the walk to update.
PartialReplace(cur, i, of) == ~IsScalar(of) /\ EntryAt(cur, i + 1) # Null

\* Elements from to to (from 0) are set to what r made.
RangeEntries(one, from, to, x) ==
  [j \in 1..Max({Len(one), to + 1}) |-> IF j \in from + 1..to + 1 THEN Copy(x) ELSE EntryAt(range_store_add(one), j)]
ArrayEntries(cur, from, to, x) ==
  IF from = to THEN dynarray_padinsert(cur, from + 1, x) ELSE RangeEntries(dynarray_padinsert(cur, from + 1, x), from, to, x)
ArrayNext(cur, r, from, to, of, limit) ==
  IF Died(r) THEN r ELSE decl_init_brace_up_array2(ArrayEntries(cur, from, to, r.x), r.it, to + 1, of, limit)
\* old is what was there, part whether it is updated rather than replaced.
ArrayUpdate(cur, it, from, to, of, limit, old, part) ==
  IF old.k = "wild" \/ (part /\ IsConstCrashes(old, of)) THEN Die("crash")
  ELSE IF part /\ (~decl_init_is_const(old) \/ from < to) THEN Die("unable")
  ELSE ArrayNext(cur, decl_init_brace_up_r(IF part THEN decl_init_resolve_copy(old) ELSE Null,
                                           IF it[1].d = <<>> THEN it ELSE WithoutDesig(it), of, TRUE),
                 from, to, of, limit)
ArrayRange(cur, it, from, to, of, limit) ==
  CASE it[1].d # <<>> /\ (it[1].d[1].k # "ar" \/ from < 0 \/ to < 0 \/ (limit # Incomplete /\ (from >= limit \/ to >= limit))) -> Die("error")
    [] it[1].d = <<>> /\ limit # Incomplete /\ from >= limit -> Made(cur, it)
    [] OTHER -> ArrayUpdate(cur, it, from, to, of, limit, EntryAt(cur, from + 1), PartialReplace(cur, from, of))
decl_init_brace_up_array2(cur, it, i, of, limit) ==
  CASE it = <<>> -> Made(cur, it)
    [] it # <<>> /\ it[1].d = <<>> -> ArrayRange(cur, it, i, i, of, limit)
    [] OTHER -> ArrayRange(cur, it, it[1].d[1].i, it[1].d[1].j, of, limit)

\* The member called spel, looked for in anonymous ones too; 0 if none.
RECURSIVE sue_member_find(_, _)
sue_member_find(mems, spel) ==
  SelectInSeq(mems, LAMBDA m: m.spel = spel \/ (m.spel = "" /\ IsRecord(m.t) /\ sue_member_find(m.t.mems, spel) # 0))
\* A possible bug: an aggregate without braces takes designated elements too.
find_desig_None(it) == 0
find_desig(it) == SelectInSeq(it, LAMBDA di: di.d # <<>>)

OwnStore(r) == IF Died(r) THEN r ELSE [r EXCEPT !.x = Foreign(@)]
\* The entries of an aggregate, from whichever elements are its own.
BraceUpEntries(cur, it, t, anon, copy, nested) ==
  IF t.k = "array" THEN OwnStore(decl_init_brace_up_array2(Foreign(cur), it, 0, t.of[1], t.len))
  ELSE IF copy /\ it[1].e.t = t THEN Made(dynarray_padinsert(cur, 1, it[1]), Tail(it))
  ELSE decl_init_brace_up_sue2(cur, it, 1, t, anon, nested)

\* A brace holds all of this aggregate's elements and no other's.  Without
\* one they are pulled from the list around, up to the next designator.
Braced(r, left) == IF Died(r) THEN r ELSE Made(Brace(r.x), left)
Pulled(r, left) == Braced(r, r.it \o left)
PullUpTo(next, cur, it, t, anon) ==
  Pulled(BraceUpEntries(EntriesOf(cur), IF next = 0 THEN it ELSE SubSeq(it, 1, next), t, anon, it[1].k = "scalar", TRUE),
         IF next = 0 THEN <<>> ELSE SubSeq(it, next + 1, Len(it)))
decl_init_brace_up_aggregate(cur, it, t, anon, nested) ==
  CASE ~IsBrace(it[1]) -> PullUpTo(find_desig(Tail(it)), cur, it, t, anon)
    [] IsBrace(it[1]) /\ it[1].inits = <<>> -> Made(Brace(<<Null>>), Tail(it))
    [] OTHER -> LET within == it[1].d = <<>>
                IN Braced(BraceUpEntries(IF within THEN <<>> ELSE EntriesOf(cur), IF within THEN it[1].inits ELSE <<it[1]>>,
                                         t, anon, FALSE, nested), Tail(it))

\* Designating into a member asks what its first entry is: one that has an
\* empty brace has only DYNARRAY_NULL there.
EmptiedMember(old, des) == Len(des) > 1 /\ IsBrace(old) /\ old.inits = <<Null>>
\* Designating into a member initialised as a whole forgets all of it.
DiscardedObject(old, it, des) == des # <<>> /\ Len(des) > 1 /\ \E t \in {old.inits[i].e.t: i \in DOMAIN old.inits}: decl_init_is_struct_copy(old, t)

SueNext(cur, r, j, t, anon, nested) ==
  CASE Died(r) -> r
    [] ~Died(r) /\ nested /\ t.mems[j].t.k = "array" /\ t.mems[j].t.len = Incomplete -> Die("error")
    [] ~Died(r) /\ t.k = "union" -> Made(dynarray_padinsert(cur, j, r.x), r.it)
    [] OTHER -> decl_init_brace_up_sue2(dynarray_padinsert(cur, j, r.x), r.it, j + 1, t, anon, nested)
\* The member j, of which old is known; one that is found in an anonymous record
\* keeps its designator.
SueEntry(old, it, mem) ==
  IF it[1].d # <<>> /\ mem.spel = "" THEN decl_init_brace_up_aggregate(old, it, mem.t, TRUE, TRUE)
  ELSE IF EmptiedMember(old, it[1].d) THEN Die("crash")
  ELSE decl_init_brace_up_r(IF DiscardedObject(old, it, it[1].d) THEN Null ELSE old,
                            IF it[1].d = <<>> THEN it ELSE WithoutDesig(it), mem.t, TRUE)
SueMember(cur, it, j, t, anon, nested) ==
  CASE j = 0 -> IF anon THEN Made(cur, it) ELSE Die("error")
    [] j > Len(t.mems) -> Made(cur, it)
    [] j \in DOMAIN t.mems /\ IsPadding(t.mems[j]) -> decl_init_brace_up_sue2(cur, it, j + 1, t, anon, nested)
    [] OTHER -> SueNext(cur, SueEntry(EntryAt(cur, j), it, t.mems[j]), j, t, anon, nested)
decl_init_brace_up_sue2(cur, it, i, t, anon, nested) ==
  CASE it = <<>> -> Made(cur, it)
    [] it # <<>> /\ it[1].d = <<>> -> SueMember(cur, it, i, t, anon, nested)
    [] it # <<>> /\ it[1].d # <<>> /\ it[1].d[1].k # "st" -> Die("error")
    [] OTHER -> SueMember(cur, it, sue_member_find(t.mems, it[1].d[1].m), t, anon, nested)

\* The string of "xyz" or { "xyz" }, for an array of characters.
is_char_init(t, it) ==
  IF t.of[1] # CharType \/ it = <<>> THEN <<>>
  ELSE LET di == IF IsBrace(it[1]) /\ Len(it[1].inits) = 1 THEN it[1].inits[1] ELSE it[1]
       IN IF di.k = "scalar" /\ di.e.k = "str" THEN <<di.e.v>> ELSE <<>>

decl_init_brace_up_array_chk_char(cur, it, t, nested) ==
  LET str == is_char_init(t, it)
      count == IF t.len = Incomplete THEN Len(str[1]) ELSE Min({Len(str[1]), t.len})
  IN IF str # <<>> THEN Made(Brace([c \in 1..count |-> Scalar(Number(str[1][c]))]), Tail(it))
     ELSE decl_init_brace_up_aggregate(cur, it, t, FALSE, nested)

decl_init_brace_up_r(cur, it, t, nested) ==
  CASE t.k = "array" -> decl_init_brace_up_array_chk_char(cur, it, t, nested)
    [] IsRecord(t) -> decl_init_brace_up_aggregate(cur, it, t, FALSE, nested)
    [] OTHER -> decl_init_brace_up_scalar(cur, it, t)

\* The whole initialiser; an incomplete array gets its length from it.
decl_init_brace_up_start(di, t) ==
  LET bad == di.k = "scalar" /\ (t.k = "array" \/ IsRecord(t)) /\ di.e.t # t /\ (t.k # "array" \/ is_char_init(t, <<di>>) = <<>>)
      Completed(r) == IF t.k = "array" /\ t.len = Incomplete /\ ~Died(r) THEN [t EXCEPT !.len = Len(r.x.inits)] ELSE t
      Up(r) == [die |-> IF bad THEN "error" ELSE r.die, di |-> r.x, t |-> Completed(r)]
  IN Up(decl_init_brace_up_r(Null, <<di>>, t, FALSE))

\* t[] takes the length of an earlier declaration, if that had one.
maybe_complete_array_from_prev(t, proto) ==
  IF t.k = "array" /\ t.len = Incomplete /\ proto.k = "array" /\ proto.len # Incomplete THEN proto ELSE t

decl_init_brace_up_fold(di, t, proto) == decl_init_brace_up_start(di, maybe_complete_array_from_prev(t, proto))

(***************************************************************************)
(* Assignments.  A path is the sequence of member numbers, from 1, that    *)
(* leads to a subobject.  first remembers where each entry of a range was  *)
(* first assigned; the others are copied from there.                       *)
(***************************************************************************)
Op(op, path, x) == [op |-> op, path |-> path, x |-> x]
SubType(t, i) == IF t.k = "array" THEN t.of[1] ELSE t.mems[i].t
SizeOf(t) == IF t.k = "array" THEN t.len ELSE Len(t.mems)

RECURSIVE decl_init_create_assignments_base(_, _, _, _), AssignEntries(_, _, _, _, _)
decl_init_create_assignment_from_copy(st, di, t, path) ==
  LET was == {f \in st.first: f.key = <<di.inits[1], t>>}
  IN IF was # {} THEN [st EXCEPT !.ops = Append(@, Op("memcpy", path, (CHOOSE f \in was: TRUE).path))]
     ELSE decl_init_create_assignments_base([st EXCEPT !.first = @ \cup {[key |-> <<di.inits[1], t>>, path |-> path]}], di.inits[1], t, path)

decl_init_create_assignments_base(st, di, t, path) ==
  IF di.k = "wild" THEN [st EXCEPT !.die = "crash"]
  ELSE IF decl_init_is_zero(di)
  THEN IF t.k = "array" /\ t.len = Incomplete THEN st ELSE [st EXCEPT !.ops = Append(@, Op("memset", path, <<>>))]
  ELSE IF di.k = "scalar" THEN IF di.e.t # IntType \/ ~IsScalar(t) THEN [st EXCEPT !.die = "error"] ELSE [st EXCEPT !.ops = Append(@, Op("assign", path, <<di.e.v>>))]
  ELSE IF decl_init_is_struct_copy(di, t) THEN [st EXCEPT !.ops = Append(@, Op("assign", path, <<di.inits[1].e.v>>))]
  ELSE IF t.k = "union"
  THEN LET i == SelectInSeq(di.inits, LAMBDA x: x # Null) IN decl_init_create_assignments_base(st, di.inits[i], SubType(t, i), Append(path, i))
  ELSE IF t.k = "array" /\ t.len = Incomplete THEN [st EXCEPT !.die = "error"]
  ELSE AssignEntries(st, di, t, path, 1)
AssignEntries(st, di, t, path, i) ==
  IF i > SizeOf(t) THEN st
  ELSE LET e == EntryAt(di.inits, i)
           st2 == IF t.k = "array" /\ e.k = "copy" THEN decl_init_create_assignment_from_copy(st, e, SubType(t, i), Append(path, i))
                  ELSE decl_init_create_assignments_base(st, e, SubType(t, i), Append(path, i))
       IN AssignEntries(st2, di, t, path, i + 1)

\* What is compiled for `T x = di;`.
decl_init_create_assignments(di, t) == decl_init_create_assignments_base([ops |-> <<>>, first |-> {}, die |-> "no"], di, t, <<>>)
===============================================================================

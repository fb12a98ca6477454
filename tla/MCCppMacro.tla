----------------------------- MODULE MCCppMacro -----------------------------
(***************************************************************************)
(* Macro tables and lines for CppMacro, and the expansion that the         *)
(* standard asks for, with which the result is compared.                   *)
(***************************************************************************)
EXTENDS CppMacro

\* A text as the standard sees it: each character with the macros whose
\* replacement it is part of.
Marked(s, by) == [i \in DOMAIN s |-> [c |-> s[i], by |-> by]]
AlsoMarked(t, by) == [i \in DOMAIN t |-> [t[i] EXCEPT !.by = @ \cup by]]
Chars(t) == [i \in DOMAIN t |-> t[i].c]
From(t, i) == SubSeq(t, i, Len(t))

RECURSIVE Expanded(_), Substituted(_, _, _, _, _)

\* The token of the replacement list at i: quoted, joined, or replaced by the
\* argument after all macros in it have been expanded.
Replacement(m, i, args, by) ==
  IF IsTok(m, i, "#") THEN Marked(str_quote(find_arg(m, m.val[i + 1].w, args)), by)
  ELSE IF IsTok(m, i + 1, "##") THEN Marked(Joined(m, i, args), by)
  ELSE IF IsTok(m, i, "word") /\ IsParam(m, m.val[i].w)
  THEN AlsoMarked(Expanded(Marked(find_arg(m, m.val[i].w, args), {})), by)
  ELSE Marked(m.val[i].w, by)
Width(m, i) ==
  IF IsTok(m, i, "#") THEN 2 ELSE IF IsTok(m, i, "word") THEN LastJoin(m, i) - i + 1 ELSE 1
Substituted(m, i, args, by, text) ==
  IF i > Len(m.val) THEN text
  ELSE Substituted(m, i + Width(m, i), args, by,
                   text \o (IF text # <<>> /\ m.val[i].ws THEN Marked(<<Space>>, by) ELSE <<>>)
                        \o Replacement(m, i, args, by))

Kept(t, w) == SubSeq(t, 1, w.after - 1) \o Expanded(From(t, w.after))
ExpandedWord(t, f, w, close) ==
  IF w.name \notin Names \/ w.name \in t[1].by \/ IsWide(f, w) THEN Kept(t, w)
  ELSE IF table[w.name].type = "MACRO"
  THEN Expanded(Marked(table[w.name].val, t[1].by \cup {w.name}) \o From(t, w.after))
  ELSE IF table[w.name].type = "HAS" \/ ~Called(f, w) THEN Kept(t, w)
  ELSE IF table[w.name].type = "BUILTIN"
  THEN Marked(has_func(table[w.name], CallArgs(f, w)[1]), {}) \o Expanded(From(t, close + 1))
  ELSE Expanded(Substituted(table[w.name], 1, CallArgs(f, w),
                            {w.name} \cup (t[1].by \cap t[close].by), <<>>)
                  \o From(t, close + 1))
StartsWith(t, f, w) == ExpandedWord(t, f, w, CloseB(f, w))
String(t, end) == SubSeq(t, 1, end) \o Expanded(From(t, end + 1))
Expanded(t) ==
  IF t = <<>> THEN <<>>
  ELSE IF IsWordPart(Chars(t), 1) THEN StartsWith(t, Fresh(Chars(t)), WordFrom(Chars(t), 1))
  ELSE IF t[1].c = Quote THEN String(t, str_quotefin2(Chars(t), 2))
  ELSE <<t[1]>> \o Expanded(Tail(t))

-----------------------------------------------------------------------------
(* Where the walk is known to go astray when eval_macro() returns.         *)

VARIABLE astray
Returning == Len(frames) > 1 /\ Caller.stage = "rescan" /\ Ended(Top, NextWord(Top))
\* What was behind the macro, and how long the line was that the second
\* expansion was given.
Behind(f, w) ==
  CASE table[f.m].type = "MACRO" -> w.after
    [] table[f.m].type = "HAS" \/ ~Called(f, w) -> w.first
    [] OTHER -> CloseB(f, w) + 1
Handed(f) == f.resume + Len(f.line) - Behind(f, WordFrom(f.line, f.word))
\* A function-like macro was left as it is, the walk goes on behind the first
\* letter of its name, and the rest of the name is that of a macro.
InsideWord ==
  /\ Caller.resume = Caller.word /\ IsWordPart(Top.line, Caller.resume + 1)
  /\ WordFrom(Top.line, Caller.resume + 1).name \in Names
\* The line became shorter: the walk goes on too far to the right in it.
TooFar == Len(Top.line) < Handed(Caller)

MCInit == Init /\ astray = {}
MCNext ==
  /\ Next
  /\ astray' = astray \cup {x \in {"inside", "too far"} :
                              Returning /\ (IF x = "inside" THEN InsideWord ELSE TooFar)}
MCSpec ==
  /\ MCInit /\ [][MCNext]_<<vars, astray>>
  /\ []<>(outcome # "running") \/ []<><<MCNext>>_<<vars, astray>>

\* The line comes out as the standard's expansion: arguments expanded first,
\* no macro expanded in its own replacement and every other one expanded,
\* for all that the code paints, walks and restores on the way; but for a walk
\* that went astray.
ExpandsAsStandard ==
  outcome = "done" /\ astray = {} => result = Chars(Expanded(Marked(source, {})))

\* The expansion ends, in a result or in a message about the source: it does
\* not go on for ever (a line past MaxLine is one that would), trip over its
\* own assertion, or walk off the end of a line that did not become shorter.
Completes == <>(outcome \in {"done", "die"} \/ (outcome = "wild" /\ "too far" \in astray))

-----------------------------------------------------------------------------
MCLetter == {"0", "1", "a", "b", "f", "g", "h", "p", "q", "v", "z", "L", "V"}

Obj(v) == [type |-> "MACRO", args |-> <<>>, val |-> v]
Fun(a, v) == [type |-> "FUNC", args |-> a, val |-> v]
Var(a, v) == [type |-> "VARIADIC", args |-> a, val |-> v]
W(w) == [tok |-> "word", w |-> <<w>>, ws |-> FALSE]
WS(w) == [tok |-> "word", w |-> <<w>>, ws |-> TRUE]
X(w) == [tok |-> "other", w |-> <<w>>, ws |-> FALSE]
Op(t) == [tok |-> t, w |-> <<>>, ws |-> FALSE]
P == <<<<"p">>>>

\* Two object-like and two function-like macros that use each other: never in
\* a circle, never to a text shorter than the one that names them, and no
\* call of a macro in an argument of the same macro.
CallsG == <<"g", "(", "b", ")">>
ThroughG == <<W("g"), X("("), W("p"), X(")")>>
Objects == {<<"z">>, <<"b">>, <<"z", " ", "b">>, <<"b", "+", "b">>, <<"f">>, CallsG}
Lists == {<<W("p")>>, <<W("z"), X("+"), WS("p")>>, <<W("b"), X(","), W("p")>>, ThroughG}
Nested ==
  {[table |-> (<<"a">> :> Obj(m[1]) @@ <<"b">> :> Obj(b) @@ <<"f">> :> Fun(P, m[2])
               @@ <<"g">> :> Fun(P, <<W("p"), X("+"), W("z"), X("+"), W("z")>>)), line |-> l] :
     m \in (Objects \X Lists) \ {<<CallsG, ThroughG>>},
     b \in {<<"z">>, <<"z", "+", "z">>},
     l \in {<<"a">>, <<"a", " ", "a">>, <<"b", "+", "a">>, <<"a", "(", "b", ")">>,
            <<"f", "(", "a", ")">>, <<"f", "(", "g", "(", "a", ")", ")">>,
            <<"f", "(", "g", "(", "b", ")", ")", " ", "a">>, <<"f", " ", "(", " ", "b", " ", ")">>,
            <<"f", " ", "a">>, <<"'", "a", "'", " ", "a">>, <<"f", "(", ")">>,
            <<"f", "(", "(", "a", ",", "b", ")", ")">>}}

\* One macro that names itself, used once.
Selfish ==
  {[table |-> (<<"a">> :> Obj(a) @@ <<"f">> :> Fun(P, <<W("z"), X("+"), W("p")>>)), line |-> l] :
     a \in {<<"a">>, <<"a", "+", "z">>, <<"z", "+", "a">>, <<"a", "(", "a", ")">>},
     l \in {<<"a">>, <<"z", " ", "a">>}}

\* The operators of replacement lists, and calls that are in error.
Operators ==
  {[table |-> (<<"b">> :> Obj(<<"z">>) @@ <<"f">> :> Fun(P, f)), line |-> l] :
     f \in {<<Op("#"), W("p")>>, <<W("p"), Op("##"), W("z")>>, <<W("z"), Op("##"), W("p"), Op("##"), W("z")>>,
            <<Op("#"), W("z")>>, <<Op("##"), W("p")>>, <<W("p"), Op("##")>>, <<W("b"), WS("b")>>},
     l \in {<<"f", "(", "b", ")">>, <<"f", "(", "b">>, <<"f", "(", "b", ",", "b", ")">>,
            <<"f", "(", "'", ",", "'", ")", " ", "b">>, <<"b", " ", "f">>}}

\* __VA_ARGS__, wide strings and __has_include.
Others ==
  {[table |-> (<<"v">> :> Var(P, v) @@ <<"b">> :> Obj(<<"z">>) @@ <<"L">> :> Obj(<<"z">>)
               @@ <<"h">> :> [type |-> "HAS", args |-> <<>>, val |-> <<>>]), line |-> l] :
     v \in {<<W("p"), X("+"), W("V")>>, <<W("V"), Op("##"), W("p")>>, <<Op("#"), W("V")>>},
     l \in {<<"v", "(", "b", ")">>, <<"v", "(", "b", ",", "z", ",", "b", ")">>, <<"v", "(", ")">>,
            <<"L", "'", "z", "'">>, <<"L", " ", "'", "b", "'">>, <<"h", "(", "b", ")">>, <<"h">>}}

\* Names of two letters, one of them the end of another.  No word follows a
\* call without a space: cpp makes one word of the two.
Longer ==
  {[table |-> (<<"f", "a">> :> Fun(P, <<W("p"), X("+"), W("z")>>) @@ <<"a", "b">> :> Obj(<<"z", "z">>)
               @@ <<"h", "b">> :> [type |-> "HAS", args |-> <<>>, val |-> <<>>] @@ t), line |-> l] :
     t \in {<<"a">> :> Obj(<<"z">>), <<"b">> :> Obj(<<"z">>), <<"z", "a">> :> Obj(<<"q">>)},
     l \in {<<"f", "a">>, <<"f", "a", "(", "a", ")">>, <<"f", "a", " ", "b">>, <<"f", "a", "(", "f", "a", ")">>,
            <<"h", "b", "(", "a", ")">>, <<"a", "b", " ", "f", "a", "+", "a", "b">>, <<"h", "b", " ", "a">>,
            <<"f", "a", "(", "a", "b", ")", "+", "a", "b">>}}

\* Replacements that are expanded to something shorter.
Shorter ==
  {[table |-> (<<"a">> :> Obj(<<"q", "q">>) @@ <<"q", "q">> :> Obj(q) @@ <<"b">> :> Obj(<<"z">>)), line |-> l] :
     q \in {<<>>, <<"z">>, <<"b", "z">>},
     l \in {<<"a">>, <<"a", " ", "a">>, <<"a", "+", "z", "+", "b">>, <<"q", "q", " ", "b">>, <<"b", "a">>}}

\* __has_feature() and its like.
Builtins ==
  {[table |-> (<<"h">> :> [type |-> "BUILTIN", args |-> <<<<"z">>>>, val |-> <<>>] @@ <<"b">> :> Obj(<<"z">>)), line |-> l] :
     l \in {<<"h", "(", "z", ")">>, <<"h", "(", "b", ")", "+", "b">>, <<"h", "(", ")">>, <<"h", "(", "z", ",", "z", ")">>,
            <<"h", " ", "b">>, <<"h", "(", "z">>, <<"b", "+", "h", "(", "z", ")", "h", "(", "z", ")">>}}

MCInputs == Nested \cup Selfish \cup Operators \cup Others \cup Longer \cup Shorter \cup Builtins
=============================================================================

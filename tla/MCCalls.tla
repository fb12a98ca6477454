------------------------------- MODULE MCCalls -------------------------------
(* Programs for Calls: one call each, within what the compiler supports.   *)
EXTENDS Calls

Rep(k, n) == [i \in 1..n |-> k]
\* Arguments that are all evaluated to w, or to w and v in turn.
InTurn(n, w, v) == [i \in 1..n |-> IF i % 2 = 1 THEN w ELSE v]
Patterns(n) == {InTurn(n, "reg", "reg"), InTurn(n, "mem", "reg"), InTurn(n, "imm", "mem")}
Plain(fp) == [fp |-> fp, members |-> <<>>]
Mem(fp, b) == [fp |-> fp, bytes |-> b]
Long == Mem(FALSE, 8)
Word4 == Mem(FALSE, 4)
Double == Mem(TRUE, 8)
Float == Mem(TRUE, 4)
Struct(ms) == [fp |-> FALSE, members |-> ms]
Big == Struct(<<Long, Double, Long>>)

Program(conv, named, more, variadic, ret, held, fn, args, vla, uses, leaf) ==
  [conv |-> conv, caller |-> "sysv", named |-> named, given |-> named \o more, decl |-> "prototype", variadic |-> variadic, ret |-> ret, held |-> held, fn |-> fn,
   args |-> args, locals |-> 2, vla |-> vla, uses |-> uses, leaf |-> leaf]

NamedLists == {Rep("i", 2), Rep("i", 5), Rep("i", 7), Rep("i", 8), Rep("f", 9), <<"f", "i", "f">>,
               Rep("i", 6) \o <<"f", "i">>, Rep("f", 8) \o <<"i", "f">>}
Held3 == {<<>>, <<"i">>, <<"i", "f", "i">>}
\* Frames: a variable-length array in scope, registers the callee uses, whether it calls.
Frames == {<<0, <<>>, TRUE>>, <<0, <<RBX, 10>>, FALSE>>, <<1, <<10>>, FALSE>>, <<3, <<>>, TRUE>>}
Named ==
  UNION {{Program("sysv", ks, <<>>, FALSE, Plain(FALSE), h, fn, as, f[1], f[2], f[3]) :
            as \in Patterns(Len(ks)), h \in Held3, fn \in {"imm", "reg"}, f \in Frames} : ks \in NamedLists}
\* Functions of each convention, called from one of sysv or of their own.
Uses(conv) == {<<>>} \cup (CASE conv = "ms" -> {<<RSI, 10>>} [] conv = "cdecl" -> {<<RBX, RDI>>} [] OTHER -> {})
Foreign(conv) ==
  UNION {{[Program(conv, ks, <<>>, FALSE, Plain(TRUE), h, "reg", as, vla, u, FALSE) EXCEPT !.caller = caller] :
            as \in Patterns(Len(ks)), h \in Held3, vla \in {0, 1}, u \in Uses(conv), caller \in {"sysv", conv}} :
         ks \in {Rep("i", 2), Rep("i", 5), Rep("i", 6), <<"i", "f", "i">>}}
Conventions == UNION {Foreign(conv) : conv \in {"ms", "cdecl", "stdcall", "fastcall"}}
Structures ==
  {Program("sysv", <<"i", "f">>, <<>>, FALSE, Struct(ms), h, fn, as, 0, u, FALSE) :
     ms \in {<<Long>>, <<Double>>, <<Long, Long>>, <<Double, Long>>, <<Long, Double>>, <<Double, Double>>,
             <<Float, Float, Double>>, <<Word4, Float, Double>>, <<Float, Word4, Long>>, <<Long, Word4>>},
     h \in Held3, fn \in {"reg", "imm"}, as \in Patterns(2), u \in {<<>>, <<RBX>>}}
Memcpy ==
  UNION {{Program("sysv", Rep("i", n), <<>>, FALSE, Big, h, fn, as, 0, u, FALSE) :
            h \in Held3, fn \in {"imm", "mem"}, as \in Patterns(n), u \in {<<>>, <<RBX>>}} : n \in {0, 2, 3}}
Variadic ==
  UNION {{Program("sysv", Rep("i", n), ks, TRUE, Plain(FALSE), h, fn, as, 0, u, FALSE) :
            h \in {<<>>, <<"f", "i">>}, fn \in {"reg", "imm"}, as \in Patterns(n + Len(ks)), u \in {<<>>, <<RBX>>}} :
         n \in {1, 3}, ks \in {<<>>, <<"i">>, <<"f", "i">>, Rep("i", 6), <<"i", "f", "i", "f">>, Rep("f", 8) \o <<"i">>}}
\* Calls that convert their arguments, promote them without a prototype, or have too few or too many.
Converting ==
  {[Program("sysv", <<"f", "i">>, <<>>, FALSE, Plain(FALSE), <<>>, fn, InTurn(Len(g), "reg", "mem"), 0, <<>>, FALSE) EXCEPT !.given = g] :
     fn \in {"imm", "reg"}, g \in {<<"i", "float">>, <<"i">>, Rep("i", 3)}}
Unprototyped ==
  {[Program("sysv", ks, <<>>, FALSE, Plain(FALSE), <<>>, fn, InTurn(Len(ks), "reg", "mem"), 0, <<>>, FALSE)
      EXCEPT !.decl = d, !.given = [i \in DOMAIN ks |-> IF ks[i] = "f" THEN "float" ELSE "i"]] :
     d \in {"()", "implicit"}, fn \in {"imm", "reg"}, ks \in {<<"f", "i">>, Rep("i", 7), <<"i", "f", "f">>}}
MCPrograms == Converting \cup Unprototyped \cup Named \cup Conventions \cup Structures \cup Memcpy \cup Variadic
==============================================================================

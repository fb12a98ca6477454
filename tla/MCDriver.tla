------------------------------- MODULE MCDriver -------------------------------
(* Driver on every command line of up to two options and two inputs.        *)
EXTENDS Driver

Opt(o) == [o |-> o, v |-> ""]
Val(o, v) == [o |-> o, v |-> v]

MCSplit ==
  [f \in {"a.c", "a.i", "a.s", "a.o", "b.S", "d.s", "d.h", "e.i", "f.o", "prog", "--", "-"} |->
     CASE f = "a.c" -> <<"a", "c">> [] f = "a.i" -> <<"a", "i">> [] f = "a.s" -> <<"a", "s">> [] f = "a.o" -> <<"a", "o">>
       [] f = "b.S" -> <<"b", "S">> [] f = "d.s" -> <<"d", "s">> [] f = "d.h" -> <<"d", "h">> [] f = "e.i" -> <<"e", "i">>
       [] f = "f.o" -> <<"f", "o">> [] OTHER -> <<f, "">>]

MCOneLetter == {"c", "i", "S", "s", "o", "a", "h"}
MCStale == {<<"out", "">>, <<"b", "o">>}

\* Options that change what is done, and options that are handed on.
Deciding == {Opt("-E"), Opt("-S"), Opt("-c"), Val("-o", "out"), Val("-o", "-"), Opt("-save-temps"), Opt("-###"),
             Opt("-fsyntax-only"), Opt("-emit"), Opt("-MD"), Val("-x", "c"), Val("-x", "assembler-with-cpp")}
Passing == {Val("-fpic", "off"), Val("-fpic", "pic"), Val("-fpic", "PIE"), Val("-fstack-protector", "on"),
            Val("-fstack-protector-all", "off"), Val("-fleading-underscore", "off"), Val("-W", "all"),
            Val("-Werror=", "both"), Val("-X", "as"), Val("-D", "x"), Opt("-w"), Val("-l", "m"), Opt("-shared"),
            Opt("-static"), Opt("-static-pie"), Opt("-pg"), Opt("-nostdlib"), Opt("-pthread"), Val("-g", "0"),
            Val("-g", ""), Val("-I", "d"), Val("-isystem", "d"), Val("-MF", "d"), Opt("-nostartfiles"), Opt("-M"),
            Opt("-MD"), Val("-pie", "off"), Opt("-bad"), Val("-x", "bad")}
Telling == {Opt("-nostdinc"), Opt("-nostdlibinc"), Opt("-nobuiltininc"), Opt("-rdynamic"), Opt("-mlibc"),
            Opt("-dumpmachine"), Val("-target", "cygwin"), Val("-target", "darwin"), Val("-target", "other"),
            Val("-fpic", "PIC"), Val("-fpic", "pie")}

In(f) == Val("input", f)
Inputs == {<<>>} \cup {<<In(f)>> : f \in {"b.S", "d.s", "e.i", "-"}}
          \cup {<<In(f), In(g)>> : f \in {"b.S", "e.i", "f.o"}, g \in {"a.c", "d.s"}}

\* Lines on which a result, a stage or the dependency file has the name of an
\* input or of another result, or an input an extension the driver knows nothing of.
Overlapping ==
  {o \o i : o \in {<<m, Val("-o", f)>> : m \in {Opt("-E"), Opt("-S"), Opt("-c"), Opt("-save-temps")}, f \in {"e.i", "a.i", "f.o"}},
            i \in {<<In("a.c")>>, <<In("a.c"), In("e.i")>>, <<In("f.o"), In("a.c")>>}}
  \cup {<<Opt("-save-temps"), m, Val("-o", f), In("a.c")>> : m \in {Opt("-E"), Opt("-c"), Opt("-w")}, f \in {"a.i", "a.o"}}
  \cup {o \o <<Opt("-MD"), Val("-MF", f), In("a.c"), In(g)>> :
           o \in {<<Opt("-save-temps")>>, <<Opt("-save-temps"), Opt("-c")>>, <<Opt("-E")>>, <<Opt("-c")>>},
           f \in {"a.i", "a.o", "e.i", "b.S"}, g \in {"e.i", "b.S"}}
  \cup {<<s, m, In("a.c"), In(f)>> : s \in {Opt("-save-temps"), Opt("-w")}, m \in {Opt("-E"), Opt("-S"), Opt("-c"), Opt("-w")},
                                     f \in {"a.s", "a.i"}}
  \cup {<<m, Val("-x", "c"), In(f)>> : m \in {Opt("-E"), Opt("-S"), Opt("-c"), Opt("-save-temps")}, f \in {"d.s", "d.h", "prog"}}

MCCommandLines ==
  {o \o i : o \in SeqOf(Deciding, 2), i \in Inputs}
  \cup {<<In("b.S"), x, In("a.c")>> : x \in Deciding}
  \cup {<<x, In("a.c")>> : x \in Passing \cup Telling}
  \cup {<<Opt("-###"), x, y, In("a.c")>> : x \in Passing, y \in Passing \cup Telling}
  \cup {<<Opt("-save-temps"), x, In("a.c"), In("b.S")>> : x \in Deciding}
  \cup {<<Val("--", "--"), In("a.c")>>}
  \cup Overlapping
=============================================================================

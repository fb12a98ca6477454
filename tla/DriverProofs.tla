----------------------------- MODULE DriverProofs -----------------------------
(***************************************************************************)
(* The driver's files, for every set of command lines, targets and names:  *)
(* nothing but results is changed or left behind, and no failure leaves a  *)
(* truncated result.  The command line is followed through parse_argv() by *)
(* induction over its arguments (ParseKeeps, ArgvOK) and through main()    *)
(* (MainOK); DriverInv and FailInv are the inductive invariants, with one  *)
(* lemma per action each.  Last, what the tools are told (ToolsAgree).     *)
(***************************************************************************)
EXTENDS Driver, WellFoundedInduction, FiniteSetTheorems, TLAPS

\* A set of naturals that is not empty has a least element.
LEMMA NatMin ==
  ASSUME NEW T \in SUBSET Nat, T # {}
  PROVE \E x \in T : \A y \in T : x <= y
<1> DEFINE R == OpToRel(<, Nat)
<1>1. PICK x \in T : \A y \in T : <<y, x>> \notin R
  <2>1. IsWellFoundedOn(R, Nat)
    BY NatLessThanWellFounded
  <2> HIDE DEF R
  <2> QED BY <2>1, WFMin
<1>2. ASSUME NEW y \in T PROVE x <= y
  <2>1. y < x => <<y, x>> \in R
    BY DEF OpToRel
  <2> HIDE DEF R
  <2> QED BY <1>1, <2>1
<1> QED BY <1>2

\* Induction up to a bound, over a set.
LEMMA UpTo ==
  ASSUME NEW k \in Nat, NEW G, 0 \in G, \A n \in 1..k : n - 1 \in G => n \in G
  PROVE \A n \in 0..k : n \in G
<1> DEFINE Bad == {n \in Nat : n <= k /\ n \notin G}
<1> SUFFICES ASSUME Bad # {} PROVE FALSE
  OBVIOUS
<1>1. PICK n \in Bad : \A m \in Bad : n <= m
  BY NatMin
<1>2. n \in 1..k /\ n \notin G
  OBVIOUS
<1>3. n - 1 \notin Bad
  BY <1>1, <1>2
<1> QED BY <1>2, <1>3

\* The states parse_argv() goes through exist, each one parse_arg() of the one before.
LEMMA ParseUnfolds ==
  ASSUME NEW s, NEW argv, NEW len \in Nat, len = Len(argv)
  PROVE /\ ParseStates(s, argv)[0] = s
        /\ \A n \in 1..len :
             ParseStates(s, argv)[n] = parse_arg(ParseStates(s, argv)[n - 1], argv[n])
<1> DEFINE Rec(f, k) == f = [i \in 0..k |-> IF i = 0 THEN s ELSE parse_arg(f[i - 1], argv[i])]
           Bad == {k \in Nat : ~\E f : Rec(f, k)}
<1>1. Bad = {}
  <2> SUFFICES ASSUME Bad # {} PROVE FALSE
    OBVIOUS
  <2>1. PICK k \in Bad : \A y \in Bad : k <= y
    BY NatMin
  <2>2. k # 0
    <3>1. Rec([i \in 0..0 |-> s], 0)
      OBVIOUS
    <3> QED BY <3>1
  <2>3. k - 1 \in Nat /\ k - 1 \notin Bad
    <3>1. k \in Nat
      OBVIOUS
    <3> HIDE DEF Bad
    <3> QED BY <2>1, <2>2, <3>1
  <2>4. PICK f : Rec(f, k - 1)
    BY <2>3
  <2> DEFINE g == [i \in 0..k |-> IF i = k THEN parse_arg(f[k - 1], argv[k]) ELSE f[i]]
  <2>5. ASSUME NEW i \in 0..k
        PROVE g[i] = IF i = 0 THEN s ELSE parse_arg(g[i - 1], argv[i])
    <3>1. CASE i = k
      BY <3>1, <2>2, <2>3
    <3>2. CASE i # k
      <4>1. i \in 0..(k - 1) /\ (i # 0 => i - 1 \in 0..(k - 1))
        BY <3>2, <2>3
      <4>2. g[i] = f[i] /\ (i # 0 => g[i - 1] = f[i - 1])
        BY <4>1, <3>2
      <4> HIDE DEF g
      <4> QED BY <4>1, <4>2, <2>4
    <3> QED BY <3>1, <3>2
  <2>6. Rec(g, k)
    <3>1. g = [i \in 0..k |-> g[i]]
      OBVIOUS
    <3> HIDE DEF g
    <3> QED BY <3>1, <2>5
  <2> QED BY <2>1, <2>6
<1>3. \E f : Rec(f, len)
  BY <1>1
<1>4. ParseStates(s, argv) = CHOOSE f : Rec(f, len)
  BY DEF ParseStates
<1>5. Rec(ParseStates(s, argv), len)
  BY <1>3, <1>4
<1> DEFINE st == ParseStates(s, argv)
<1>6. \A i \in 0..len : st[i] = IF i = 0 THEN s ELSE parse_arg(st[i - 1], argv[i])
  <2>1. Rec(st, len)
    BY <1>5
  <2> HIDE DEF st
  <2> QED BY <2>1
<1> QED BY <1>6

-----------------------------------------------------------------------------
\* What inputs may be taken for, and inputs.
Assumptions == {NoAssumption, preproc, compile, assemb, assemb_with_cpp}
InputType == [name : DOMAIN Split, assume : Assumptions]

\* The fields of the state that the rest of the driver reads.
Fields == {"inputs", "args", "mode", "assume", "output", "double_dash", "noop", "save_temps", "deps", "dep", "dead",
           "dumpmachine"}

\* What the dependency file may be named after.
DepOK(d) ==
  /\ d.by \in {"none", "option", "output", "input"}
  /\ d.by \in {"option", "output"} => d.name \notin {"/tmp/ucc", "<stdout>"}
  /\ d.by = "input" => d.name \in DOMAIN Split

\* What the rest of the driver relies on in the state parsing makes.
JobOK(s) ==
  /\ Fields \subseteq DOMAIN s
  /\ s.inputs \in Seq(InputType) /\ s.mode \in Tools /\ s.assume \in Assumptions
  /\ s.output \notin {"/tmp/ucc", "<stdout>"} /\ DepOK(s.dep)

\* One state is another but for fields the rest relies on in no special way.
Like(s, t) ==
  /\ Fields \subseteq DOMAIN t
  /\ t.inputs = s.inputs /\ t.mode = s.mode /\ t.assume = s.assume
  /\ t.output = s.output /\ t.double_dash = s.double_dash /\ t.dep = s.dep

\* A state like a good one is good.
LEMMA LikeOK == ASSUME NEW s, NEW t, JobOK(s), Like(s, t) PROVE JobOK(t)
BY DEF JobOK, Like

\* ADD_ARG() leaves alone what the rest relies on.
LEMMA AddLike == ASSUME NEW s, NEW tools, NEW a, JobOK(s) PROVE Like(s, ADD_ARG(s, tools, a))
BY DEF JobOK, Like, Fields, ADD_ARG

\* Likeness carries over.
LEMMA LikeTwice == ASSUME NEW s, NEW t, NEW u, Like(s, t), Like(t, u) PROVE Like(s, u)
BY DEF Like

\* A good state is like itself.
LEMMA SameLike ==
  ASSUME NEW s, JobOK(s)
  PROVE  Like(s, s)
BY DEF JobOK, Like

\* Setting a field the rest does not rely on.
LEMMA SetLike ==
  ASSUME NEW s, NEW t, Like(s, t), NEW x,
         NEW field, field \notin {"inputs", "mode", "assume", "output", "double_dash", "dep"}
  PROVE  Like(s, [t EXCEPT ![field] = x])
BY DEF Like, Fields

\* Setting two of them.
LEMMA SetTwo ==
  ASSUME NEW s, NEW t, Like(s, t), NEW x, NEW y,
         NEW f, f \notin {"inputs", "mode", "assume", "output", "double_dash", "dep"},
         NEW g, g \notin {"inputs", "mode", "assume", "output", "double_dash", "dep"}
  PROVE  Like(s, [[t EXCEPT ![f] = x] EXCEPT ![g] = y])
<1> DEFINE u == [t EXCEPT ![f] = x]
<1>1. Like(s, u)
  BY SetLike
<1> HIDE DEF u
<1>2. Like(s, [u EXCEPT ![g] = y])
  BY <1>1, SetLike
<1> QED BY <1>2 DEF u

\* Setting what the dependency file is named after, as -MF does.
LEMMA DepSet ==
  ASSUME NEW s, JobOK(s), NEW d, DepOK(d)
  PROVE  JobOK([s EXCEPT !.dep = d]) /\ [s EXCEPT !.dep = d].double_dash = s.double_dash
BY DEF JobOK, Fields

\* Setting the mode of a good state, as -E, -S, -c and -M do.
LEMMA ModeOK ==
  ASSUME NEW s, JobOK(s), NEW m \in Tools
  PROVE  JobOK([s EXCEPT !.mode = m]) /\ [s EXCEPT !.mode = m].double_dash = s.double_dash
BY DEF JobOK, Fields

\* Setting its output, as -o does.
LEMMA OutputOK ==
  ASSUME NEW s, JobOK(s), NEW out, out \notin {"/tmp/ucc", "<stdout>"}
  PROVE  JobOK([s EXCEPT !.output = out]) /\ [s EXCEPT !.output = out].double_dash = s.double_dash
BY DEF JobOK, Fields

\* Setting what inputs are taken for, as -x does.
LEMMA AssumeOK ==
  ASSUME NEW s, JobOK(s), NEW x \in Assumptions
  PROVE  JobOK([s EXCEPT !.assume = x]) /\ [s EXCEPT !.assume = x].double_dash = s.double_dash
BY DEF JobOK, Fields

\* Adding an input, under the assumption in force.
LEMMA InputOK ==
  ASSUME NEW s, JobOK(s), NEW a, a.v \in DOMAIN Split
  PROVE  /\ JobOK(ParseInput(s, a))
         /\ ParseInput(s, a).double_dash = (s.double_dash \/ a.o = "--")
<1>1. [name |-> a.v, assume |-> s.assume] \in InputType
  BY DEF JobOK, InputType
<1>2. Append(s.inputs, [name |-> a.v, assume |-> s.assume]) \in Seq(InputType)
  BY <1>1 DEF JobOK
<1> QED BY <1>2 DEF JobOK, Fields, ParseInput

\* What one argument must keep.
Parses(s, a) == JobOK(parse_arg(s, a)) /\ (parse_arg(s, a).double_dash => s.double_dash \/ a.o = "--")

\* One argument.
LEMMA ParseKeeps ==
  ASSUME NEW s, JobOK(s), NEW a \in [o : Options, v : STRING],
         s.double_dash \/ a.o \in {"--", "input"} => a.v \in DOMAIN Split,
         a.o \in {"-o", "-MF"} => a.v \notin {"/tmp/ucc", "<stdout>"}
  PROVE  Parses(s, a)
<1>1. ASSUME Like(s, parse_arg(s, a)) PROVE Parses(s, a)
  BY <1>1, LikeOK DEF Like, Parses
<1>2. ASSUME NEW tools PROVE Like(s, ADD_ARG(s, tools, a))
  BY AddLike
<1>6. Like(s, [s EXCEPT !.dead = TRUE])
  BY SetLike, SameLike
<1>3. CASE s.dead
  BY <1>1, <1>3, SameLike DEF parse_arg
<1>4. CASE ~s.dead /\ (s.double_dash \/ a.o \in {"--", "input"})
  BY <1>4, InputOK DEF parse_arg, Parses
<1>5. CASE ~s.dead /\ ~(s.double_dash \/ a.o \in {"--", "input"})
  <2>1. CASE a.o \in {"-W", "-Werror="}
    <3>1. parse_arg(s, a) = pass_warning(s, a)
      BY <1>5, <2>1 DEF parse_arg, Spanning
    <3> QED BY <1>1, <1>2, <3>1 DEF pass_warning
  <2>2. CASE a.o = "-X"
    <3>1. parse_arg(s, a) = ParseForTool(s, a)
      BY <1>5, <2>2 DEF parse_arg, Spanning
    <3> QED BY <1>1, <1>2, <3>1 DEF ParseForTool
  <2>3. CASE a.o \in {"-I", "-isystem"}
    <3>1. parse_arg(s, a) = ParseInclude(s, a)
      BY <1>5, <2>3 DEF parse_arg, Spanning
    <3>2. \/ \E x : ParseInclude(s, a) = [s EXCEPT !["includes"] = x]
          \/ \E x : ParseInclude(s, a) = [s EXCEPT !["isystems"] = x]
      BY DEF ParseInclude
    <3>3. PICK x : \/ ParseInclude(s, a) = [s EXCEPT !["includes"] = x]
                   \/ ParseInclude(s, a) = [s EXCEPT !["isystems"] = x]
      BY <3>2
    <3>4. Like(s, [s EXCEPT !["includes"] = x]) /\ Like(s, [s EXCEPT !["isystems"] = x])
      BY SetLike, SameLike
    <3> QED BY <1>1, <3>1, <3>3, <3>4, Zenon
  <2>4. CASE a.o \in {"-M", "-MM", "-MD", "-MF"}
    <3>1. parse_arg(s, a) = ParseDeps(s, a)
      BY <1>5, <2>4 DEF parse_arg, Spanning
    <3> DEFINE t == ADD_ARG(s, {preproc}, a)
               u == ADD_ARG(t, {preproc, compile}, [o |-> "-w", v |-> ""])
    <3>2. Like(s, t) /\ JobOK(t)
      BY <1>2, LikeOK
    <3>3. Like(s, u) /\ JobOK(u)
      <4> HIDE DEF t
      <4>1. Like(t, u)
        BY <3>2, AddLike
      <4> HIDE DEF u
      <4> QED BY <3>2, <4>1, LikeTwice, LikeOK
    <3> DEFINE m == [u EXCEPT !.mode = preproc]
               n == [t EXCEPT !.mode = preproc]
               d == [by |-> "option", name |-> a.v]
    <3>4. \/ ParseDeps(s, a) = [m EXCEPT !.deps = TRUE]
          \/ ParseDeps(s, a) = [n EXCEPT !.deps = TRUE]
          \/ ParseDeps(s, a) = [[u EXCEPT !["had_MD"] = TRUE] EXCEPT !["deps"] = TRUE]
          \/ ParseDeps(s, a) = [t EXCEPT !.dep = d] /\ a.o = "-MF"
      BY <2>4 DEF ParseDeps
    <3> HIDE DEF t, u
    <3>5. preproc \in Tools /\ t.double_dash = s.double_dash /\ u.double_dash = s.double_dash
      BY <3>2, <3>3 DEF Tools, Like
    <3>6. JobOK(m) /\ m.double_dash = s.double_dash /\ JobOK(n) /\ n.double_dash = s.double_dash
      BY <3>2, <3>3, <3>5, ModeOK
    <3> HIDE DEF m, n
    <3>7. CASE ParseDeps(s, a) = [m EXCEPT !.deps = TRUE] \/ ParseDeps(s, a) = [n EXCEPT !.deps = TRUE]
      <4>1. Like(m, [m EXCEPT !.deps = TRUE]) /\ Like(n, [n EXCEPT !.deps = TRUE])
        BY <3>6, SameLike, SetLike
      <4>2. JobOK([m EXCEPT !.deps = TRUE]) /\ JobOK([n EXCEPT !.deps = TRUE])
        BY <3>6, <4>1, LikeOK
      <4> QED BY <3>1, <3>6, <3>7, <4>1, <4>2 DEF Parses, Like
    <3>8. CASE ParseDeps(s, a) = [[u EXCEPT !["had_MD"] = TRUE] EXCEPT !["deps"] = TRUE]
      <4>1. Like(s, [[u EXCEPT !["had_MD"] = TRUE] EXCEPT !["deps"] = TRUE])
        BY <3>3, SetTwo
      <4> QED BY <1>1, <3>1, <3>8, <4>1
    <3>9. CASE ParseDeps(s, a) = [t EXCEPT !.dep = d] /\ a.o = "-MF"
      <4>1. DepOK(d)
        BY <3>9 DEF DepOK
      <4> HIDE DEF d
      <4> QED BY <3>1, <3>2, <3>5, <3>9, <4>1, DepSet DEF Parses
    <3> QED BY <3>4, <3>7, <3>8, <3>9
  <2>5. CASE a.o \in Spanning \cup {"-fstack-protector", "-fstack-protector-all"}
    <3>1. parse_arg(s, a) = handle_spanning_fopt(s, a)
      BY <1>5, <2>5 DEF parse_arg, Spanning
    <3> DEFINE both == ADD_ARG(s, {preproc, compile}, a)
               pie == ADD_ARG(both, {preproc}, [o |-> "__PIE__", v |-> a.v])
    <3>2. \/ handle_spanning_fopt(s, a) = both
          \/ handle_spanning_fopt(s, a) = pie
          \/ \E x : handle_spanning_fopt(s, a) = [s EXCEPT !["ssp"] = x]
      BY DEF handle_spanning_fopt
    <3>3. PICK x : \/ handle_spanning_fopt(s, a) = both
                   \/ handle_spanning_fopt(s, a) = pie
                   \/ handle_spanning_fopt(s, a) = [s EXCEPT !["ssp"] = x]
      BY <3>2
    <3>4. Like(s, [s EXCEPT !["ssp"] = x])
      BY SetLike, SameLike
    <3>5. Like(s, both) /\ JobOK(both)
      BY <1>2, LikeOK
    <3> HIDE DEF both
    <3>6. Like(s, pie)
      <4>1. Like(both, pie)
        BY <3>5, AddLike
      <4> HIDE DEF pie
      <4> QED BY <3>5, <4>1, LikeTwice
    <3> HIDE DEF pie
    <3> QED BY <1>1, <3>1, <3>3, <3>4, <3>5, <3>6, Zenon
  <2>6. CASE a.o \in {"-E", "-S", "-c"}
    <3>1. parse_arg(s, a) = ParseMode(s, a)
      BY <1>5, <2>6 DEF parse_arg, Spanning
    <3>2. \E m \in Tools : ParseMode(s, a) = [s EXCEPT !.mode = m]
      BY <2>6 DEF ParseMode, Tools
    <3> QED BY <3>1, <3>2, ModeOK DEF Parses
  <2>7. CASE a.o = "-o"
    <3>1. parse_arg(s, a) = [s EXCEPT !.output = a.v]
      BY <1>5, <2>7 DEF parse_arg, Spanning, ParseOutput
    <3> QED BY <2>7, <3>1, OutputOK DEF Parses
  <2>8. CASE a.o = "-x"
    <3>1. parse_arg(s, a) = ParseX(s, a)
      BY <1>5, <2>8 DEF parse_arg, Spanning
    <3>2. \/ \E x \in Assumptions : ParseX(s, a) = [s EXCEPT !.assume = x]
          \/ ParseX(s, a) = [s EXCEPT !.dead = TRUE]
      BY DEF ParseX, Die, Assumptions
    <3>3. ASSUME NEW x \in Assumptions, ParseX(s, a) = [s EXCEPT !.assume = x] PROVE Parses(s, a)
      BY <3>1, <3>3, AssumeOK DEF Parses
    <3>4. CASE ParseX(s, a) = [s EXCEPT !.dead = TRUE]
      BY <1>1, <1>6, <3>1, <3>4
    <3> QED BY <3>2, <3>3, <3>4
  <2>9. CASE a.o \in {"-D", "-U", "-H", "-C", "-trigraphs", "-m", "-g", "-pedantic", "-f", "-O", "-std",
                      "-ffreestanding", "-l", "-L", "-s", "-w"}
    <3>1. parse_arg(s, a) = ParseHandedOn(s, a)
      BY <1>5, <2>9 DEF parse_arg, Spanning
    <3>2. \/ \E tools : ParseHandedOn(s, a) = ADD_ARG(s, tools, a)
          \/ \E tools, x : ParseHandedOn(s, a) = [ADD_ARG(s, tools, a) EXCEPT !.debug = x]
      BY <2>9 DEF ParseHandedOn
    <3>3. ASSUME NEW tools, NEW x PROVE Like(s, [ADD_ARG(s, tools, a) EXCEPT !.debug = x])
      BY <1>2, SetLike
    <3> QED BY <1>1, <1>2, <3>1, <3>2, <3>3
  <2>10. CASE a.o = "-bad"
    <3>1. parse_arg(s, a) = [s EXCEPT !.dead = TRUE]
      BY <1>5, <2>10 DEF parse_arg, Spanning, Die
    <3> QED BY <1>1, <1>6, <3>1
  <2>11. CASE a.o \in {"-nostdlib", "-nostartfiles", "-nodefaultlibs", "-nostdinc", "-shared",
                       "-static", "-pie", "-pthread", "-###", "-emit", "-save-temps", "-fsyntax-only",
                       "-nostdlibinc", "-nobuiltininc", "-rdynamic", "-static-pie", "-pg", "-mlibc", "-target",
                       "-dumpmachine"}
    <3>1. parse_arg(s, a) = ParseWord(s, a)
      BY <1>5, <2>11 DEF parse_arg, Spanning
    <3>2. Like(s, ParseWord(s, a))
      <4>1. Like(s, s) /\ \A tools : Like(s, ADD_ARG(s, tools, a))
        BY <1>2, SameLike
      <4> DEFINE Words == {"startfiles", "defaultlibs", "stdlibinc", "builtininc", "shared", "static", "pie", "pthread",
                           "noop", "backend", "save_temps", "syntax_only", "rdynamic", "ztext", "profile", "dyld",
                           "target", "dumpmachine"}
      <4>2. CASE a.o \in {"-nostdlib", "-nostdinc"}
        <5>1. \/ ParseWord(s, a) = [[s EXCEPT !["startfiles"] = FALSE] EXCEPT !["defaultlibs"] = FALSE]
              \/ ParseWord(s, a) = [[s EXCEPT !["stdlibinc"] = FALSE] EXCEPT !["builtininc"] = FALSE]
          BY <4>2 DEF ParseWord
        <5>2. /\ Like(s, [[s EXCEPT !["startfiles"] = FALSE] EXCEPT !["defaultlibs"] = FALSE])
              /\ Like(s, [[s EXCEPT !["stdlibinc"] = FALSE] EXCEPT !["builtininc"] = FALSE])
          BY <4>1, SetTwo
        <5> QED BY <5>1, <5>2, Zenon
      <4>3. CASE a.o = "-static-pie"
        <5> DEFINE t == [[s EXCEPT !["static"] = TRUE] EXCEPT !["pie"] = "on"]
        <5>1. ParseWord(s, a) = [t EXCEPT !["ztext"] = TRUE]
          BY <4>3 DEF ParseWord
        <5>2. Like(s, t)
          BY <4>1, SetTwo
        <5> HIDE DEF t
        <5>3. Like(s, [t EXCEPT !["ztext"] = TRUE])
          BY <5>2, SetLike
        <5> QED BY <5>1, <5>3, Zenon
      <4>4. CASE a.o \in {"-pg", "-target"}
        <5> DEFINE t == ADD_ARG(s, {compile}, a)
                   u == ADD_ARG(s, {preproc, compile}, a)
        <5>1. \/ ParseWord(s, a) = [t EXCEPT !["profile"] = TRUE]
              \/ ParseWord(s, a) = [u EXCEPT !["target"] = a.v]
          BY <4>4 DEF ParseWord
        <5>2. Like(s, t) /\ Like(s, u)
          BY <4>1
        <5> HIDE DEF t, u
        <5>3. Like(s, [t EXCEPT !["profile"] = TRUE]) /\ Like(s, [u EXCEPT !["target"] = a.v])
          BY <5>2, SetLike
        <5> QED BY <5>1, <5>3, Zenon
      <4>5. CASE a.o \notin {"-nostdlib", "-nostdinc", "-static-pie", "-pg", "-target"}
        <5>1. \E x : \E f \in Words : ParseWord(s, a) = [s EXCEPT ![f] = x]
          BY <2>11, <4>5 DEF ParseWord
        <5>2. PICK x : \E f \in Words : ParseWord(s, a) = [s EXCEPT ![f] = x]
          BY <5>1
        <5>3. PICK f \in Words : ParseWord(s, a) = [s EXCEPT ![f] = x]
          BY <5>2
        <5>4. Like(s, [s EXCEPT ![f] = x])
          BY <4>1, SetLike
        <5> QED BY <5>3, <5>4, Zenon
      <4> QED BY <4>2, <4>3, <4>4, <4>5, Zenon
    <3> QED BY <1>1, <3>1, <3>2
  <2>12. \/ a.o \in {"-W", "-Werror="} \/ a.o = "-X" \/ a.o \in {"-I", "-isystem"}
         \/ a.o \in {"-M", "-MM", "-MD", "-MF"}
         \/ a.o \in Spanning \cup {"-fstack-protector", "-fstack-protector-all"}
         \/ a.o \in {"-E", "-S", "-c"} \/ a.o = "-o" \/ a.o = "-x" \/ a.o = "-bad"
         \/ a.o \in {"-D", "-U", "-H", "-C", "-trigraphs", "-m", "-g", "-pedantic", "-f", "-O", "-std",
                     "-ffreestanding", "-l", "-L", "-s", "-w"}
         \/ a.o \in {"-nostdlib", "-nostartfiles", "-nodefaultlibs", "-nostdinc", "-shared",
                       "-static", "-pie", "-pthread", "-###", "-emit", "-save-temps", "-fsyntax-only",
                       "-nostdlibinc", "-nobuiltininc", "-rdynamic", "-static-pie", "-pg", "-mlibc", "-target",
                       "-dumpmachine"}
    BY <1>5 DEF Options, Spanning
  <2> QED BY <2>1, <2>2, <2>3, <2>4, <2>5, <2>6, <2>7, <2>8, <2>9, <2>10, <2>11, <2>12, Zenon
<1> QED BY <1>3, <1>4, <1>5

\* The whole command line.
LEMMA ArgvOK ==
  ASSUME NEW argv \in CommandLines
  PROVE  JobOK(parse_argv(InitState, argv))
<1>1. /\ argv \in Seq([o : Options, v : STRING])
      /\ \A k \in 1..Len(argv) :
           /\ argv[k].o = "input" \/ (\E j \in 1..k : argv[j].o = "--") => argv[k].v \in DOMAIN Split
           /\ argv[k].o \in {"-o", "-MF"} => argv[k].v \notin {"/tmp/ucc", "<stdout>"}
  BY DriverAssumption
<1>2. PICK len \in Nat : len = Len(argv)
  BY <1>1
<1> DEFINE st == ParseStates(InitState, argv)
           Good == {k \in 0..len : /\ JobOK(st[k])
                                   /\ st[k].double_dash => \E j \in 1..k : argv[j].o = "--"}
<1>3. /\ st[0] = InitState
      /\ \A n \in 1..len : st[n] = parse_arg(st[n - 1], argv[n])
  BY <1>2, ParseUnfolds
<1> HIDE DEF st
<1>4. 0 \in Good
  <2>1. JobOK(InitState) /\ InitState.double_dash = FALSE
    <3>1. Fields \subseteq DOMAIN InitState
      BY DEF InitState, Fields
    <3>2. /\ InitState.inputs = <<>> /\ InitState.mode = link /\ InitState.assume = NoAssumption
          /\ InitState.output = "none" /\ InitState.double_dash = FALSE
      BY DEF InitState
    <3>3. InitState.dep = [by |-> "none", name |-> ""]
      BY DEF InitState
    <3>5. PICK d : d = [by |-> "none", name |-> ""]
      OBVIOUS
    <3>6. d.by = "none"
      BY <3>5
    <3>7. DepOK(d)
      BY <3>6 DEF DepOK
    <3>4. DepOK(InitState.dep)
      BY <3>3, <3>5, <3>7, Zenon
    <3> QED BY <3>1, <3>2, <3>4 DEF JobOK, Tools, Assumptions
  <2> QED BY <1>3, <2>1
<1>5. ASSUME NEW n \in 1..len, n - 1 \in Good PROVE n \in Good
  <2>0. JobOK(st[n - 1]) /\ (st[n - 1].double_dash => \E j \in 1..(n - 1) : argv[j].o = "--")
    BY <1>5, Zenon
  <2>1. /\ JobOK(st[n - 1]) /\ argv[n] \in [o : Options, v : STRING]
        /\ st[n - 1].double_dash => \E j \in 1..(n - 1) : argv[j].o = "--"
    <3> DEFINE Arg == [o : Options, v : STRING]
    <3>2. argv \in Seq(Arg) /\ n \in 1..Len(argv)
      BY <1>1, <1>2
    <3> HIDE DEF Arg
    <3>3. argv[n] \in Arg
      BY <3>2
    <3>1. argv[n] \in [o : Options, v : STRING]
      BY <3>3 DEF Arg
    <3> QED BY <2>0, <3>1, Zenon
  <2>2. /\ st[n - 1].double_dash \/ argv[n].o \in {"--", "input"} => argv[n].v \in DOMAIN Split
        /\ argv[n].o \in {"-o", "-MF"} => argv[n].v \notin {"/tmp/ucc", "<stdout>"}
    BY <1>1, <1>2, <2>1
  <2>3. Parses(st[n - 1], argv[n])
    BY <2>1, <2>2, ParseKeeps
  <2>4. JobOK(st[n]) /\ (st[n].double_dash => st[n - 1].double_dash \/ argv[n].o = "--")
    BY <1>3, <2>3 DEF Parses
  <2>5. st[n].double_dash => \E j \in 1..n : argv[j].o = "--"
    BY <2>1, <2>4
  <2> QED BY <2>4, <2>5
<1>6. len \in Good
  <2> HIDE DEF Good
  <2> QED BY <1>4, <1>5, UpTo
<1> DEFINE s == st[len]
<1>7. JobOK(s)
  BY <1>6
<1>8. parse_argv(InitState, argv) = ArgsRead(s)
  BY <1>2 DEF parse_argv, st
<1> HIDE DEF s
<1> DEFINE r == resolve_spanning_fopts(s)
<1>9. JobOK(r)
  BY <1>7, AddLike, LikeOK DEF resolve_spanning_fopts
<1> HIDE DEF r
<1>10. JobOK(Depfile(r))
  <2>1. Like(r, r) /\ Like(r, [r EXCEPT !.dead = TRUE])
    BY <1>9, SameLike, SetLike
  <2> DEFINE by == IF r.output = "none" THEN [by |-> "input", name |-> r.inputs[1].name]
                   ELSE [by |-> IF r.mode = preproc THEN "option" ELSE "output", name |-> r.output]
             t == ADD_ARG(r, {preproc}, [o |-> "-MF", v |-> by.name])
  <2>2. \/ Depfile(r) = r \/ Depfile(r) = [r EXCEPT !.dead = TRUE]
        \/ Depfile(r) = [t EXCEPT !.dep = by] /\ (r.output = "none" => Len(r.inputs) = 1)
    BY DEF Depfile, Die
  <2>3. ASSUME r.output = "none" => Len(r.inputs) = 1 PROVE DepOK(by)
    <3>1. CASE r.output = "none"
      <4>1. r.inputs[1] \in InputType
        <5>1. r.inputs \in Seq(InputType) /\ Len(r.inputs) = 1
          BY <1>9, <2>3, <3>1 DEF JobOK
        <5> HIDE DEF InputType
        <5> QED BY <5>1
      <4>2. r.inputs[1].name \in DOMAIN Split
        BY <4>1 DEF InputType
      <4> QED BY <3>1, <4>2 DEF DepOK
    <3>2. CASE r.output # "none"
      BY <1>9, <3>2 DEF DepOK, JobOK
    <3> QED BY <3>1, <3>2
  <2>4. JobOK(t)
    BY <1>9, AddLike, LikeOK
  <2> HIDE DEF t, by
  <2>5. ASSUME DepOK(by) PROVE JobOK([t EXCEPT !.dep = by])
    BY <2>4, <2>5, DepSet
  <2> QED BY <1>9, <2>1, <2>2, <2>3, <2>5, LikeOK
<1> QED BY <1>7, <1>8, <1>10 DEF ArgsRead, r

\* Adding what the target asks for leaves mode, inputs and output alone.
LEMMA TargetLike ==
  ASSUME NEW s, JobOK(s), NEW sys
  PROVE  JobOK(WithTarget(s, sys))
<1> DEFINE t == merge_states(state_from_triple(s, sys), s)
<1>1. Like(s, t)
  <2>1. Like(s, s)
    BY SameLike
  <2>2. \E x : t = [s EXCEPT !["args"] = x]
    BY DEF merge_states
  <2>3. PICK x : t = [s EXCEPT !["args"] = x]
    BY <2>2
  <2> HIDE DEF t
  <2>4. Like(s, [s EXCEPT !["args"] = x])
    BY <2>1, SetLike
  <2> QED BY <2>3, <2>4, Zenon
<1> HIDE DEF t
<1>2. JobOK(t)
  BY <1>1, LikeOK
<1>3. JobOK(add_pthread(t))
  <2> DEFINE u == ADD_ARG(t, {preproc}, [o |-> "-D", v |-> "_REENTRANT"])
  <2>1. JobOK(u)
    BY <1>2, AddLike, LikeOK
  <2>2. add_pthread(t) = t \/ add_pthread(t) = ADD_ARG(u, {link}, [o |-> "-l", v |-> "pthread"])
    BY DEF add_pthread
  <2> HIDE DEF u
  <2> QED BY <1>2, <2>1, <2>2, AddLike, LikeOK
<1> QED BY <1>3 DEF WithTarget, t

\* What main() hands to process_files().
LEMMA MainOK ==
  ASSUME NEW argv \in CommandLines, NEW sys
  PROVE  JobOK(main(argv, sys))
<1> DEFINE user == parse_argv(InitState, argv)
           on == TargetOf(user, sys)
           s == WithTarget(LinkOutput(user), on)
<1>1. JobOK(user)
  BY ArgvOK
<1> HIDE DEF user
<1>2. JobOK(LinkOutput(user))
  BY <1>1, OutputOK DEF LinkOutput
<1>3. JobOK(s)
  BY <1>2, TargetLike
<1>4. main(argv, sys) \in {Die(user), user, Checked(user, s, on)}
  BY DEF main, user
<1> HIDE DEF s
<1> DEFINE v == SyntaxOnly(s)
           w == ToStdout(v)
           e == Emit(w, Given(user))
<1>5. JobOK(v)
  <2> DEFINE x == [s EXCEPT !.mode = compile]
  <2>1. JobOK(x)
    BY <1>3, ModeOK DEF Tools
  <2>2. v = s \/ v = [x EXCEPT !.output = "/dev/null"]
    BY DEF SyntaxOnly
  <2> HIDE DEF x
  <2> QED BY <1>3, <2>1, <2>2, OutputOK
<1> HIDE DEF v
<1>6. JobOK(w)
  BY <1>5, OutputOK DEF ToStdout
<1> HIDE DEF w
<1>7. JobOK(e)
  <2> DEFINE x == [w EXCEPT !.mode = compile]
  <2>1. JobOK(x)
    BY <1>6, ModeOK DEF Tools
  <2>2. e = w \/ e = [x EXCEPT !.output = x.output] \/ e = [x EXCEPT !.output = "-"]
    BY DEF Emit
  <2>3. x.output \notin {"/tmp/ucc", "<stdout>"}
    BY <2>1 DEF JobOK
  <2> HIDE DEF x
  <2> QED BY <1>6, <2>1, <2>2, <2>3, OutputOK
<1>8. JobOK(Die(user))
  <2>1. Like(user, [user EXCEPT !.dead = TRUE])
    BY <1>1, SameLike, SetLike
  <2> QED BY <1>1, <2>1, LikeOK DEF Die
<1>9. ASSUME NEW x, NEW y PROVE JobOK([[e EXCEPT !["args"] = x] EXCEPT !["post_link"] = y])
  <2> DEFINE f == [e EXCEPT !["args"] = x]
  <2> HIDE DEF e
  <2>1. Like(e, e)
    BY <1>7, SameLike
  <2>2. Like(e, f)
    BY <2>1, SetLike
  <2> HIDE DEF f
  <2>3. Like(e, [f EXCEPT !["post_link"] = y])
    BY <2>2, SetLike
  <2> QED BY <1>7, <2>3, LikeOK DEF f
<1>10. \/ Checked(user, s, on) = Die(user)
       \/ \E x, y : Checked(user, s, on) = [[e EXCEPT !["args"] = x] EXCEPT !["post_link"] = y]
  BY DEF Checked, v, w
<1> HIDE DEF e
<1> QED BY <1>1, <1>4, <1>8, <1>9, <1>10

-----------------------------------------------------------------------------
(* What the driver may write to.                                           *)

\* Names a tool may be told to write to: results and registered files.
Writable(n) == n \in {NoName, Stdout} \/ n \in AskedFor \/ n \in removes

\* Names whose file the driver need not keep.
Free(n) == n \notin DOMAIN old \/ n \in AskedFor

\* The registered files, the files before the driver, and those there now.
RemovesOK == \A n \in removes : Temporary(n)
OldOK == \A n \in DOMAIN old : ~Temporary(n) /\ n # NoName /\ n # Stdout
Kept == \A n \in DOMAIN old : n \notin AskedFor => n \in DOMAIN fs /\ fs[n] = old[n]
Registered == \A n \in DOMAIN fs : Temporary(n) => n \in removes

\* The stages of input k, as a set.
StagesOf(k) == ToSet(Stages(Kind(job.inputs[k])))

\* The names in a struct cc_file: what will be written to may be, and a stage
\* has one only when the input goes through it.
FileOK(k) ==
  /\ files[k].in = Name(job.inputs[k])
  /\ Writable(files[k].preproc)
  /\ job.mode # preproc => Writable(files[k].compile)
  /\ job.mode \notin {preproc, compile} => Writable(files[k].assemb)
  /\ files[k].preproc # NoName => preproc \in StagesOf(k)
  /\ files[k].compile # NoName => compile \in StagesOf(k)
  /\ files[k].assemb # NoName => assemb \in StagesOf(k)
FilesOK ==
  /\ \E S : files \in Seq(S)
  /\ Len(files) <= Len(job.inputs) /\ moved \in Nat
  /\ \A k \in 1..Len(files) : FileOK(k)

\* Where process_files() will go on.
After == IF pc = "wait" THEN running.then ELSE pc
PlaceOK ==
  /\ After \in {"cpp", "cc1", "as"} => Len(files) > 0
  /\ After = "cc1" => job.mode # preproc
  /\ After = "as" => job.mode \notin {preproc, compile}
  /\ After = "link" => job.mode = link
  /\ After = "rename" => job.mode # link
  /\ pc = "wait" => /\ Writable(running.out)
                    /\ running.then \in {"create", "cc1", "as", "post_link", "end", "rename"}

\* Where the driver is done with its inputs, and where it is at work on them.
Ended == {"exit", "done", "killed"}
Busy == pc \notin Ended \cup {"start", "end"}

\* The inductive invariant of OnlyResultsLeft.
DriverInv ==
  /\ JobOK(job) /\ RemovesOK /\ OldOK /\ Kept /\ Registered
  /\ pc \notin Ended => FilesOK /\ PlaceOK
  /\ Busy => ~job.dead /\ ~job.dumpmachine
  /\ pc = "done" => \A n \in DOMAIN fs : ~Temporary(n)

-----------------------------------------------------------------------------
(* Names.                                                                  *)

\* Without -save-temps, stages go to temporary files.
LEMMA TmpName ==
  ASSUME NEW in, NEW n, NEW stage, ~job.save_temps
  PROVE  Temporary(tmpfilenam(in, n, stage))
BY DEF Temporary, tmpfilenam

\* The name of an input is none the driver makes up.
LEMMA PlainInput ==
  ASSUME JobOK(job), NEW k \in 1..Len(job.inputs)
  PROVE  /\ Name(job.inputs[k]) \in STRING \X STRING /\ ~Temporary(Name(job.inputs[k]))
         /\ Name(job.inputs[k]) \notin {NoName, Stdout}
<1>1. job.inputs[k] \in InputType
  <2>1. job.inputs \in Seq(InputType)
    BY DEF JobOK
  <2> HIDE DEF InputType
  <2> QED BY <2>1
<1>2. job.inputs[k].name \in DOMAIN Split
  BY <1>1 DEF InputType
<1> QED BY <1>2, DriverAssumption DEF Name

\* What is asked for, a name at a time.
LEMMA AskedIs ==
  ASSUME NEW n
  PROVE  n \in AskedFor <=>
           /\ ~job.dead /\ ~job.dumpmachine /\ n \notin {NoName, Stdout}
           /\ \/ n = DepName
              \/ \E k \in 1..Len(job.inputs) : n \in Saved(k)
              \/ job.mode = link /\ n = OutName(job.output)
              \/ job.mode # link /\ \E k \in 1..Len(job.inputs) : Through(k) # {} /\ n = Place(k)
<1> DEFINE saved == UNION {Saved(k) : k \in 1..Len(job.inputs)}
           placed == {Place(k) : k \in {j \in 1..Len(job.inputs) : Through(j) # {}}}
           results == IF job.mode = link THEN {OutName(job.output)} ELSE placed
<1>1. n \in saved <=> \E k \in 1..Len(job.inputs) : n \in Saved(k)
  BY Zenon
<1>2. n \in placed <=> \E k \in 1..Len(job.inputs) : Through(k) # {} /\ n = Place(k)
  BY Zenon
<1>3. CASE job.dead \/ job.dumpmachine
  <2>1. AskedFor = {}
    BY <1>3, Zenon DEF AskedFor
  <2> QED BY <1>3, <2>1
<1>4. CASE ~job.dead /\ ~job.dumpmachine
  <2>1. AskedFor = ({DepName} \cup saved \cup results) \ {NoName, Stdout}
    BY <1>4, Zenon DEF AskedFor
  <2> HIDE DEF saved, placed
  <2>2. CASE job.mode = link
    BY <1>1, <1>4, <2>1, <2>2
  <2>3. CASE job.mode # link
    BY <1>1, <1>2, <1>4, <2>1, <2>3
  <2> QED BY <2>2, <2>3
<1> QED BY <1>3, <1>4

\* The file of a stage that an input goes through is asked for with -save-temps.
LEMMA StageAsked ==
  ASSUME ~job.dead, ~job.dumpmachine, job.save_temps,
         NEW k \in 1..Len(job.inputs), NEW m \in StagesOf(k), m <= job.mode
  PROVE  Writable(expected_filename(Name(job.inputs[k]), m))
<1>1. m \in Through(k)
  BY DEF Through, StagesOf
<1>2. expected_filename(Name(job.inputs[k]), m) \in Saved(k)
  BY <1>1 DEF Saved
<1>3. expected_filename(Name(job.inputs[k]), m) \in UNION {Saved(n) : n \in 1..Len(job.inputs)}
  BY <1>2, Zenon
<1> HIDE DEF Name
<1> QED BY <1>3, Zenon DEF Writable, AskedFor

\* A name of an input with another extension is none the driver makes up.
LEMMA PlainExpected ==
  ASSUME JobOK(job), NEW k \in 1..Len(job.inputs), NEW m
  PROVE  ~Temporary(expected_filename(Name(job.inputs[k]), m))
<1> DEFINE i == Name(job.inputs[k])
<1>1. i \in STRING \X STRING /\ ~Temporary(i)
  BY PlainInput
<1>2. expected_filename(i, m) = i \/ \E x : expected_filename(i, m) = <<i[1], x>>
  BY DEF expected_filename
<1> HIDE DEF i
<1>3. ~Temporary(expected_filename(i, m))
  BY <1>1, <1>2 DEF Temporary
<1> QED BY <1>3 DEF i

\* A name behind -o or -MF is none either.
LEMMA PlainOut ==
  ASSUME NEW s, s # "/tmp/ucc"
  PROVE  ~Temporary(OutName(s))
<1>1. CASE s \in DOMAIN Split
  BY <1>1, DriverAssumption DEF OutName
<1>2. CASE s \notin DOMAIN Split
  BY <1>2 DEF OutName, Temporary
<1> QED BY <1>1, <1>2

\* No name that is asked for is that of a temporary file.
LEMMA AskedPlain ==
  ASSUME JobOK(job), NEW n \in AskedFor
  PROVE  ~Temporary(n)
<1>1. ~Temporary(OutName(job.output))
  BY PlainOut DEF JobOK
<1>2. CASE n = DepName
  <2>0. n # NoName
    BY Zenon DEF AskedFor
  <2>1. DepOK(job.dep)
    BY DEF JobOK
  <2>2. PICK d : d = job.dep
    OBVIOUS
  <2>3. DepName \in {NoName, OutName(d.name), <<d.name, "d">>, <<Split[d.name][1], "d">>} /\ job.deps
    BY <1>2, <2>0, <2>1, <2>2 DEF DepName, DepOK
  <2>4. /\ d.by = "option" => DepName = OutName(d.name)
        /\ d.by = "output" => DepName = <<d.name, "d">>
        /\ d.by = "input" => DepName = <<Split[d.name][1], "d">>
        /\ d.by = "none" => DepName = NoName
    BY <2>2, <2>3 DEF DepName
  <2>5. CASE d.by = "option"
    BY <1>2, <2>1, <2>2, <2>4, <2>5, PlainOut DEF DepOK
  <2>6. CASE d.by = "output"
    BY <1>2, <2>1, <2>2, <2>4, <2>6 DEF DepOK, Temporary
  <2>7. CASE d.by = "input"
    <3>1. d.name \in DOMAIN Split
      BY <2>1, <2>2, <2>7 DEF DepOK
    <3>2. Split[d.name] \in STRING \X STRING /\ ~Temporary(Split[d.name])
      BY <3>1, DriverAssumption
    <3> QED BY <1>2, <2>4, <2>7, <3>2 DEF Temporary
  <2>8. CASE d.by = "none"
    BY <1>2, <2>0, <2>4, <2>8
  <2> QED BY <2>1, <2>2, <2>5, <2>6, <2>7, <2>8 DEF DepOK
<1>3. CASE \E k \in 1..Len(job.inputs) : n \in Saved(k)
  BY <1>3, PlainExpected DEF Saved
<1>4. CASE \E k \in 1..Len(job.inputs) : n = Place(k)
  <2>1. PICK k \in 1..Len(job.inputs) : n = Place(k)
    BY <1>4
  <2>2. n \in {Stdout, OutName(job.output), expected_filename(Name(job.inputs[k]), job.mode)}
    BY <2>1 DEF Place
  <2>3. ~Temporary(Stdout)
    BY DEF Stdout, Temporary
  <2> QED BY <1>1, <2>2, <2>3, PlainExpected
<1>5. \/ n = DepName \/ (\E k \in 1..Len(job.inputs) : n \in Saved(k)) \/ n = OutName(job.output)
      \/ \E k \in 1..Len(job.inputs) : n = Place(k)
  BY AskedIs
<1> QED BY <1>1, <1>2, <1>3, <1>4, <1>5

\* What may be written to need not be kept.
LEMMA WritableFree ==
  ASSUME RemovesOK, OldOK, NEW n, Writable(n)
  PROVE  Free(n)
BY DEF RemovesOK, OldOK, Writable, Free

\* A temporary file that may be written to is registered in remove_these.
LEMMA WritableRegistered ==
  ASSUME JobOK(job), NEW n, Writable(n), Temporary(n)
  PROVE  n \in removes
<1>1. ~Temporary(NoName) /\ ~Temporary(Stdout)
  BY DEF NoName, Stdout, Temporary
<1> QED BY <1>1, AskedPlain DEF Writable

\* What a step leaves alone in the state that parsing made.
SameJob ==
  /\ job'.inputs = job.inputs /\ job'.output = job.output /\ job'.mode = job.mode
  /\ job'.save_temps = job.save_temps /\ job'.deps = job.deps /\ job'.dep = job.dep
  /\ job'.dead = job.dead /\ job'.dumpmachine = job.dumpmachine /\ job'.noop = job.noop

\* The names asked for depend on that only.
LEMMA AskedSame ==
  ASSUME SameJob
  PROVE  AskedFor' = AskedFor /\ DepName' = DepName
<1>1. DepName' = DepName
  BY DEF SameJob, DepName
<1>2. \A k : Through(k)' = Through(k)
  BY DEF SameJob, Through
<1>3. \A k : Saved(k)' = Saved(k)
  BY <1>2 DEF SameJob, Saved
<1>4. \A k : Place(k)' = Place(k)
  BY DEF SameJob, Place
<1>5. AskedFor' = AskedFor
  BY <1>1, <1>2, <1>3, <1>4 DEF SameJob, AskedFor
<1> QED BY <1>1, <1>5

-----------------------------------------------------------------------------
(* Files.                                                                  *)

\* A file is as it was.
Untouched(n) == (n \in DOMAIN fs' <=> n \in DOMAIN fs) /\ (n \in DOMAIN fs => fs'[n] = fs[n])

\* Changing only what may be written to keeps the old files, and temporary
\* files stay registered.
LEMMA WriteKeeps ==
  ASSUME DriverInv, AskedFor' = AskedFor, old' = old, removes' = removes,
         \A n : Writable(n) \/ Untouched(n)
  PROVE  Kept' /\ Registered'
<1>1. ASSUME NEW n \in DOMAIN old, n \notin AskedFor PROVE n \in DOMAIN fs' /\ fs'[n] = old[n]
  <2>1. ~Free(n)
    BY <1>1 DEF Free
  <2>2. Untouched(n)
    BY <2>1, WritableFree DEF DriverInv
  <2> QED BY <1>1, <2>2 DEF DriverInv, Kept, Untouched
<1>2. ASSUME NEW n \in DOMAIN fs', Temporary(n) PROVE n \in removes
  <2>1. CASE Writable(n)
    BY <1>2, <2>1, WritableRegistered DEF DriverInv
  <2>2. CASE Untouched(n)
    BY <1>2, <2>2 DEF Untouched, DriverInv, Registered
  <2> QED BY <2>1, <2>2
<1> QED BY <1>1, <1>2 DEF Kept, Registered, Temporary

\* Writing a file touches no other ...
LEMMA WriteTouches ==
  ASSUME NEW f, NEW n, NEW data, fs' = Write(f, n, data) \/ fs' = f, NEW x, x # n
  PROVE  (x \in DOMAIN fs' <=> x \in DOMAIN f) /\ (x \in DOMAIN f => fs'[x] = f[x])
BY DEF Write, Over

\* ... and neither does removing some.
LEMMA WithoutTouches ==
  ASSUME NEW f, NEW gone, fs' = Without(f, gone), NEW x, x \notin gone
  PROVE  (x \in DOMAIN fs' <=> x \in DOMAIN f) /\ (x \in DOMAIN f => fs'[x] = f[x])
BY DEF Without

\* Writing one file.
LEMMA WriteOne ==
  ASSUME DriverInv, AskedFor' = AskedFor, old' = old, removes' = removes,
         NEW n, NEW data, Writable(n), fs' = fs \/ fs' = Write(fs, n, data)
  PROVE  Kept' /\ Registered'
<1>1. ASSUME NEW x PROVE Writable(x) \/ Untouched(x)
  BY WriteTouches DEF Untouched
<1> QED BY <1>1, WriteKeeps

-----------------------------------------------------------------------------
(* The steps.                                                              *)

\* Where a tool is waited for, the places to go on at.
Places == {"create", "cc1", "as", "post_link", "end", "rename"}

\* What a step keeps that leaves the inputs, the names and the list alone.
LEMMA SameFiles ==
  ASSUME DriverInv, SameJob, UNCHANGED <<files, removes, old>>, moved' \in Nat
  PROVE  /\ pc \notin Ended => FilesOK'
         /\ RemovesOK' /\ OldOK' /\ AskedFor' = AskedFor /\ \A n : Writable(n)' <=> Writable(n)
<1>1. AskedFor' = AskedFor
  BY AskedSame
<1>2. \A n : Writable(n)' <=> Writable(n)
  BY <1>1 DEF Writable
<1>3. ASSUME pc \notin Ended PROVE FilesOK'
  <2>1. ASSUME NEW k \in 1..Len(files) PROVE FileOK(k)'
    <3>1. FileOK(k)
      BY <1>3 DEF DriverInv, FilesOK
    <3>2. files'[k] = files[k] /\ job'.inputs = job.inputs /\ job'.mode = job.mode
      BY DEF SameJob
    <3> QED BY <1>2, <3>1, <3>2 DEF FileOK, StagesOf
  <2> QED BY <1>3, <2>1 DEF DriverInv, FilesOK, SameJob
<1> QED BY <1>1, <1>2, <1>3 DEF DriverInv, RemovesOK, OldOK, Temporary

\* What runner() does.
LEMMA StartKeeps ==
  ASSUME DriverInv, AskedFor' = AskedFor, UNCHANGED <<old, removes>>, NEW tool, NEW in, NEW out, NEW then,
         Writable(out), Start(tool, in, out, then)
  PROVE  /\ Kept' /\ Registered'
         /\ pc' = then \/ (pc' = "wait" /\ running'.out = out /\ running'.then = then)
<1>1. fs' = fs \/ fs' = Write(fs, out, <<Partial>>)
  BY DEF Start
<1>2. Kept' /\ Registered'
  BY <1>1, WriteOne
<1> QED BY <1>2 DEF Start

\* A place the driver may go on at.
GoesOn(then) ==
  /\ then \in Places
  /\ then \in {"cc1", "as"} => Len(files) > 0
  /\ then = "cc1" => job.mode # preproc
  /\ then = "as" => job.mode \notin {preproc, compile}
  /\ then = "rename" => job.mode # link

\* A step that may start a tool and goes on at such a place.
LEMMA RunKeeps ==
  ASSUME DriverInv, Busy, JobOK(job'), SameJob, UNCHANGED <<files, old, removes>>, moved' \in Nat,
         NEW tool, NEW in, NEW out, NEW then, Writable(out), GoesOn(then),
         Start(tool, in, out, then) \/ (pc' = then /\ UNCHANGED fs)
  PROVE  DriverInv'
<1>1. FilesOK' /\ RemovesOK' /\ OldOK' /\ AskedFor' = AskedFor /\ \A n : Writable(n)' <=> Writable(n)
  BY SameFiles DEF Busy
<1>2. /\ Kept' /\ Registered'
      /\ pc' = then \/ (pc' = "wait" /\ running'.out = out /\ running'.then = then)
  <2>1. CASE Start(tool, in, out, then)
    BY <1>1, <2>1, StartKeeps
  <2>2. CASE pc' = then /\ UNCHANGED fs
    BY <1>1, <2>2 DEF DriverInv, Kept, Registered, Temporary
  <2> QED BY <2>1, <2>2
<1>3. PlaceOK' /\ pc' # "done"
  <2>1. CASE pc' = then
    BY <2>1 DEF PlaceOK, After, GoesOn, Places, SameJob
  <2>2. CASE pc' = "wait" /\ running'.out = out /\ running'.then = then
    <3>1. Writable(running.out)'
      BY <1>1, <2>2
    <3> QED BY <2>2, <3>1 DEF PlaceOK, After, GoesOn, Places, SameJob
  <2> QED BY <1>2, <2>1, <2>2
<1>4. ~job'.dead /\ ~job'.dumpmachine
  BY DEF DriverInv, SameJob
<1> QED BY <1>1, <1>2, <1>3, <1>4 DEF DriverInv

\* The file being translated.
LEMMA CurOK ==
  ASSUME DriverInv, pc \in {"cpp", "cc1", "as"}
  PROVE  /\ Len(files) > 0 /\ Busy /\ Writable(Cur.preproc)
         /\ pc = "cc1" => Writable(Cur.compile)
         /\ pc = "as" => Writable(Cur.assemb)
<1>0. FilesOK /\ PlaceOK /\ Busy
  BY DEF DriverInv, Busy, Ended
<1>1. Len(files) > 0
  BY <1>0 DEF PlaceOK, After
<1>2. Len(files) \in Nat
  BY <1>0 DEF FilesOK
<1>3. FileOK(Len(files))
  BY <1>0, <1>1, <1>2 DEF FilesOK
<1> QED BY <1>0, <1>1, <1>3 DEF FileOK, Cur, Index, PlaceOK, After

\* Leaving the state parsing made alone.
LEMMA JobSame == ASSUME job' = job PROVE SameJob
BY DEF SameJob

\* gen_obj_file() runs cpp, which may add __ASSEMBLER__ to the options.
LEMMA CppKeeps == ASSUME DriverInv, RunCpp PROVE DriverInv'
<1>1. /\ Len(files) > 0 /\ Writable(Cur.preproc) /\ Busy
  BY CurOK DEF RunCpp
<1>2. JobOK(job') /\ SameJob
  <2>1. JobOK(job)
    BY DEF DriverInv
  <2>2. job' = job \/ \E tools, a : job' = ADD_ARG(job, tools, a)
    BY DEF RunCpp
  <2>3. JobOK(job')
    BY <2>1, <2>2, AddLike, LikeOK
  <2>4. SameJob
    BY <2>1, <2>2 DEF SameJob, JobOK, Fields, ADD_ARG
  <2> QED BY <2>3, <2>4
<1>3. PICK next \in {"create", "cc1"} :
        /\ \/ pc' = next /\ UNCHANGED fs
           \/ Start("cpp", Cur.in, Cur.preproc, next)
        /\ next = "cc1" => job.mode # preproc
  BY DEF RunCpp
<1>4. UNCHANGED <<files, old, removes>> /\ moved' \in Nat
  BY DEF RunCpp, DriverInv, FilesOK, Ended
<1>5. GoesOn(next)
  BY <1>1, <1>3 DEF GoesOn, Places
<1> QED BY <1>1, <1>2, <1>3, <1>4, <1>5, RunKeeps

\* gen_obj_file() runs cc1.
LEMMA Cc1Keeps == ASSUME DriverInv, RunCc1 PROVE DriverInv'
<1>1. /\ Len(files) > 0 /\ Writable(Cur.compile) /\ Busy
  BY CurOK DEF RunCc1
<1>2. JobOK(job') /\ SameJob
  BY JobSame DEF DriverInv, RunCc1
<1>3. PICK next \in {"create", "as"}, in \in {Cur.preproc, Cur.in} :
        /\ \/ pc' = next /\ UNCHANGED fs
           \/ Start("cc1", in, Cur.compile, next)
        /\ next = "as" => job.mode # compile
  BY DEF RunCc1
<1>4. UNCHANGED <<files, old, removes>> /\ moved' \in Nat /\ job.mode # preproc
  BY DEF RunCc1, DriverInv, FilesOK, Ended, PlaceOK, After
<1>5. GoesOn(next)
  BY <1>1, <1>3, <1>4 DEF GoesOn, Places
<1> QED BY <1>1, <1>2, <1>3, <1>4, <1>5, RunKeeps

\* gen_obj_file() runs the assembler.
LEMMA AsKeeps == ASSUME DriverInv, RunAs PROVE DriverInv'
<1>1. Writable(Cur.assemb) /\ Busy
  BY CurOK DEF RunAs
<1>2. JobOK(job') /\ SameJob
  BY JobSame DEF DriverInv, RunAs
<1>3. PICK in : \/ pc' = "create" /\ UNCHANGED fs
                \/ Start("as", in, Cur.assemb, "create")
  BY DEF RunAs
<1>4. UNCHANGED <<files, old, removes>> /\ moved' \in Nat /\ GoesOn("create")
  BY DEF RunAs, DriverInv, FilesOK, Ended, GoesOn, Places
<1>6. Start("as", in, Cur.assemb, "create") \/ (pc' = "create" /\ UNCHANGED fs)
  BY <1>3
<1> QED BY <1>1, <1>2, <1>4, <1>6, RunKeeps

\* link_all() and the command behind it.
LEMMA LinkKeeps == ASSUME DriverInv, link_all \/ PostLink PROVE DriverInv'
<1>0. Busy
  BY DEF link_all, PostLink, Busy, Ended
<1>1. Writable(NoName) /\ (link_all => Writable(OutName(job.output)))
  <2>1. ASSUME link_all PROVE job.mode = link /\ ~job.dead /\ ~job.dumpmachine
    BY <1>0, <2>1 DEF link_all, DriverInv, PlaceOK, After, Ended
  <2> QED BY <2>1, AskedIs DEF Writable
<1>2. JobOK(job') /\ SameJob
  BY JobSame DEF DriverInv, link_all, PostLink
<1>3. UNCHANGED <<files, old, removes>> /\ moved' \in Nat /\ GoesOn("post_link") /\ GoesOn("end")
  BY DEF link_all, PostLink, DriverInv, FilesOK, Ended, GoesOn, Places
<1>4. \/ link_all /\ Start("ld", NoName, OutName(job.output), "post_link")
      \/ Start("sh", NoName, NoName, "end") \/ (pc' = "end" /\ UNCHANGED fs)
  BY DEF link_all, PostLink
<1>5. CASE link_all /\ Start("ld", NoName, OutName(job.output), "post_link")
  BY <1>0, <1>1, <1>2, <1>3, <1>5, RunKeeps
<1>6. CASE Start("sh", NoName, NoName, "end") \/ (pc' = "end" /\ UNCHANGED fs)
  BY <1>0, <1>1, <1>2, <1>3, <1>6, RunKeeps
<1> QED BY <1>4, <1>5, <1>6

\* Steps that end the driver, or that go on without touching a file.
LEMMA QuietKeeps ==
  ASSUME DriverInv, UNCHANGED <<job, files, fs, old, removes>>,
         pc' \in {"exit", "killed"} \/ (moved' \in Nat /\ pc \notin Ended /\ pc' \in {"create", "link", "end", "rename"}),
         pc' = "rename" => job.mode # link, pc' = "link" => job.mode = link,
         pc' \in {"create", "link", "rename"} => ~job.dead /\ ~job.dumpmachine
  PROVE  DriverInv'
<1>0. SameJob
  BY JobSame
<1>1. RemovesOK' /\ OldOK' /\ AskedFor' = AskedFor
  BY <1>0, AskedSame DEF DriverInv, RemovesOK, OldOK, Temporary
<1>2. pc' \notin Ended => FilesOK' /\ PlaceOK'
  <2>1. ASSUME pc' \notin Ended PROVE FilesOK'
    BY <1>0, <2>1, SameFiles DEF Ended
  <2>2. ASSUME pc' \notin Ended PROVE PlaceOK'
    BY <2>2 DEF PlaceOK, After, Ended
  <2> QED BY <2>1, <2>2
<1>3. Kept' /\ Registered'
  BY <1>1 DEF DriverInv, Kept, Registered, Temporary
<1>4. Busy' => ~job'.dead /\ ~job'.dumpmachine
  BY DEF Busy, Ended
<1>5. pc' # "done"
  OBVIOUS
<1> QED BY <1>1, <1>2, <1>3, <1>4, <1>5 DEF DriverInv

\* ... and those that change files and end it.
LEMMA RemoveKeeps ==
  ASSUME DriverInv, UNCHANGED <<job, old, removes>>, pc' = "exit", \A n : Writable(n) \/ Untouched(n)
  PROVE  DriverInv'
<1>1. RemovesOK' /\ OldOK' /\ AskedFor' = AskedFor
  BY JobSame, AskedSame DEF DriverInv, RemovesOK, OldOK, Temporary
<1>2. Kept' /\ Registered'
  BY <1>1, WriteKeeps
<1> QED BY <1>1, <1>2 DEF DriverInv, Ended, Busy

\* The dependency file may be written.
LEMMA DepWritable ==
  ASSUME ~job.dead, ~job.dumpmachine
  PROVE  Writable(DepName)
BY Zenon DEF Writable, AskedFor

\* cpp writes to its output and to the dependency file.
LEMMA DepsTouch ==
  ASSUME NEW f, NEW data, fs' = WithDeps(running, f, data), NEW x, x # DepName
  PROVE  (x \in DOMAIN fs' <=> x \in DOMAIN f) /\ (x \in DOMAIN f => fs'[x] = f[x])
BY DEF WithDeps, Write, Over

\* wait() returns, in each of its ways.
LEMMA ToolKeeps == ASSUME DriverInv, ToolOk \/ ToolFailed \/ ToolMissing PROVE DriverInv'
<1>0. pc = "wait" /\ Busy
  BY DEF ToolOk, ToolFailed, ToolMissing, Busy, Ended
<1>1. /\ FilesOK /\ PlaceOK /\ Writable(running.out) /\ running.then \in Places
      /\ ~job.dead /\ ~job.dumpmachine
  BY <1>0 DEF DriverInv, PlaceOK, Places, Ended, Busy
<1>2. Writable(DepName)
  BY <1>1, DepWritable
<1>3. CASE ToolOk
  <2> DEFINE f == IF running.out = NoName THEN fs ELSE Write(fs, running.out, Result(running))
  <2>1. /\ fs' = WithDeps(running, f, Deps)
        /\ UNCHANGED <<job, files, old, removes>> /\ moved' \in Nat
        /\ pc' = running.then
    BY <1>1, <1>3 DEF ToolOk, FilesOK
  <2>2. FilesOK' /\ RemovesOK' /\ OldOK' /\ AskedFor' = AskedFor
    BY <1>0, <2>1, SameFiles, JobSame DEF Busy
  <2>3. ASSUME NEW x, ~Writable(x) PROVE Untouched(x)
    <3>1. x # DepName /\ x # running.out
      BY <1>1, <1>2, <2>3
    <3>2. (x \in DOMAIN f <=> x \in DOMAIN fs) /\ (x \in DOMAIN fs => f[x] = fs[x])
      BY <3>1 DEF Write, Over
    <3> HIDE DEF f
    <3>3. (x \in DOMAIN fs' <=> x \in DOMAIN f) /\ (x \in DOMAIN f => fs'[x] = f[x])
      BY <2>1, <3>1, DepsTouch
    <3> QED BY <3>2, <3>3 DEF Untouched
  <2>4. Kept' /\ Registered'
    BY <2>1, <2>2, <2>3, WriteKeeps
  <2>5. PlaceOK' /\ pc' # "done"
    BY <1>0, <1>1, <2>1 DEF PlaceOK, After, Places
  <2> QED BY <1>1, <2>1, <2>2, <2>4, <2>5 DEF DriverInv
<1>4. CASE ToolFailed
  <2>1. /\ pc' = "exit" /\ UNCHANGED <<job, files, moved, old, removes>>
        /\ \E f \in {fs, WithDeps(running, fs, Partial), WithDeps(running, fs, Deps)} : fs' = Without(f, {running.out})
    BY <1>4 DEF ToolFailed, Exit
  <2>2. PICK f \in {fs, WithDeps(running, fs, Partial), WithDeps(running, fs, Deps)} : fs' = Without(f, {running.out})
    BY <2>1
  <2>3. ASSUME NEW x, ~Writable(x) PROVE Untouched(x)
    <3>1. x # DepName /\ x # running.out
      BY <1>1, <1>2, <2>3
    <3>2. (x \in DOMAIN f <=> x \in DOMAIN fs) /\ (x \in DOMAIN fs => f[x] = fs[x])
      BY <2>2, <3>1 DEF WithDeps, Write, Over
    <3>3. (x \in DOMAIN fs' <=> x \in DOMAIN f) /\ (x \in DOMAIN f => fs'[x] = f[x])
      BY <2>2, <3>1, WithoutTouches
    <3> QED BY <3>2, <3>3 DEF Untouched
  <2> QED BY <2>1, <2>3, RemoveKeeps
<1>5. CASE ToolMissing
  <2>1. fs' = Without(fs, removes \cup {running.out}) /\ pc' = "exit"
        /\ UNCHANGED <<job, files, moved, old, removes>>
    BY <1>5 DEF ToolMissing, Exit
  <2>2. ASSUME NEW x, ~Writable(x) PROVE Untouched(x)
    <3>1. x \notin removes \cup {running.out}
      BY <1>1, <2>2 DEF Writable
    <3> QED BY <2>1, <3>1, WithoutTouches DEF Untouched
  <2> QED BY <2>1, <2>2, RemoveKeeps
<1> QED BY <1>3, <1>4, <1>5

\* unlink_files() removes the temporary files, and no other.
LEMMA UnlinkKeeps == ASSUME DriverInv, unlink_files PROVE DriverInv'
<1>0. pc' \in Ended /\ UNCHANGED <<job, old>>
  BY DEF unlink_files, Ended
<1>1. CASE removes = {}
  <2>1. pc' = "done" /\ UNCHANGED <<fs, removes>>
    BY <1>1 DEF unlink_files
  <2>2. \A n \in DOMAIN fs : ~Temporary(n)
    BY <1>1 DEF DriverInv, Registered
  <2>3. AskedFor' = AskedFor
    BY <1>0, JobSame, AskedSame
  <2> QED BY <1>0, <2>1, <2>2, <2>3 DEF DriverInv, Busy, Ended, RemovesOK, OldOK, Kept, Registered, Temporary
<1>2. CASE removes # {}
  <2>1. PICK n \in removes : fs' = Without(fs, {n}) /\ removes' = removes \ {n} /\ pc' = "exit"
    BY <1>2 DEF unlink_files
  <2>2. AskedFor' = AskedFor
    BY <1>0, JobSame, AskedSame
  <2>3. Temporary(n) /\ n \notin DOMAIN old
    BY DEF DriverInv, RemovesOK, OldOK
  <2>4. Kept'
    BY <1>0, <2>1, <2>2, <2>3 DEF DriverInv, Kept, Without
  <2>5. Registered' /\ RemovesOK' /\ OldOK'
    BY <1>0, <2>1 DEF DriverInv, Registered, RemovesOK, OldOK, Without, Temporary
  <2> QED BY <1>0, <2>1, <2>4, <2>5 DEF DriverInv, Busy, Ended
<1> QED BY <1>1, <1>2

\* A file that is not skipped has gone through some stage of the mode.
LEMMA NotSkipped ==
  ASSUME DriverInv, pc = "rename", NEW k \in 1..Len(files), ~Skipped(files[k])
  PROVE  Through(k) # {}
<1>1. FilesOK /\ job.mode \in {preproc, compile, assemb}
  BY DEF DriverInv, Ended, PlaceOK, After, JobOK, Tools
<1>2. FileOK(k)
  BY <1>1 DEF FilesOK
<1> DEFINE m == FILE_IN_MODE(files[k])
<1>3. m <= job.mode /\ m \in StagesOf(k)
  BY <1>1, <1>2 DEF Skipped, FILE_IN_MODE, FileOK, preproc, compile, assemb, link
<1> HIDE DEF m
<1> QED BY <1>3 DEF Through, StagesOf

\* Where rename_files() puts a result.
LEMMA DestinationOK ==
  ASSUME DriverInv, pc = "rename", moved < Len(files)
  PROVE  Writable(Destination(Next1))
<1>1. FilesOK /\ job.mode # link /\ ~job.dead /\ ~job.dumpmachine
  BY DEF DriverInv, Ended, Busy, PlaceOK, After
<1>2. PICK k \in Nat : k = moved + 1
  BY <1>1 DEF FilesOK
<1>3. k \in 1..Len(files) /\ k \in 1..Len(job.inputs)
  <2>1. Len(files) \in Nat /\ Len(job.inputs) \in Nat /\ Len(files) <= Len(job.inputs) /\ moved \in Nat
    BY <1>1 DEF FilesOK, DriverInv, JobOK
  <2> QED BY <1>2, <2>1
<1>4. Next1.in = Name(job.inputs[k]) /\ Next1 = files[k]
  BY <1>1, <1>2, <1>3 DEF FilesOK, FileOK, Next1
<1>5. Destination(Next1) \in {NoName, Stdout} \/ (~Skipped(Next1) /\ Destination(Next1) = Place(k))
  BY <1>4 DEF Destination, Place, preproc, compile
<1>6. ASSUME ~Skipped(Next1) PROVE Writable(Place(k))
  <2>1. Through(k) # {}
    BY <1>3, <1>4, <1>6, NotSkipped
  <2> QED BY <1>1, <1>3, <2>1, AskedIs DEF Writable
<1>7. Writable(NoName) /\ Writable(Stdout)
  BY DEF Writable
<1> QED BY <1>5, <1>6, <1>7

\* rename_or_move() writes to a result.
LEMMA RenameKeeps == ASSUME DriverInv, rename_or_move PROVE DriverInv'
<1>0. Busy /\ FilesOK /\ job.mode # link
  BY DEF rename_or_move, Busy, Ended, DriverInv, PlaceOK, After
<1>1. Writable(Destination(Next1))
  BY DestinationOK DEF rename_or_move
<1>2. /\ JobOK(job') /\ SameJob /\ UNCHANGED <<files, old, removes>> /\ moved' \in Nat /\ GoesOn("rename")
  BY <1>0, JobSame DEF rename_or_move, DriverInv, FilesOK, GoesOn, Places
<1>3. Start("cat", Next1.out, Destination(Next1), "rename")
  BY DEF rename_or_move
<1> QED BY <1>0, <1>1, <1>2, <1>3, RunKeeps

\* cat_fnames() writes to a result or to standard output.
LEMMA CatKeeps == ASSUME DriverInv, cat_fnames PROVE DriverInv'
<1>0. Busy /\ FilesOK /\ job.mode # link /\ ~job.dead /\ ~job.dumpmachine
  BY DEF cat_fnames, Busy, Ended, DriverInv, PlaceOK, After
<1>1. Writable(Destination(Next1))
  BY DestinationOK DEF cat_fnames
<1>2. /\ UNCHANGED <<job, files, old, removes>> /\ moved' \in Nat /\ pc' \in {"rename", "exit"}
  BY <1>0 DEF cat_fnames, Exit, FilesOK
<1>3. \E data : fs' = fs \/ fs' = Write(fs, Destination(Next1), data)
  BY DEF cat_fnames
<1>4. FilesOK' /\ RemovesOK' /\ OldOK' /\ AskedFor' = AskedFor
  BY <1>0, <1>2, SameFiles, JobSame DEF Busy
<1>5. Kept' /\ Registered'
  BY <1>1, <1>2, <1>3, <1>4, WriteOne
<1>6. (pc' \notin Ended => PlaceOK') /\ pc' # "done"
  BY <1>0, <1>2 DEF PlaceOK, After, Ended
<1> QED BY <1>0, <1>2, <1>4, <1>5, <1>6 DEF DriverInv

\* The kinds of inputs.
Kinds == {"c", "i", "S", "s", "o"}
LEMMA KindOK == ASSUME NEW input PROVE Kind(input) \in Kinds
BY DEF Kind, Kinds

\* The stages that are filled are stages of the kind.
LEMMA FilledStages ==
  ASSUME NEW kind \in Kinds, NEW k \in 1..Len(Filled(kind))
  PROVE  Filled(kind)[k] \in ToSet(Stages(kind))
<1> DEFINE s == Stages(kind)
<1>1. s \in Seq(Tools)
  <2>1. s \in {<<preproc, compile, assemb>>, <<compile, assemb>>, <<preproc, assemb>>, <<assemb>>, <<>>}
    BY DEF Stages, Kinds
  <2>2. /\ <<preproc, compile, assemb>> \in Seq(Tools) /\ <<compile, assemb>> \in Seq(Tools)
        /\ <<preproc, assemb>> \in Seq(Tools) /\ <<assemb>> \in Seq(Tools) /\ <<>> \in Seq(Tools)
    BY DEF Tools
  <2> HIDE DEF s
  <2> QED BY <2>1, <2>2
<1>2. \/ Filled(kind) = s
      \/ \E n \in 1..Len(s) : Filled(kind) = SubSeq(s, 1, n)
  <2> DEFINE n == CHOOSE n \in 1..Len(s) : s[n] = job.mode
  <2>1. CASE \E j \in 1..Len(s) : s[j] = job.mode
    <3>1. n \in 1..Len(s)
      BY <2>1
    <3>2. Filled(kind) = SubSeq(s, 1, n)
      BY <2>1 DEF Filled
    <3> HIDE DEF n, s
    <3> QED BY <3>1, <3>2
  <2>2. CASE ~\E j \in 1..Len(s) : s[j] = job.mode
    BY <2>2 DEF Filled
  <2> QED BY <2>1, <2>2
<1> HIDE DEF s
<1>3. k \in 1..Len(s) /\ Filled(kind)[k] = s[k]
  <2>1. CASE Filled(kind) = s
    BY <2>1
  <2>2. CASE \E n \in 1..Len(s) : Filled(kind) = SubSeq(s, 1, n)
    BY <1>1, <2>2
  <2> QED BY <1>2, <2>1, <2>2
<1>4. Filled(kind)[k] \in ToSet(s)
  BY <1>3 DEF ToSet
<1> QED BY <1>4 DEF s

\* The names Made() gives the stages of input n.
LEMMA MadeNames ==
  ASSUME NEW n \in 1..Len(job.inputs)
  PROVE  LET f == Made(Kind(job.inputs[n]), n, Name(job.inputs[n]))
         IN /\ f.in = Name(job.inputs[n])
            /\ f.preproc = NoName \/ (preproc \in StagesOf(n) /\ f.preproc = tmpfilenam(Name(job.inputs[n]), n, preproc))
            /\ f.compile = NoName \/ (compile \in StagesOf(n) /\ f.compile = tmpfilenam(Name(job.inputs[n]), n, compile))
            /\ f.assemb = NoName \/ (assemb \in StagesOf(n) /\ f.assemb = tmpfilenam(Name(job.inputs[n]), n, assemb))
<1> DEFINE in == Name(job.inputs[n])
           kind == Kind(job.inputs[n])
           f == Made(kind, n, in)
           At(stage) == IF \E k \in 1..Len(Filled(kind)) : Filled(kind)[k] = stage THEN tmpfilenam(in, n, stage) ELSE NoName
<1>1. f.in = in /\ f.preproc = At(preproc) /\ f.compile = At(compile) /\ f.assemb = At(assemb)
  BY DEF Made
<1>2. kind \in Kinds
  BY KindOK
<1>3. ASSUME NEW m PROVE At(m) = NoName \/ (m \in StagesOf(n) /\ At(m) = tmpfilenam(in, n, m))
  <2>1. CASE \E k \in 1..Len(Filled(kind)) : Filled(kind)[k] = m
    <3>1. m \in ToSet(Stages(kind))
      BY <1>2, <2>1, FilledStages
    <3> QED BY <2>1, <3>1 DEF StagesOf
  <2>2. CASE ~\E k \in 1..Len(Filled(kind)) : Filled(kind)[k] = m
    BY <2>2
  <2> QED BY <2>1, <2>2
<1> HIDE DEF f, At
<1>4. /\ f.in = in
      /\ f.preproc = NoName \/ (preproc \in StagesOf(n) /\ f.preproc = tmpfilenam(in, n, preproc))
      /\ f.compile = NoName \/ (compile \in StagesOf(n) /\ f.compile = tmpfilenam(in, n, compile))
      /\ f.assemb = NoName \/ (assemb \in StagesOf(n) /\ f.assemb = tmpfilenam(in, n, assemb))
  BY <1>1, <1>3, Zenon
<1> QED BY <1>4 DEF f

\* create_file() registers each temporary file that it makes.
LEMMA CreateKeeps == ASSUME DriverInv, create_file PROVE DriverInv'
<1> DEFINE n == Len(files)
           input == job.inputs[n + 1]
           f == Made(Kind(input), n + 1, Name(input))
           new == IF job.save_temps THEN {} ELSE Temps(f)
<1>0. FilesOK /\ Busy /\ ~job.dead /\ ~job.dumpmachine
  BY DEF create_file, DriverInv, Busy, Ended
<1>1. /\ JobOK(job) /\ n \in Nat /\ Len(job.inputs) \in Nat /\ n < Len(job.inputs)
      /\ (\E S : files \in Seq(S)) /\ moved \in Nat
  BY <1>0 DEF create_file, Index, DriverInv, FilesOK, JobOK
<1>2. n + 1 \in 1..Len(job.inputs)
  BY <1>1
<1>3. /\ f.in = Name(input)
      /\ f.preproc = NoName \/ (preproc \in StagesOf(n + 1) /\ f.preproc = tmpfilenam(Name(input), n + 1, preproc))
      /\ f.compile = NoName \/ (compile \in StagesOf(n + 1) /\ f.compile = tmpfilenam(Name(input), n + 1, compile))
      /\ f.assemb = NoName \/ (assemb \in StagesOf(n + 1) /\ f.assemb = tmpfilenam(Name(input), n + 1, assemb))
  BY <1>2, MadeNames
<1>4. UNCHANGED <<job, running, moved, old>> /\ SameJob
  BY JobSame DEF create_file
<1>6. PICK got \in SUBSET new :
        /\ fs' = Over([x \in got |-> <<>>], fs) /\ removes' = removes \cup got
        /\ \/ files' = Append(files, f) /\ pc' = "cpp" /\ got = new
           \/ files' = files /\ pc' = "exit"
  BY DEF create_file, Index, Exit
<1> HIDE DEF f, input
<1>7. \A x \in new : Temporary(x)
  BY <1>3, TmpName DEF Temps
<1>8. RemovesOK' /\ OldOK' /\ AskedFor' = AskedFor
  <2>1. AskedFor' = AskedFor
    BY <1>4, AskedSame
  <2> QED BY <1>4, <1>6, <1>7, <2>1 DEF DriverInv, RemovesOK, OldOK, Temporary
<1>9. Kept'
  <2>1. \A x \in got : x \notin DOMAIN old
    BY <1>7 DEF DriverInv, OldOK
  <2> QED BY <1>4, <1>6, <1>8, <2>1 DEF DriverInv, Kept, Over
<1>10. Registered'
  BY <1>6 DEF DriverInv, Registered, Over, Temporary
<1>11. \A x : Writable(x) => Writable(x)'
  BY <1>6, <1>8 DEF Writable
<1>13. CASE files' = files /\ pc' = "exit"
  BY <1>1, <1>4, <1>8, <1>9, <1>10, <1>13 DEF DriverInv, Ended, Busy
<1>14. CASE files' = Append(files, f) /\ pc' = "cpp" /\ got = new
  <2>1. /\ \E S : files' \in Seq(S)
        /\ Len(files') = n + 1 /\ files'[n + 1] = f /\ \A k \in 1..n : files'[k] = files[k]
    <3>1. PICK S : files \in Seq(S)
      BY <1>1
    <3>2. files \in Seq(S \cup {f}) /\ f \in S \cup {f}
      BY <3>1
    <3>3. files' \in Seq(S \cup {f})
      BY <1>14, <3>2
    <3> QED BY <1>14, <3>1, <3>3
  <2>2. ASSUME NEW x, NEW m \in {preproc, compile, assemb}, x \in {f.preproc, f.compile, f.assemb}, m <= job.mode,
               x = NoName \/ (m \in StagesOf(n + 1) /\ x = tmpfilenam(Name(input), n + 1, m))
        PROVE  Writable(x)'
    <3>1. CASE x = NoName
      BY <3>1 DEF Writable
    <3>2. CASE job.save_temps /\ x # NoName
      <4>1. x = expected_filename(Name(input), m) /\ m \in StagesOf(n + 1)
        BY <2>2, <3>2 DEF tmpfilenam
      <4>2. Writable(x)
        BY <1>0, <1>2, <2>2, <3>2, <4>1, StageAsked DEF input
      <4> QED BY <1>11, <4>2
    <3>3. CASE x # NoName /\ ~job.save_temps
      <4>1. x \in new
        BY <2>2, <3>3 DEF Temps
      <4> QED BY <1>6, <1>14, <4>1 DEF Writable
    <3> QED BY <3>1, <3>2, <3>3
  <2>3. PICK last \in Nat : last = n + 1
    BY <1>1
  <2>8. PICK g : g = f
    OBVIOUS
  <2>4. FileOK(last)'
    <3>1. preproc <= job.mode /\ (job.mode # preproc => compile <= job.mode)
          /\ (job.mode \notin {preproc, compile} => assemb <= job.mode)
      BY <1>1 DEF JobOK, Tools, preproc, compile, assemb, link
    <3>2. Writable(g.preproc)'
      BY <1>3, <2>2, <2>8, <3>1
    <3>3. ASSUME job.mode # preproc PROVE Writable(g.compile)'
      BY <1>3, <2>2, <2>8, <3>1, <3>3
    <3>4. ASSUME job.mode \notin {preproc, compile} PROVE Writable(g.assemb)'
      BY <1>3, <2>2, <2>8, <3>1, <3>4
    <3>5. /\ files'[last] = g /\ job'.inputs[last] = input /\ job' = job /\ StagesOf(last)' = StagesOf(last)
      BY <1>4, <2>1, <2>3, <2>8 DEF input, StagesOf
    <3>6. /\ g.in = Name(input)
          /\ g.preproc # NoName => preproc \in StagesOf(last)
          /\ g.compile # NoName => compile \in StagesOf(last)
          /\ g.assemb # NoName => assemb \in StagesOf(last)
      BY <1>3, <2>3, <2>8
    <3> QED BY <3>2, <3>3, <3>4, <3>5, <3>6 DEF FileOK
  <2>7. ASSUME NEW k \in 1..last PROVE FileOK(k)'
    <3>1. CASE k \in 1..n
      <4>1. FileOK(k)
        BY <1>0, <3>1 DEF FilesOK
      <4>2. files'[k] = files[k] /\ job' = job /\ StagesOf(k)' = StagesOf(k)
        BY <1>4, <2>1, <3>1 DEF StagesOf
      <4> QED BY <1>11, <4>1, <4>2 DEF FileOK
    <3>2. k \in 1..n \/ k = last
      BY <1>1, <2>3
    <3> QED BY <2>4, <3>1, <3>2
  <2>5. FilesOK'
    BY <1>1, <1>4, <2>1, <2>3, <2>7 DEF FilesOK
  <2>6. PlaceOK'
    BY <1>1, <1>14, <2>1 DEF PlaceOK, After
  <2> QED BY <1>0, <1>1, <1>4, <1>8, <1>9, <1>10, <1>14, <2>5, <2>6 DEF DriverInv
<1> QED BY <1>6, <1>13, <1>14

\* The files there at the start are none of the driver's.
LEMMA InitKeeps == ASSUME Init PROVE DriverInv
<1>1. PICK argv \in CommandLines, sys \in Targets : job = main(argv, sys)
  BY DEF Init
<1>2. JobOK(job)
  BY <1>1, MainOK
<1>3. /\ files = <<>> /\ moved = 0 /\ removes = {} /\ pc = "start" /\ old = fs
  BY DEF Init
<1>4. \A x \in DOMAIN fs : x \in Stale \/ \E k \in 1..Len(job.inputs) : x = Name(job.inputs[k])
  BY DEF Init, Over
<1>5. ASSUME NEW x \in DOMAIN fs PROVE ~Temporary(x) /\ x # NoName /\ x # Stdout
  BY <1>2, <1>4, PlainInput, DriverAssumption
<1>6. FilesOK
  <2>1. files \in Seq({}) /\ Len(files) = 0
    BY <1>3
  <2>2. Len(job.inputs) \in Nat
    BY <1>2 DEF JobOK
  <2> QED BY <1>3, <2>1, <2>2 DEF FilesOK
<1> QED BY <1>2, <1>3, <1>5, <1>6 DEF DriverInv, Busy, RemovesOK, OldOK, Kept, Registered, PlaceOK, After

\* DriverInv holds whatever happens.
LEMMA DriverInductive == Spec => []DriverInv
<1>1. DriverInv /\ [Next]_vars => DriverInv'
  <2> SUFFICES ASSUME DriverInv, [Next]_vars PROVE DriverInv'
    OBVIOUS
  <2>1. CASE Begin \/ Translated \/ NextFile \/ Return \/ Killed
    <3>1. /\ UNCHANGED <<job, files, fs, old, removes>>
          /\ pc' \in {"exit", "killed"} \/ (moved' \in Nat /\ pc \notin Ended /\ pc' \in {"create", "link", "end", "rename"})
      <4>1. ASSUME pc \notin Ended PROVE moved \in Nat
        BY <4>1 DEF DriverInv, FilesOK
      <4> QED BY <2>1, <4>1 DEF Begin, Translated, NextFile, Return, Killed, Exit, Ended
    <3>2. /\ pc' = "rename" => job.mode # link
          /\ pc' = "link" => job.mode = link
          /\ pc' \in {"create", "link", "rename"} => ~job.dead /\ ~job.dumpmachine
      <4>1. CASE Begin
        BY <4>1 DEF Begin, Exit
      <4>2. CASE Translated \/ NextFile
        <5>1. Busy
          BY <4>2 DEF Translated, NextFile, Busy, Ended
        <5> QED BY <4>2, <5>1 DEF Translated, NextFile, DriverInv, PlaceOK, After, Ended
      <4>3. CASE Return \/ Killed
        BY <4>3 DEF Return, Killed, Exit
      <4> QED BY <2>1, <4>1, <4>2, <4>3
    <3> QED BY <3>1, <3>2, QuietKeeps
  <2>2. CASE create_file
    BY <2>2, CreateKeeps
  <2>3. CASE RunCpp \/ RunCc1 \/ RunAs
    BY <2>3, CppKeeps, Cc1Keeps, AsKeeps
  <2>4. CASE link_all \/ PostLink
    BY <2>4, LinkKeeps
  <2>5. CASE ToolOk \/ ToolFailed \/ ToolMissing
    BY <2>5, ToolKeeps
  <2>6. CASE cat_fnames \/ rename_or_move
    BY <2>6, CatKeeps, RenameKeeps
  <2>7. CASE unlink_files
    BY <2>7, UnlinkKeeps
  <2>8. CASE UNCHANGED vars
    <3>1. UNCHANGED <<job, files, pc, running, moved, fs, old, removes>>
      BY <2>8 DEF vars
    <3>2. AskedFor' = AskedFor /\ SameJob
      BY <3>1, JobSame, AskedSame
    <3>3. \A n : Writable(n)' <=> Writable(n)
      BY <3>1, <3>2 DEF Writable
    <3>4. ASSUME pc \notin Ended PROVE FilesOK' /\ PlaceOK'
      <4>1. FilesOK'
        BY <3>1, <3>2, <3>4, SameFiles DEF DriverInv, FilesOK
      <4>2. PlaceOK'
        BY <3>1, <3>3, <3>4 DEF DriverInv, PlaceOK, After
      <4> QED BY <4>1, <4>2
    <3> QED BY <3>1, <3>2, <3>4 DEF DriverInv, Busy, RemovesOK, OldOK, Kept, Registered, Temporary
  <2> QED BY <2>1, <2>2, <2>3, <2>4, <2>5, <2>6, <2>7, <2>8 DEF Next, Step, Done
<1>2. Init => DriverInv
  BY InitKeeps
<1> QED BY <1>1, <1>2, PTL DEF Spec

\* For every command line, every set of input names and every failure: the
\* driver changes and leaves nothing but its results.
THEOREM ResultsOnly == Spec => []OnlyResultsLeft
<1>1. DriverInv => OnlyResultsLeft
  BY DEF DriverInv, Kept, OnlyResultsLeft
<1> QED BY <1>1, DriverInductive, PTL

(***************************************************************************)
(* What a failure leaves.                                                  *)
(***************************************************************************)
\* What a file may hold, and what a finished one.
Texts == {"c", "i", "S", "s", "o", "old", "dep", "partial"}
Piece == [kind : Texts, from : Nat, asm : BOOLEAN]
Whole == {p \in Piece : p.kind # "partial"}

\* The files that may hold the beginning of a text only.
Unfinished(n) ==
  \/ n = Stdout
  \/ pc = "wait" /\ n = running.out /\ n # NoName
  \/ pc = "killed"
  \/ pc \in {"exit", "done"} /\ status # 0 /\ (n = DepName \/ (job.mode = preproc /\ n = OutName(job.output)))

FilesWhole == \A n \in DOMAIN fs : fs[n] \in Seq(Piece) /\ (Unfinished(n) \/ fs[n] \in Seq(Whole))

\* The tool being waited for.
Child ==
  pc = "wait" =>
    /\ running.tool \in {"cpp", "cc1", "as", "ld", "sh", "cat"}
    /\ running.tool = "sh" => running.out = NoName
    /\ running.tool = "cat" => running.in \notin {running.out, Stdout}

\* No stage and no object is the standard output.
Named == \A k \in 1..Len(files) : Stdout \notin {files[k].preproc, files[k].compile, files[k].out}

\* Results that the driver will copy are there: cpp has run on every input but
\* the one it is about to run on, and so has cc1.
HasRun(k, places) == ~job.noop /\ pc \notin Ended /\ (k < Len(files) \/ After \notin places)
There ==
  \A k \in 1..Len(files) :
    /\ HasRun(k, {"cpp"}) /\ files[k].preproc # NoName => files[k].preproc \in DOMAIN fs
    /\ HasRun(k, {"cpp", "cc1"}) /\ job.mode # preproc /\ files[k].compile # NoName
         => files[k].compile \in DOMAIN fs

\* The inductive invariant, with DriverInv, of FailureIsClean.
FailInv == FilesWhole /\ Child /\ Named /\ There

-----------------------------------------------------------------------------
\* FlattenSeq appends the parts one by one.
LEMMA FlattenUnfolds ==
  ASSUME NEW ss, NEW len \in Nat, len = Len(ss), len > 0
  PROVE  \E f : /\ FlattenSeq(ss) = f[len] /\ f[1] = ss[1]
                /\ \A n \in 2..len : f[n] = f[n - 1] \o ss[n]
<1> DEFINE Rec(f, k) == f = [i \in 1..k |-> IF i = 1 THEN ss[i] ELSE f[i - 1] \o ss[i]]
           Bad == {k \in Nat : ~\E f : Rec(f, k)}
<1>1. Bad = {}
  <2> SUFFICES ASSUME Bad # {} PROVE FALSE
    OBVIOUS
  <2>1. PICK k \in Bad : \A y \in Bad : k <= y
    BY NatMin
  <2>2. k # 0
    <3>1. Rec([i \in 1..0 |-> ss[1]], 0)
      OBVIOUS
    <3> QED BY <3>1
  <2>3. k - 1 \in Nat /\ k - 1 \notin Bad
    <3>1. k \in Nat
      OBVIOUS
    <3> HIDE DEF Bad
    <3> QED BY <2>1, <2>2, <3>1
  <2>4. PICK f : Rec(f, k - 1)
    BY <2>3
  <2> DEFINE g == [i \in 1..k |-> IF i = k THEN IF k = 1 THEN ss[1] ELSE f[k - 1] \o ss[k] ELSE f[i]]
  <2>5. ASSUME NEW i \in 1..k
        PROVE g[i] = IF i = 1 THEN ss[i] ELSE g[i - 1] \o ss[i]
    <3>1. CASE i = k
      BY <3>1, <2>2, <2>3
    <3>2. CASE i # k
      <4>1. i \in 1..(k - 1) /\ (i # 1 => i - 1 \in 1..(k - 1))
        BY <3>2, <2>3
      <4>2. g[i] = f[i] /\ (i # 1 => g[i - 1] = f[i - 1])
        BY <4>1, <3>2
      <4> HIDE DEF g
      <4> QED BY <4>1, <4>2, <2>4
    <3> QED BY <3>1, <3>2
  <2>6. Rec(g, k)
    <3>1. g = [i \in 1..k |-> g[i]]
      OBVIOUS
    <3> HIDE DEF g
    <3> QED BY <3>1, <2>5
  <2> QED BY <2>1, <2>6
<1>2. \E f : Rec(f, len)
  <2>1. len \notin Bad
    BY <1>1, Zenon
  <2> QED BY <2>1
<1> DEFINE fl == CHOOSE f : Rec(f, len)
<1>3. FlattenSeq(ss) = fl[len]
  BY DEF FlattenSeq
<1>4. Rec(fl, len)
  BY <1>2
<1> HIDE DEF fl
<1>5. \A i \in 1..len : fl[i] = IF i = 1 THEN ss[i] ELSE fl[i - 1] \o ss[i]
  BY <1>4
<1>6. fl[1] = ss[1]
  <2>1. 1 \in 1..len
    OBVIOUS
  <2> QED BY <1>5, <2>1
<1>7. ASSUME NEW n \in 2..len PROVE fl[n] = fl[n - 1] \o ss[n]
  <2>1. n \in 1..len /\ n # 1
    OBVIOUS
  <2> QED BY <1>5, <2>1
<1> QED BY <1>3, <1>6, <1>7

\* Flattening makes a sequence of what the parts are sequences of.
LEMMA FlattenType ==
  ASSUME NEW S, NEW ss, NEW len \in Nat, len = Len(ss), \A k \in 1..len : ss[k] \in Seq(S),
         len = 0 => ss = <<>>
  PROVE  FlattenSeq(ss) \in Seq(S)
<1>2. CASE len = 0
  <2>1. FlattenSeq(ss) = <<>>
    BY <1>2 DEF FlattenSeq
  <2> QED BY <2>1
<1>3. CASE len > 0
  <2>1. PICK f : /\ FlattenSeq(ss) = f[len] /\ f[1] = ss[1]
                 /\ \A n \in 2..len : f[n] = f[n - 1] \o ss[n]
    BY <1>3, FlattenUnfolds
  <2> DEFINE G == {n \in 0..len : n > 0 => f[n] \in Seq(S)}
  <2>2. 0 \in G
    OBVIOUS
  <2>3. ASSUME NEW n \in 1..len, n - 1 \in G PROVE n \in G
    <3>1. ss[n] \in Seq(S)
      OBVIOUS
    <3>2. CASE n = 1
      BY <2>1, <3>1, <3>2
    <3>3. CASE n > 1
      <4>1. f[n - 1] \in Seq(S)
        BY <2>3, <3>3
      <4>4. n \in 2..len
        BY <3>3
      <4>2. f[n] = f[n - 1] \o ss[n]
        BY <2>1, <4>4, Zenon
      <4>3. f[n - 1] \o ss[n] \in Seq(S)
        BY <3>1, <4>1
      <4>5. f[n] \in Seq(S)
        BY <4>2, <4>3, Zenon
      <4> QED BY <4>5
    <3> QED BY <3>2, <3>3
  <2>4. len \in G
    <3> HIDE DEF G
    <3>1. \A n \in 1..len : n - 1 \in G => n \in G
      BY <2>3
    <3>2. \A n \in 0..len : n \in G
      BY <2>2, <3>1, UpTo, Zenon
    <3> QED BY <3>2
  <2> QED BY <1>3, <2>1, <2>4
<1> QED BY <1>2, <1>3

-----------------------------------------------------------------------------
\* Writing whole files, or unfinished ones that may be unfinished.
LEMMA OverContents ==
  ASSUME FilesWhole, NEW g, fs' = Over(g, fs),
         \A n \in DOMAIN g : g[n] \in Seq(Piece) /\ (Unfinished(n)' \/ g[n] \in Seq(Whole)),
         \A n \in DOMAIN fs \ DOMAIN g : Unfinished(n) => Unfinished(n)'
  PROVE  FilesWhole'
<1> SUFFICES ASSUME NEW n \in DOMAIN fs'
             PROVE  fs'[n] \in Seq(Piece) /\ (Unfinished(n)' \/ fs'[n] \in Seq(Whole))
  BY DEF FilesWhole
<1>1. CASE n \in DOMAIN g
  BY <1>1 DEF Over
<1>2. CASE n \notin DOMAIN g
  BY <1>2 DEF Over, FilesWhole
<1> QED BY <1>1, <1>2

\* Removing files.
LEMMA WithoutContents ==
  ASSUME FilesWhole, NEW gone, fs' = Without(fs, gone),
         \A n \in DOMAIN fs \ gone : Unfinished(n) => Unfinished(n)'
  PROVE  FilesWhole'
<1> SUFFICES ASSUME NEW n \in DOMAIN fs'
             PROVE  fs'[n] \in Seq(Piece) /\ (Unfinished(n)' \/ fs'[n] \in Seq(Whole))
  BY DEF FilesWhole
<1> QED BY DEF Without, FilesWhole

\* Leaving the files alone.
LEMMA SameContents ==
  ASSUME FilesWhole, fs' = fs, \A n \in DOMAIN fs : Unfinished(n) => Unfinished(n)'
  PROVE  FilesWhole'
BY DEF FilesWhole

\* Where nothing is being waited for and all goes well, every file is whole
\* but for the standard output, which may be unfinished at any time.
LEMMA AllWhole ==
  ASSUME FilesWhole, pc \notin {"wait", "exit", "done", "killed"}
  PROVE  /\ \A n \in DOMAIN fs : n # Stdout => fs[n] \in Seq(Whole)
         /\ \A n : Unfinished(n) => Unfinished(n)'
BY DEF FilesWhole, Unfinished

\* What a tool makes of what it accepts is whole.
LEMMA MakesWhole ==
  ASSUME NEW tool \in {"cpp", "cc1", "as", "ld"}, NEW p \in Piece, Accepts(tool, p.kind)
  PROVE  Makes(tool, p) \in Whole
<1>1. AsmDefined \in BOOLEAN
  BY DEF AsmDefined
<1>2. CASE tool = "cpp"
  <2> DEFINE k == IF p.kind \in {"c", "i"} THEN "i" ELSE IF p.kind \in {"S", "s"} THEN "s" ELSE p.kind
  <2>1. Makes(tool, p) = [[p EXCEPT !.kind = k] EXCEPT !.asm = AsmDefined] /\ k \in {"i", "s", "dep"}
    BY <1>2 DEF Makes, Accepts
  <2> HIDE DEF k
  <2>2. p = [kind |-> p.kind, from |-> p.from, asm |-> p.asm] /\ p.from \in Nat
    BY DEF Piece
  <2>3. Makes(tool, p) = [kind |-> k, from |-> p.from, asm |-> AsmDefined]
    BY <2>1, <2>2
  <2>4. k \in Texts /\ k # "partial"
    BY <2>1 DEF Texts
  <2> QED BY <1>1, <2>2, <2>3, <2>4 DEF Whole, Piece
<1>3. CASE tool \in {"cc1", "as"}
  <2>1. PICK k \in {"s", "o"} : Makes(tool, p) = [p EXCEPT !.kind = k]
    BY <1>3 DEF Makes
  <2>2. p = [kind |-> p.kind, from |-> p.from, asm |-> p.asm] /\ p.from \in Nat /\ p.asm \in BOOLEAN
    BY DEF Piece
  <2>3. Makes(tool, p) = [kind |-> k, from |-> p.from, asm |-> p.asm]
    BY <2>1, <2>2
  <2>4. k \in Texts /\ k # "partial"
    BY DEF Texts
  <2> QED BY <2>2, <2>3, <2>4 DEF Whole, Piece
<1>4. CASE tool = "ld"
  BY <1>4 DEF Makes, Accepts, Whole
<1> QED BY <1>2, <1>3, <1>4

\* What a tool that succeeds writes is whole.
LEMMA ResultWhole ==
  ASSUME DriverInv, FailInv, ToolOk, running.tool # "sh"
  PROVE  Result(running) \in Seq(Whole)
<1> DEFINE r == running
           reads == Reads(r)
           parts == [k \in 1..Len(reads) |-> Contents(r, reads[k])]
           data == FlattenSeq(parts)
           Taken == {p \in Piece : Accepts(r.tool, p.kind)}
<1>1. /\ pc = "wait" /\ r.tool \in {"cpp", "cc1", "as", "ld", "cat"}
      /\ r.tool = "cat" => r.in \notin {r.out, Stdout}
  BY DEF FailInv, Child, ToolOk
<1>2. PICK len \in Nat : /\ len = Len(reads) /\ (len = 0 => reads = <<>>)
                         /\ r.tool = "cat" => \A k \in 1..len : reads[k] = r.in
  <2>1. CASE r.tool = "ld"
    <3>1. reads = [k \in 1..Len(files) |-> files[k].out] /\ Len(files) \in Nat
      BY <1>1, <2>1 DEF Reads, DriverInv, FilesOK, Ended
    <3> QED BY <2>1, <3>1
  <2>2. CASE r.tool # "ld" /\ r.in = NoName
    <3>1. reads = <<>>
      BY <2>2 DEF Reads
    <3> QED BY <3>1
  <2>3. CASE r.tool # "ld" /\ r.in # NoName
    <3>1. reads = <<r.in>>
      BY <2>3 DEF Reads
    <3> QED BY <3>1
  <2> QED BY <2>1, <2>2, <2>3
<1>3. \A k \in 1..len : /\ reads[k] \in DOMAIN fs
                        /\ \A j \in 1..Len(Contents(r, reads[k])) : Accepts(r.tool, Contents(r, reads[k])[j].kind)
  BY <1>2 DEF ToolOk, Readable
<1> HIDE DEF reads
<1>4. /\ Len(parts) = len /\ (len = 0 => parts = <<>>) /\ \A k \in 1..len : parts[k] = Contents(r, reads[k])
  BY <1>2
<1> HIDE DEF parts
<1>5. Result(r) = IF r.tool = "cat" THEN data ELSE [k \in 1..Len(data) |-> Makes(r.tool, data[k])]
  BY DEF Result, parts, reads
<1>6. ASSUME NEW k \in 1..len PROVE parts[k] \in Seq(Piece)
  <2>1. parts[k] \in {<<>>, fs[reads[k]]} /\ fs[reads[k]] \in Seq(Piece)
    BY <1>3, <1>4 DEF FailInv, FilesWhole, Contents
  <2> HIDE DEF Piece
  <2>2. <<>> \in Seq(Piece)
    OBVIOUS
  <2> QED BY <2>1, <2>2
<1>7. CASE r.tool = "cat"
  <2>1. ASSUME NEW k \in 1..len PROVE parts[k] \in Seq(Whole)
    <3>1. reads[k] = r.in /\ r.in \notin {r.out, Stdout} /\ reads[k] \in DOMAIN fs
      BY <1>1, <1>2, <1>3, <1>7
    <3>2. ~Unfinished(reads[k])
      BY <1>1, <3>1 DEF Unfinished
    <3> QED BY <1>4, <3>1, <3>2 DEF FailInv, FilesWhole, Contents
  <2>2. data \in Seq(Whole)
    BY <1>4, <2>1, FlattenType
  <2> QED BY <1>5, <1>7, <2>2
<1>8. CASE r.tool # "cat"
  <2>1. ASSUME NEW k \in 1..len PROVE parts[k] \in Seq(Taken)
    <3>1. parts[k] \in Seq(Piece) /\ \A j \in 1..Len(parts[k]) : Accepts(r.tool, parts[k][j].kind)
      BY <1>3, <1>4, <1>6
    <3> DEFINE q == parts[k]
    <3> HIDE DEF q, Piece
    <3>2. q \in Seq(Piece) /\ \A j \in 1..Len(q) : Accepts(r.tool, q[j].kind)
      BY <3>1 DEF q
    <3>3. \A j \in 1..Len(q) : q[j] \in Taken
      BY <3>2
    <3> HIDE DEF Taken
    <3>4. q \in Seq(Taken)
      BY <3>2, <3>3
    <3> QED BY <3>4 DEF q
  <2> HIDE DEF Taken
  <2>2. data \in Seq(Taken)
    BY <1>4, <2>1, FlattenType
  <2> HIDE DEF data
  <2>3. ASSUME NEW k \in 1..Len(data) PROVE Makes(r.tool, data[k]) \in Whole
    <3>1. data[k] \in Taken
      BY <2>2
    <3>2. data[k] \in Piece /\ Accepts(r.tool, data[k].kind) /\ r.tool \in {"cpp", "cc1", "as", "ld"}
      BY <1>1, <1>8, <3>1 DEF Taken
    <3> QED BY <3>2, MakesWhole
  <2>4. [k \in 1..Len(data) |-> Makes(r.tool, data[k])] \in Seq(Whole)
    <3> HIDE DEF Whole
    <3>1. Len(data) \in Nat
      BY <2>2
    <3> QED BY <2>3, <3>1
  <2> QED BY <1>5, <1>8, <2>4
<1> QED BY <1>7, <1>8

-----------------------------------------------------------------------------
\* A truncated text is not whole.
LEMMA PartialPiece == Partial \in Piece /\ Partial \notin Whole
BY DEF Partial, Piece, Whole, Texts

\* Writing one file.
LEMMA WriteContents ==
  ASSUME FilesWhole, NEW out, NEW data \in Seq(Piece), fs' = Write(fs, out, data),
         Unfinished(out)' \/ data \in Seq(Whole),
         \A n \in DOMAIN fs \ {out} : Unfinished(n) => Unfinished(n)'
  PROVE  FilesWhole' /\ DOMAIN fs' = DOMAIN fs \cup {out}
<1> DEFINE g == [x \in {out} |-> data]
<1>1. DOMAIN g = {out} /\ g[out] = data /\ fs' = Over(g, fs)
  BY DEF Write
<1> HIDE DEF g
<1>2. \A n \in DOMAIN g : g[n] \in Seq(Piece) /\ (Unfinished(n)' \/ g[n] \in Seq(Whole))
  BY <1>1
<1>3. FilesWhole'
  BY <1>1, <1>2, OverContents
<1> QED BY <1>1, <1>3 DEF Over

\* runner(): the one file that is not whole is the one the tool writes.
LEMMA StartClean ==
  ASSUME DriverInv, FailInv, pc \notin {"wait", "exit", "done", "killed"},
         NEW tool \in {"cpp", "cc1", "as", "ld", "sh", "cat"}, NEW in, NEW out, NEW then \in Places,
         tool = "sh" => out = NoName, tool = "cat" => in \notin {out, Stdout},
         Start(tool, in, out, then) \/ (pc' = then /\ UNCHANGED <<running, fs>>)
  PROVE  /\ FilesWhole' /\ Child' /\ pc' \notin Ended
         /\ DOMAIN fs \subseteq DOMAIN fs' /\ After' = then
<1>1. \A n : Unfinished(n) => Unfinished(n)'
  BY AllWhole DEF FailInv
<1>2. then \notin {"wait", "exit", "done", "killed"}
  BY DEF Places
<1>3. CASE pc' = then /\ UNCHANGED fs
  BY <1>1, <1>2, <1>3, SameContents DEF FailInv, Child, Ended, After
<1>4. CASE ~(pc' = then /\ UNCHANGED fs)
  <2>1. /\ running' = [tool |-> tool, in |-> in, out |-> out, then |-> then]
        /\ pc' = "wait"
        /\ fs' = IF out = NoName THEN fs ELSE Write(fs, out, <<Partial>>)
    BY <1>4 DEF Start
  <2>2. Child' /\ After' = then /\ pc' \notin Ended
    BY <2>1 DEF Child, After, Ended
  <2>3. FilesWhole' /\ DOMAIN fs \subseteq DOMAIN fs'
    <3>1. CASE out = NoName
      BY <1>1, <2>1, <3>1, SameContents DEF FailInv
    <3>2. CASE out # NoName
      <4>1. Unfinished(out)'
        BY <2>1, <3>2 DEF Unfinished
      <4>2. <<Partial>> \in Seq(Piece)
        BY PartialPiece
      <4>3. FilesWhole' /\ DOMAIN fs' = DOMAIN fs \cup {out}
        BY <1>1, <2>1, <3>2, <4>1, <4>2, WriteContents DEF FailInv
      <4> QED BY <4>3
    <3> QED BY <3>1, <3>2
  <2> QED BY <2>2, <2>3
<1> QED BY <1>3, <1>4

\* A tool that is started has made the file it writes to.
LEMMA StartMakes ==
  ASSUME NEW tool, NEW in, NEW out, NEW then, Start(tool, in, out, then), ~job.noop, out # NoName
  PROVE  out \in DOMAIN fs'
BY DEF Start, Write, Over

\* What was there stays there; the stage that goes on has done its part.
LEMMA ThereKeeps ==
  ASSUME There, Len(files) \in Nat, files' = files, job'.noop = job.noop, job'.mode = job.mode,
         pc' \notin Ended => pc \notin Ended /\ DOMAIN fs \subseteq DOMAIN fs',
         After = "cpp" /\ ~job.noop /\ Cur.preproc # NoName /\ pc' \notin Ended
           => After' = "cpp" \/ Cur.preproc \in DOMAIN fs',
         After \in {"cpp", "cc1"} /\ ~job.noop /\ Cur.compile # NoName /\ pc' \notin Ended
           => After' \in {"cpp", "cc1"} \/ job.mode = preproc \/ Cur.compile \in DOMAIN fs'
  PROVE  There'
<1> SUFFICES ASSUME NEW k \in 1..Len(files)
             PROVE  /\ HasRun(k, {"cpp"})' /\ files[k].preproc # NoName => files[k].preproc \in DOMAIN fs'
                    /\ HasRun(k, {"cpp", "cc1"})' /\ job.mode # preproc /\ files[k].compile # NoName
                         => files[k].compile \in DOMAIN fs'
  BY DEF There
<1>1. CASE k < Len(files)
  BY <1>1 DEF There, HasRun
<1>2. CASE k = Len(files)
  <2>1. files[k] = Cur
    BY <1>2 DEF Cur, Index
  <2>2. ASSUME NEW ps PROVE /\ HasRun(k, ps)' <=> ~job.noop /\ pc' \notin Ended /\ After' \notin ps
                            /\ HasRun(k, ps) <=> ~job.noop /\ pc \notin Ended /\ After \notin ps
    BY <1>2 DEF HasRun
  <2>3. /\ HasRun(k, {"cpp"}) /\ files[k].preproc # NoName => files[k].preproc \in DOMAIN fs
        /\ HasRun(k, {"cpp", "cc1"}) /\ job.mode # preproc /\ files[k].compile # NoName
             => files[k].compile \in DOMAIN fs
    BY DEF There
  <2> QED BY <2>1, <2>2, <2>3
<1> QED BY <1>1, <1>2

\* A step that touches neither files nor their stages.
LEMMA QuietClean ==
  ASSUME DriverInv, FailInv, UNCHANGED <<job, files, fs>>, pc \notin {"wait", "exit", "done", "killed"},
         pc' \in {"create", "link", "end", "exit", "killed", "rename"},
         pc \in {"cpp", "cc1"} => pc' = "killed"
  PROVE  FailInv'
<1>1. FilesWhole' /\ Child' /\ Named'
  BY AllWhole, SameContents DEF FailInv, Child, Named
<1>2. Len(files) \in Nat
  BY DEF DriverInv, FilesOK, Ended
<1>3. There'
  BY <1>2, ThereKeeps DEF FailInv, Ended, After
<1> QED BY <1>1, <1>3 DEF FailInv

\* A signal may come at any time.
LEMMA KilledClean ==
  ASSUME DriverInv, FailInv, Killed
  PROVE  FailInv'
<1>1. fs' = fs /\ pc' = "killed" /\ files' = files
  BY DEF Killed
<1>2. FilesWhole' /\ Child' /\ Named'
  BY <1>1, SameContents DEF FailInv, Child, Unfinished, Named
<1>3. There'
  BY <1>1 DEF There, HasRun, Ended
<1> QED BY <1>2, <1>3 DEF FailInv

\* ... and one that runs the next stage, or skips it.
LEMMA CppClean == ASSUME DriverInv, FailInv, RunCpp PROVE FailInv'
<1>1. PICK next \in {"create", "cc1"} :
        /\ next = "create" => job.mode = preproc
        /\ \/ Cur.preproc = NoName /\ pc' = next /\ UNCHANGED <<running, fs>>
           \/ Start("cpp", Cur.in, Cur.preproc, next)
  BY DEF RunCpp
<1>2. pc = "cpp" /\ files' = files /\ next \in Places
  BY DEF RunCpp, Places
<1>3. /\ FilesWhole' /\ Child' /\ pc' \notin Ended
      /\ DOMAIN fs \subseteq DOMAIN fs' /\ After' = next
  BY <1>1, <1>2, StartClean
<1>4. job'.noop = job.noop /\ job'.mode = job.mode
  BY DEF RunCpp, ADD_ARG, DriverInv, JobOK, Fields
<1>5. ~job.noop /\ Cur.preproc # NoName => Cur.preproc \in DOMAIN fs'
  BY <1>1, StartMakes
<1>6. Len(files) \in Nat
  BY <1>2 DEF DriverInv, FilesOK, Ended
<1>7. There'
  BY <1>1, <1>2, <1>3, <1>4, <1>5, <1>6, ThereKeeps DEF FailInv, Ended, After
<1> QED BY <1>2, <1>3, <1>7 DEF FailInv, Named

\* The same for cc1.
LEMMA Cc1Clean == ASSUME DriverInv, FailInv, RunCc1 PROVE FailInv'
<1>1. PICK next \in {"create", "as"}, in \in {Cur.preproc, Cur.in} :
        \/ Cur.compile = NoName /\ pc' = next /\ UNCHANGED <<running, fs>>
        \/ Start("cc1", in, Cur.compile, next)
  BY DEF RunCc1
<1>2. pc = "cc1" /\ UNCHANGED <<files, job>> /\ next \in Places
  BY DEF RunCc1, Places
<1>3. /\ FilesWhole' /\ Child' /\ pc' \notin Ended
      /\ DOMAIN fs \subseteq DOMAIN fs' /\ After' = next
  BY <1>1, <1>2, StartClean
<1>5. ~job.noop /\ Cur.compile # NoName => Cur.compile \in DOMAIN fs'
  BY <1>1, StartMakes
<1>6. Len(files) \in Nat
  BY <1>2 DEF DriverInv, FilesOK, Ended
<1>7. There'
  BY <1>1, <1>2, <1>3, <1>5, <1>6, ThereKeeps DEF FailInv, Ended, After
<1> QED BY <1>2, <1>3, <1>7 DEF FailInv, Named

\* The steps behind cc1 depend on no earlier result.
LEMMA LateClean == ASSUME DriverInv, FailInv, RunAs \/ link_all \/ PostLink \/ rename_or_move PROVE FailInv'
<1>1. pc \in {"as", "link", "post_link", "rename"} /\ UNCHANGED <<files, job>>
  BY DEF RunAs, link_all, PostLink, rename_or_move
<1>2. ASSUME NEW tool \in {"as", "ld", "sh", "cat"}, NEW in, NEW out,
             NEW next \in {"create", "post_link", "end", "rename"},
             tool = "sh" => out = NoName, tool = "cat" => in \notin {out, Stdout},
             Start(tool, in, out, next) \/ (pc' = next /\ UNCHANGED <<running, fs>>)
      PROVE  FailInv'
  <2>1. tool \in {"cpp", "cc1", "as", "ld", "sh", "cat"} /\ next \in Places
    BY DEF Places
  <2>2. /\ FilesWhole' /\ Child' /\ pc' \notin Ended
        /\ DOMAIN fs \subseteq DOMAIN fs' /\ After' = next
    BY <1>1, <1>2, <2>1, StartClean
  <2>3. Len(files) \in Nat
    BY <1>1 DEF DriverInv, FilesOK, Ended
  <2>4. There'
    BY <1>1, <2>2, <2>3, ThereKeeps DEF FailInv, Ended, After
  <2> QED BY <1>1, <2>2, <2>4 DEF FailInv, Named
<1>3. CASE RunAs
  <2>1. PICK in : \/ Start("as", in, Cur.assemb, "create")
                  \/ pc' = "create" /\ UNCHANGED <<running, fs>>
    BY <1>3 DEF RunAs
  <2> QED BY <1>2, <2>1
<1>4. CASE link_all
  <2>1. Start("ld", NoName, OutName(job.output), "post_link")
    BY <1>4 DEF link_all
  <2> QED BY <1>2, <2>1
<1>5. CASE PostLink
  <2>1. Start("sh", NoName, NoName, "end") \/ (pc' = "end" /\ UNCHANGED <<running, fs>>)
    BY <1>5 DEF PostLink
  <2> QED BY <1>2, <2>1
<1>6. CASE rename_or_move
  <2>1. Start("cat", Next1.out, Destination(Next1), "rename") /\ Next1.out # Destination(Next1)
    BY <1>6 DEF rename_or_move
  <2>2. Next1.out # Stdout
    <3>1. moved \in Nat /\ Len(files) \in Nat /\ moved < Len(files)
      BY <1>6 DEF rename_or_move, DriverInv, FilesOK, Ended
    <3>2. moved + 1 \in 1..Len(files)
      BY <3>1
    <3> QED BY <3>2 DEF FailInv, Named, Next1
  <2> QED BY <1>2, <2>1, <2>2
<1> QED BY <1>3, <1>4, <1>5, <1>6

\* wait() returns.
LEMMA ToolClean == ASSUME DriverInv, FailInv, ToolOk PROVE FailInv'
<1> DEFINE f == IF running.out = NoName THEN fs ELSE Write(fs, running.out, Result(running))
<1>1. /\ pc = "wait" /\ pc' = running.then /\ UNCHANGED <<job, files>>
      /\ fs' = WithDeps(running, f, Deps)
      /\ running.then \in Places
  BY DEF ToolOk, DriverInv, PlaceOK, Places, Ended
<1>2. /\ pc' \notin {"wait", "exit", "done", "killed"}
      /\ \A n : Unfinished(n) => n = Stdout \/ (n = running.out /\ n # NoName)
  BY <1>1 DEF Places, Unfinished
<1>3. \A s \in Seq(Whole) : s \in Seq(Piece)
  <2>1. Whole \subseteq Piece
    BY DEF Whole
  <2> HIDE DEF Whole, Piece
  <2> QED BY <2>1
<1>4. ASSUME NEW n \in DOMAIN f PROVE f[n] \in Seq(Piece) /\ (n = Stdout \/ f[n] \in Seq(Whole))
  <2>1. CASE running.out # NoName /\ n = running.out
    <3>1. running.tool # "sh"
      BY <1>1, <2>1 DEF FailInv, Child
    <3>2. Result(running) \in Seq(Whole)
      BY <3>1, ResultWhole
    <3>3. f[n] = Result(running)
      BY <2>1 DEF Write, Over
    <3> QED BY <1>3, <3>2, <3>3
  <2>2. CASE ~(running.out # NoName /\ n = running.out)
    <3>1. n \in DOMAIN fs /\ f[n] = fs[n]
      BY <2>2 DEF Write, Over
    <3> HIDE DEF f
    <3> QED BY <1>2, <2>2, <3>1 DEF FailInv, FilesWhole
  <2> QED BY <2>1, <2>2
<1>5. DOMAIN fs \subseteq DOMAIN f
  BY DEF Write, Over
<1> HIDE DEF f
<1>6. <<Deps>> \in Seq(Whole)
  <2>1. Deps \in Whole
    BY DEF Deps, Whole, Piece, Texts
  <2> HIDE DEF Whole
  <2> QED BY <2>1
<1>7. FilesWhole' /\ DOMAIN fs \subseteq DOMAIN fs'
  <2>1. CASE fs' = f
    BY <1>4, <1>5, <2>1 DEF FilesWhole, Unfinished
  <2>2. CASE fs' = Write(f, DepName, <<Deps>>)
    <3>1. DOMAIN fs' = DOMAIN f \cup {DepName}
      BY <2>2 DEF Write, Over
    <3>2. ASSUME NEW n \in DOMAIN fs' PROVE fs'[n] \in Seq(Piece) /\ (n = Stdout \/ fs'[n] \in Seq(Whole))
      <4>1. CASE n = DepName
        <5>1. fs'[n] = <<Deps>>
          BY <2>2, <4>1 DEF Write, Over
        <5> QED BY <1>3, <1>6, <5>1
      <4>2. CASE n # DepName
        <5>1. n \in DOMAIN f /\ fs'[n] = f[n]
          BY <2>2, <4>2 DEF Write, Over
        <5> QED BY <1>4, <5>1
      <4> QED BY <4>1, <4>2
    <3>3. FilesWhole'
      BY <3>2 DEF FilesWhole, Unfinished
    <3> QED BY <1>5, <3>1, <3>3
  <2> QED BY <1>1, <2>1, <2>2 DEF WithDeps
<1>8. Child' /\ Named'
  BY <1>1, <1>2 DEF Child, FailInv, Named
<1>9. There'
  <2>1. Len(files) \in Nat
    BY <1>1 DEF DriverInv, FilesOK, Ended
  <2>2. After' = After /\ pc \notin Ended
    BY <1>1, <1>2 DEF After, Ended
  <2> QED BY <1>1, <1>7, <2>1, <2>2, ThereKeeps DEF FailInv
<1> QED BY <1>7, <1>8, <1>9 DEF FailInv

\* A tool that fails takes its output along, if not the dependency file.
LEMMA FailedClean == ASSUME DriverInv, FailInv, ToolFailed \/ ToolMissing PROVE FailInv'
<1>1. PICK f, gone :
        /\ fs' = Without(f, gone) /\ running.out \in gone
        /\ f \in {fs, WithDeps(running, fs, Partial), WithDeps(running, fs, Deps)}
  <2>1. CASE ToolFailed
    BY <2>1 DEF ToolFailed
  <2>2. CASE ToolMissing
    BY <2>2 DEF ToolMissing
  <2> QED BY <2>1, <2>2
<1>2. pc = "wait" /\ pc' = "exit" /\ status' \in {1, 128} /\ job' = job /\ files' = files
  BY DEF ToolFailed, ToolMissing, Exit
<1>3. DepName' = DepName
  BY <1>2, JobSame, AskedSame
<1>4. FilesWhole'
  <2> SUFFICES ASSUME NEW n \in DOMAIN fs'
               PROVE  fs'[n] \in Seq(Piece) /\ (Unfinished(n)' \/ fs'[n] \in Seq(Whole))
    BY DEF FilesWhole
  <2>1. n \in DOMAIN f /\ fs'[n] = f[n] /\ n # running.out
    BY <1>1 DEF Without
  <2>2. CASE n \in DOMAIN fs /\ f[n] = fs[n]
    <3>1. Unfinished(n) => n = Stdout
      BY <1>2, <2>1 DEF Unfinished
    <3>2. n = Stdout => Unfinished(n)'
      BY DEF Unfinished
    <3> QED BY <2>1, <2>2, <3>1, <3>2 DEF FailInv, FilesWhole
  <2>3. CASE n = DepName /\ f[n] \in {<<Partial>>, <<Deps>>}
    <3>1. Unfinished(n)'
      BY <1>2, <1>3, <2>3 DEF Unfinished
    <3>2. Partial \in Piece /\ Deps \in Piece
      BY DEF Partial, Deps, Piece, Texts
    <3> HIDE DEF Piece
    <3>3. <<Partial>> \in Seq(Piece) /\ <<Deps>> \in Seq(Piece)
      BY <3>2
    <3> QED BY <2>1, <2>3, <3>1, <3>3
  <2>4. (n \in DOMAIN fs /\ f[n] = fs[n]) \/ (n = DepName /\ f[n] \in {<<Partial>>, <<Deps>>})
    BY <1>1, <2>1 DEF WithDeps, Write, Over
  <2> QED BY <2>2, <2>3, <2>4
<1>5. Child' /\ Named' /\ There'
  BY <1>2 DEF Child, FailInv, Named, There, HasRun, Ended
<1> QED BY <1>4, <1>5 DEF FailInv

\* unlink_files() truncates nothing.
LEMMA UnlinkClean == ASSUME DriverInv, FailInv, unlink_files PROVE FailInv'
<1>1. /\ pc = "exit" /\ pc' \in {"exit", "done"} /\ UNCHANGED <<job, files, status>>
      /\ fs' = fs \/ \E n : fs' = Without(fs, {n})
  BY DEF unlink_files
<1>2. DepName' = DepName
  BY <1>1, JobSame, AskedSame
<1>3. \A n \in DOMAIN fs : Unfinished(n) => Unfinished(n)'
  BY <1>1, <1>2 DEF Unfinished
<1>4. FilesWhole'
  BY <1>1, <1>3, WithoutContents, SameContents DEF FailInv
<1>5. Child' /\ Named' /\ There'
  BY <1>1 DEF Child, FailInv, Named, There, HasRun, Ended
<1> QED BY <1>4, <1>5 DEF FailInv

\* What is behind -o is not the standard output, and neither is a name that
\* an input is given for a stage.
LEMMA NotStdout ==
  ASSUME JobOK(job)
  PROVE  /\ OutName(job.output) # Stdout
         /\ \A n \in 1..Len(job.inputs), m \in {preproc, compile, assemb} :
              /\ expected_filename(Name(job.inputs[n]), m) # Stdout
              /\ tmpfilenam(Name(job.inputs[n]), n, m) # Stdout
<1>1. OutName(job.output) # Stdout
  <2>1. CASE job.output \in DOMAIN Split
    BY <2>1, DriverAssumption DEF OutName
  <2>2. CASE job.output \notin DOMAIN Split
    BY <2>2 DEF OutName, Stdout, JobOK
  <2> QED BY <2>1, <2>2
<1>2. ASSUME NEW n \in 1..Len(job.inputs), NEW m \in {preproc, compile, assemb}
      PROVE  expected_filename(Name(job.inputs[n]), m) # Stdout
  <2>1. Name(job.inputs[n]) # Stdout
    BY PlainInput
  <2>2. Suffix[m] # ""
    BY DEF Suffix
  <2> QED BY <2>1, <2>2 DEF expected_filename, Stdout
<1>3. ASSUME NEW n \in 1..Len(job.inputs), NEW m \in {preproc, compile, assemb}
      PROVE  tmpfilenam(Name(job.inputs[n]), n, m) # Stdout
  BY <1>2 DEF tmpfilenam, Stdout
<1> QED BY <1>1, <1>2, <1>3

\* None of the names Made() gives is.
LEMMA MadeNamed ==
  ASSUME JobOK(job), NEW n \in 1..Len(job.inputs)
  PROVE  LET f == Made(Kind(job.inputs[n]), n, Name(job.inputs[n]))
         IN Stdout \notin {f.preproc, f.compile, f.out}
<1> DEFINE in == Name(job.inputs[n])
           kind == Kind(job.inputs[n])
           s == Filled(kind)
           At(stage) == IF \E k \in 1..Len(s) : s[k] = stage THEN tmpfilenam(in, n, stage) ELSE NoName
           f == Made(kind, n, in)
<1>1. /\ f.preproc = At(preproc) /\ f.compile = At(compile)
      /\ f.out \in {in, At(s[Len(s)])}
  BY DEF Made
<1>2. kind \in Kinds
  BY KindOK
<1>3. ASSUME NEW m PROVE At(m) # Stdout
  <2>1. CASE \E k \in 1..Len(s) : s[k] = m
    <3>1. m \in ToSet(Stages(kind))
      BY <1>2, <2>1, FilledStages
    <3>2. m \in {preproc, compile, assemb}
      <4>1. Stages(kind) \in {<<preproc, compile, assemb>>, <<compile, assemb>>, <<preproc, assemb>>, <<assemb>>, <<>>}
        BY <1>2 DEF Stages, Kinds
      <4> HIDE DEF kind
      <4> QED BY <3>1, <4>1 DEF ToSet
    <3> QED BY <2>1, <3>2, NotStdout
  <2>2. CASE ~\E k \in 1..Len(s) : s[k] = m
    BY <2>2 DEF NoName, Stdout
  <2> QED BY <2>1, <2>2
<1>4. in # Stdout
  BY PlainInput
<1> HIDE DEF At, f, in
<1>5. Stdout \notin {f.preproc, f.compile, f.out}
  BY <1>1, <1>3, <1>4
<1> QED BY <1>5 DEF f, in

\* The temporary files of a new input are empty, and cpp has yet to run on it.
LEMMA CreateClean == ASSUME DriverInv, FailInv, create_file PROVE FailInv'
<1>2. pc = "create" /\ UNCHANGED job
  BY DEF create_file
<1>7. /\ JobOK(job) /\ Len(files) \in Nat /\ Len(files) + 1 \in 1..Len(job.inputs)
  <2>1. /\ JobOK(job) /\ Len(files) \in Nat /\ Len(files) < Len(job.inputs) /\ Len(job.inputs) \in Nat
    BY <1>2 DEF create_file, Index, DriverInv, FilesOK, JobOK, Ended
  <2> QED BY <2>1
<1>1. PICK f, got :
        /\ fs' = Over([x \in got |-> <<>>], fs)
        /\ \/ files' = Append(files, f) /\ pc' = "cpp"
           \/ files' = files /\ pc' = "exit"
        /\ Stdout \notin {f.preproc, f.compile, f.out}
  <2> DEFINE f == Made(Kind(job.inputs[Len(files) + 1]), Len(files) + 1, Name(job.inputs[Len(files) + 1]))
  <2>1. Stdout \notin {f.preproc, f.compile, f.out}
    BY <1>7, MadeNamed
  <2>2. \E got : /\ fs' = Over([x \in got |-> <<>>], fs)
                 /\ \/ files' = Append(files, f) /\ pc' = "cpp"
                    \/ files' = files /\ pc' = "exit"
    BY DEF create_file, Exit, Index
  <2> HIDE DEF f
  <2> QED BY <2>1, <2>2
<1> DEFINE g == [x \in got |-> <<>>]
<1>3. /\ fs' = Over(g, fs)
      /\ \A n \in DOMAIN g : g[n] \in Seq(Piece) /\ g[n] \in Seq(Whole)
  BY <1>1
<1> HIDE DEF g
<1>4. FilesWhole'
  BY <1>2, <1>3, AllWhole, OverContents DEF FailInv
<1>5. Child'
  BY <1>1 DEF Child
<1>8. Named'
  <2>1. CASE files' = files
    BY <2>1 DEF FailInv, Named
  <2>2. CASE files' = Append(files, f)
    <3>1. \E S : files \in Seq(S)
      BY <1>2 DEF DriverInv, FilesOK, Ended
    <3>2. \A k \in 1..Len(files') : files'[k] = f \/ (k \in 1..Len(files) /\ files'[k] = files[k])
      BY <2>2, <3>1
    <3> QED BY <1>1, <3>2 DEF FailInv, Named
  <2> QED BY <1>1, <2>1, <2>2
<1>6. There'
  <2>1. CASE pc' = "exit"
    BY <2>1 DEF There, HasRun, Ended
  <2>2. CASE pc' = "cpp"
    <3>1. PICK n \in Nat : n = Len(files)
      BY <1>7
    <3>2. Len(files') = n + 1 /\ \A k \in 1..n : files'[k] = files[k]
      <4>1. files' = Append(files, f) /\ \E S : files \in Seq(S)
        BY <1>1, <1>2, <2>2 DEF DriverInv, FilesOK, Ended
      <4> QED BY <3>1, <4>1
    <3> SUFFICES ASSUME NEW k \in 1..(n + 1)
                 PROVE  /\ HasRun(k, {"cpp"})' /\ files'[k].preproc # NoName => files'[k].preproc \in DOMAIN fs'
                        /\ HasRun(k, {"cpp", "cc1"})' /\ job'.mode # preproc /\ files'[k].compile # NoName
                             => files'[k].compile \in DOMAIN fs'
      BY <3>2 DEF There
    <3>3. CASE k = n + 1
      <4>1. After' = "cpp" /\ ~(k < Len(files'))
        BY <2>2, <3>2, <3>3 DEF After
      <4> QED BY <4>1 DEF HasRun
    <3>4. CASE k \in 1..n
      <4>1. ~job'.noop => HasRun(k, {"cpp"}) /\ HasRun(k, {"cpp", "cc1"})
        BY <1>2 DEF HasRun, Ended, After
      <4>2. /\ HasRun(k, {"cpp"}) /\ files[k].preproc # NoName => files[k].preproc \in DOMAIN fs
            /\ HasRun(k, {"cpp", "cc1"}) /\ job.mode # preproc /\ files[k].compile # NoName
                 => files[k].compile \in DOMAIN fs
        BY <3>1, <3>4 DEF FailInv, There
      <4>3. DOMAIN fs \subseteq DOMAIN fs'
        BY <1>3 DEF Over
      <4>4. \A ps : HasRun(k, ps)' => ~job'.noop
        BY DEF HasRun
      <4> QED BY <1>2, <3>2, <3>4, <4>1, <4>2, <4>3, <4>4
    <3> QED BY <3>3, <3>4
  <2> QED BY <1>1, <2>1, <2>2
<1> QED BY <1>4, <1>5, <1>6, <1>8 DEF FailInv

\* What cat_fnames() copies is there.
LEMMA CopiedThere ==
  ASSUME DriverInv, FailInv, cat_fnames, ~job.noop
  PROVE  (IF job.mode = preproc THEN Next1.preproc ELSE Next1.compile) \in DOMAIN fs \ {Stdout}
<1>1. /\ pc = "rename" /\ moved < Len(files) /\ moved \in Nat /\ Len(files) \in Nat /\ JobOK(job)
      /\ Len(files) <= Len(job.inputs) /\ Len(job.inputs) \in Nat
  BY DEF cat_fnames, DriverInv, FilesOK, JobOK, Ended
<1>2. PICK k \in 1..Len(files) : k = moved + 1
  BY <1>1
<1>3. HasRun(k, {"cpp"}) /\ HasRun(k, {"cpp", "cc1"})
  BY <1>1 DEF HasRun, Ended, After
<1>4. /\ Next1.preproc # NoName => Next1.preproc \in DOMAIN fs
      /\ job.mode # preproc /\ Next1.compile # NoName => Next1.compile \in DOMAIN fs
  BY <1>2, <1>3 DEF FailInv, There, Next1
<1>8. Stdout \notin {Next1.preproc, Next1.compile}
  BY <1>2 DEF FailInv, Named, Next1
<1>5. Destination(Next1) # NoName /\ (job.mode = preproc \/ Destination(Next1) = Stdout)
  BY DEF cat_fnames
<1>6. CASE job.mode = preproc
  <2>1. Next1.preproc # NoName
    BY <1>5, <1>6 DEF Destination
  <2> QED BY <1>4, <1>6, <1>8, <2>1
<1>7. CASE job.mode # preproc
  <2>1. OutName(job.output) # Stdout
    BY <1>1, NotStdout
  <2>2. expected_filename(Next1.in, job.mode) # Stdout
    <3>1. Next1.in = Name(job.inputs[k]) /\ k \in 1..Len(job.inputs)
      BY <1>1, <1>2 DEF DriverInv, FilesOK, FileOK, Next1, Ended
    <3>3. job.mode \in {preproc, compile, assemb}
      BY <1>1 DEF DriverInv, PlaceOK, After, JobOK, Tools, Ended
    <3> QED BY <1>1, <3>1, <3>3, NotStdout
  <2>3. Next1.compile # NoName
    <3>1. NoName # Stdout
      BY DEF NoName, Stdout
    <3> QED BY <1>5, <1>7, <2>1, <2>2, <3>1 DEF Destination
  <2> QED BY <1>4, <1>7, <1>8, <2>3
<1> QED BY <1>6, <1>7

\* Where a copy by the driver itself goes.
LEMMA CopiedTo ==
  ASSUME cat_fnames
  PROVE  Destination(Next1) = Stdout \/ (job.mode = preproc /\ Destination(Next1) = OutName(job.output))
BY DEF cat_fnames, Destination

\* A copy by the driver itself.
LEMMA CatClean == ASSUME DriverInv, FailInv, cat_fnames PROVE FailInv'
<1> DEFINE out == Destination(Next1)
           in == IF job.mode = preproc THEN Next1.preproc ELSE Next1.compile
           there == IF out \in DOMAIN fs /\ (out = Stdout \/ moved > 0) THEN fs[out] ELSE <<>>
           read == IF in = out THEN there ELSE fs[in]
<1>1. /\ pc = "rename" /\ UNCHANGED <<job, files>> /\ Len(files) \in Nat
  BY DEF cat_fnames, DriverInv, FilesOK, Ended
<1>2. \/ /\ fs' = IF job.noop THEN fs ELSE Write(fs, out, there \o read)
         /\ pc' = pc
      \/ /\ fs' = Write(fs, out, Append(there, Partial))
         /\ \/ pc' = "exit" /\ status' = 1
            \/ pc' = pc /\ out = Stdout
  BY DEF cat_fnames, Exit
<1>3. /\ \A n \in DOMAIN fs : fs[n] \in Seq(Piece) /\ (n # Stdout => fs[n] \in Seq(Whole))
      /\ \A n : Unfinished(n) => Unfinished(n)'
  BY <1>1, AllWhole DEF FailInv, FilesWhole
<1>4. ~job.noop => in \in DOMAIN fs \ {Stdout}
  BY CopiedThere
<1>5. \A s \in Seq(Whole) : s \in Seq(Piece)
  <2>1. Whole \subseteq Piece
    BY DEF Whole
  <2> HIDE DEF Whole, Piece
  <2> QED BY <2>1
<1>6. there \in Seq(Piece) /\ (out # Stdout => there \in Seq(Whole))
  BY <1>3, <1>5
<1>10. ~job.noop => read \in Seq(Piece) /\ (out # Stdout => read \in Seq(Whole))
  <2> HIDE DEF there
  <2> QED BY <1>3, <1>4, <1>6
<1>11. out = Stdout \/ (job.mode = preproc /\ out = OutName(job.output))
  BY CopiedTo
<1>7. FilesWhole'
  <2> HIDE DEF out, in, there, read
  <2>1. CASE pc' = pc /\ fs' = fs
    BY <1>3, <2>1, SameContents DEF FailInv
  <2>0. PICK name : name = out
    OBVIOUS
  <2>4. name = Stdout => Unfinished(name)'
    BY DEF Unfinished
  <2>2. CASE pc' = pc /\ ~job.noop /\ fs' = Write(fs, out, there \o read)
    <3>1. there \o read \in Seq(Piece)
      <4> HIDE DEF Piece
      <4> QED BY <1>6, <1>10, <2>2
    <3>2. name # Stdout => there \o read \in Seq(Whole)
      <4> HIDE DEF Whole
      <4> QED BY <1>6, <1>10, <2>0, <2>2
    <3> QED BY <1>3, <2>0, <2>2, <2>4, <3>1, <3>2, WriteContents DEF FailInv
  <2>3. CASE fs' = Write(fs, out, Append(there, Partial)) /\ ((pc' = "exit" /\ status' = 1) \/ out = Stdout)
    <3>1. Append(there, Partial) \in Seq(Piece)
      <4>1. Partial \in Piece
        BY PartialPiece
      <4> HIDE DEF Piece
      <4> QED BY <1>6, <4>1
    <3>3. Unfinished(name)'
      BY <1>1, <1>11, <2>0, <2>3 DEF Unfinished
    <3>4. fs' = Write(fs, name, Append(there, Partial))
      BY <2>0, <2>3
    <3> QED BY <1>3, <3>1, <3>3, <3>4, WriteContents DEF FailInv
  <2> QED BY <1>2, <2>1, <2>2, <2>3
<1>8. Child' /\ Named'
  BY <1>1, <1>2 DEF Child, FailInv, Named
<1>9. There'
  <2>1. CASE pc' = "exit"
    BY <2>1 DEF There, HasRun, Ended
  <2>2. CASE pc' = pc
    <3>1. DOMAIN fs \subseteq DOMAIN fs'
      BY <1>2 DEF Write, Over
    <3> QED BY <1>1, <2>2, <3>1, ThereKeeps DEF FailInv, Ended, After
  <2> QED BY <1>2, <2>1, <2>2
<1> QED BY <1>7, <1>8, <1>9 DEF FailInv

\* The inputs hold what they are taken for.
LEMMA InitClean == ASSUME Init, DriverInv PROVE FailInv
<1>1. PICK stale \in {{}, Stale} :
        LET in == {Name(job.inputs[n]) : n \in 1..Len(job.inputs)}
        IN fs = Over([f \in in |-> LET n == CHOOSE k \in 1..Len(job.inputs) : Name(job.inputs[k]) = f
                                    IN <<Text(job.inputs[n], n)>>],
                     [f \in stale |-> <<[kind |-> "old", from |-> 0, asm |-> FALSE]>>])
  BY DEF Init
<1>2. Len(job.inputs) \in Nat
  BY DEF DriverInv, JobOK
<1>3. ASSUME NEW i, NEW n \in Nat PROVE Text(i, n) \in Whole
  <2>1. Kind(i) \in {"c", "i", "S", "s", "o"}
    BY DEF Kind
  <2> QED BY <2>1 DEF Text, Whole, Piece, Texts
<1>4. [kind |-> "old", from |-> 0, asm |-> FALSE] \in Whole
  BY DEF Whole, Piece, Texts
<1>5. ASSUME NEW n \in DOMAIN fs PROVE fs[n] \in Seq(Whole) /\ fs[n] \in Seq(Piece)
  <2>1. \E p \in Whole : fs[n] = <<p>>
    <3> DEFINE in == {Name(job.inputs[k]) : k \in 1..Len(job.inputs)}
    <3>1. CASE n \in in
      <4> DEFINE j == CHOOSE k \in 1..Len(job.inputs) : Name(job.inputs[k]) = n
      <4>1. fs[n] = <<Text(job.inputs[j], j)>>
        BY <1>1, <3>1 DEF Over
      <4>2. j \in 1..Len(job.inputs)
        BY <3>1
      <4> HIDE DEF j
      <4>3. j \in Nat
        BY <1>2, <4>2
      <4>4. Text(job.inputs[j], j) \in Whole
        BY <1>3, <4>3
      <4> QED BY <4>1, <4>4
    <3>2. CASE n \notin in
      <4>1. fs[n] = <<[kind |-> "old", from |-> 0, asm |-> FALSE]>>
        BY <1>1, <3>2 DEF Over
      <4> QED BY <1>4, <4>1
    <3> QED BY <3>1, <3>2
  <2>2. Whole \subseteq Piece
    BY DEF Whole
  <2>3. PICK p \in Whole : fs[n] = <<p>>
    BY <2>1
  <2> HIDE DEF Whole, Piece
  <2>4. <<p>> \in Seq(Whole) /\ <<p>> \in Seq(Piece)
    BY <2>2
  <2> QED BY <2>3, <2>4
<1>6. pc = "start" /\ files = <<>>
  BY DEF Init
<1> QED BY <1>5, <1>6 DEF FailInv, FilesWhole, Child, Named, There

\* No failure leaves a truncated result.
THEOREM FailuresClean == Spec => []FailureIsClean
<1>1. DriverInv /\ FailInv /\ [Next]_vars => FailInv'
  <2> SUFFICES ASSUME DriverInv, FailInv, [Next]_vars PROVE FailInv'
    OBVIOUS
  <2>1. CASE Begin \/ Translated \/ NextFile \/ Return
    <3>1. /\ UNCHANGED <<job, files, fs>> /\ pc \in {"start", "create", "rename", "end"}
          /\ pc' \in {"create", "link", "end", "exit", "killed", "rename"}
      BY <2>1 DEF Begin, Translated, NextFile, Return, Exit
    <3> QED BY <3>1, QuietClean
  <2>2. CASE create_file
    BY <2>2, CreateClean
  <2>3. CASE RunCpp \/ RunCc1
    BY <2>3, CppClean, Cc1Clean
  <2>4. CASE RunAs \/ link_all \/ PostLink \/ rename_or_move
    BY <2>4, LateClean
  <2>5. CASE ToolOk
    BY <2>5, ToolClean
  <2>6. CASE ToolFailed \/ ToolMissing
    BY <2>6, FailedClean
  <2>7. CASE cat_fnames
    BY <2>7, CatClean
  <2>8. CASE unlink_files
    BY <2>8, UnlinkClean
  <2>9. CASE Killed
    BY <2>9, KilledClean
  <2>10. CASE UNCHANGED vars
    <3>1. UNCHANGED <<job, files, pc, running, fs, status>>
      BY <2>10 DEF vars
    <3>2. FilesWhole'
      BY <3>1 DEF FailInv, FilesWhole, Unfinished, DepName
    <3>3. Child' /\ Named' /\ There'
      BY <3>1 DEF FailInv, Child, Named, There, HasRun, After
    <3> QED BY <3>2, <3>3 DEF FailInv
  <2> QED BY <2>1, <2>2, <2>3, <2>4, <2>5, <2>6, <2>7, <2>8, <2>9, <2>10 DEF Next, Step, Done
<1>2. FailInv => FailureIsClean
  <2> SUFFICES ASSUME FailInv, pc = "done", NEW n \in DOMAIN fs, NEW k \in 1..Len(fs[n]), fs[n][k] = Partial
               PROVE  n = Stdout \/ (status # 0 /\ (n = DepName \/ (job.mode = preproc /\ n = OutName(job.output))))
    BY DEF FailureIsClean
  <2>1. fs[n] \notin Seq(Whole)
    <3>1. Partial \notin Whole
      BY PartialPiece
    <3> HIDE DEF Whole
    <3> QED BY <3>1
  <2> QED BY <2>1 DEF FailInv, FilesWhole, Unfinished
<1>3. Init => FailInv
  BY InitKeeps, InitClean
<1> QED BY <1>1, <1>2, <1>3, DriverInductive, PTL DEF Spec

-----------------------------------------------------------------------------
(* What the tools are told, for every command line.  The lists of cpp and   *)
(* cc1 agree on an option as long as both or neither of them are given it;  *)
(* ToldOK says so of every state of parse_argv().                           *)

Agreed == Spanning \cup {"-fstack-protector", "-fstack-protector-all"}
LinkerOptions == {"-l", "-L", "-s", "-X"}
\* Values are those of the command line and the driver's own.
Values == STRING \cup {"", "on", "pic", "none", "a.out", "builtin", "system", "_REENTRANT", "pthread", "__ASSEMBLER__"}
ArgOf(who) == [o : Options \cup {"__PIE__"}, v : Values, who : who]

\* The last value of option o in x and that of p in y, but for some, are the same.
EntriesOf(l, o, but) == {k \in 1..Len(l) : l[k].o = o /\ l[k].v \notin but}
LastIs(l, o, but, v) == \E k \in EntriesOf(l, o, but) : l[k].v = v /\ \A j \in EntriesOf(l, o, but) : j <= k
SameFor(x, y, o, p, but) ==
  \/ EntriesOf(x, o, {}) = {} /\ EntriesOf(y, p, but) = {}
  \/ \E v : LastIs(x, o, {}, v) /\ LastIs(y, p, but, v)

\* What cpp is told agrees with what cc1 is: option by option, and __PIE__
\* with the options that cpp does not forget.
Alike(x, y) ==
  /\ \A o \in Agreed : SameFor(x, y, o, o, {})
  /\ SameFor(x, y, "__PIE__", "-fpic", PlainPic)

\* Two lists one after the other.
LEMMA ConcatElements ==
  ASSUME NEW S, NEW x \in Seq(S), NEW y \in Seq(S)
  PROVE  /\ x \o y \in Seq(S) /\ Len(x) \in Nat /\ Len(y) \in Nat /\ Len(x \o y) = Len(x) + Len(y)
         /\ \A k \in 1..Len(x) : (x \o y)[k] = x[k] /\ x[k] \in S
         /\ \A k \in 1..Len(y) : (x \o y)[Len(x) + k] = y[k] /\ y[k] \in S
         /\ \A k \in 1..Len(x \o y) :
              \/ k \in 1..Len(x) /\ (x \o y)[k] = x[k]
              \/ k - Len(x) \in 1..Len(y) /\ (x \o y)[k] = y[k - Len(x)]
OBVIOUS

\* The last entry for an option is that of the second list, if it has one.
LEMMA ConcatLast ==
  ASSUME NEW S, NEW x \in Seq(S), NEW y \in Seq(S), NEW o, NEW v, NEW but
  PROVE  /\ EntriesOf(x, o, but) = {} /\ EntriesOf(y, o, but) = {} => EntriesOf(x \o y, o, but) = {}
         /\ LastIs(y, o, but, v) => LastIs(x \o y, o, but, v)
         /\ EntriesOf(y, o, but) = {} /\ LastIs(x, o, but, v) => LastIs(x \o y, o, but, v)
<1> DEFINE z == x \o y
           n == Len(x)
<1>1. /\ n \in Nat /\ Len(y) \in Nat /\ Len(z) = n + Len(y)
      /\ \A k \in 1..n : z[k] = x[k]
      /\ \A k \in 1..Len(y) : z[n + k] = y[k]
      /\ \A k \in 1..Len(z) : \/ k \in 1..n /\ z[k] = x[k]
                              \/ k - n \in 1..Len(y) /\ z[k] = y[k - n]
  BY ConcatElements
<1> HIDE DEF z, n
<1>2. /\ \A k \in EntriesOf(z, o, but) : k \in EntriesOf(x, o, but) \/ k - n \in EntriesOf(y, o, but)
      /\ \A k \in EntriesOf(x, o, but) : k \in EntriesOf(z, o, but) /\ k <= n /\ z[k] = x[k]
      /\ \A k \in EntriesOf(y, o, but) : n + k \in EntriesOf(z, o, but) /\ z[n + k] = y[k] /\ k >= 1
  BY <1>1 DEF EntriesOf, n
<1>3. /\ \A k \in EntriesOf(x, o, but) : k \in Int /\ k <= n
      /\ \A k \in EntriesOf(y, o, but) : k \in Int /\ k >= 1
      /\ \A k \in EntriesOf(z, o, but) : k \in Int
  BY <1>1 DEF EntriesOf, n
<1>4. EntriesOf(x, o, but) = {} /\ EntriesOf(y, o, but) = {} => EntriesOf(z, o, but) = {}
  BY <1>2
<1>5. ASSUME LastIs(y, o, but, v) PROVE LastIs(z, o, but, v)
  <2>1. PICK k \in EntriesOf(y, o, but) : y[k].v = v /\ \A j \in EntriesOf(y, o, but) : j <= k
    BY <1>5 DEF LastIs
  <2>2. n + k \in EntriesOf(z, o, but) /\ z[n + k].v = v
    BY <1>2, <2>1
  <2>3. ASSUME NEW j \in EntriesOf(z, o, but) PROVE j <= n + k
    <3>1. n \in Int /\ k \in Int /\ k >= 1 /\ j \in Int
      BY <1>1, <1>3, <2>1
    <3>2. CASE j \in EntriesOf(x, o, but)
      <4>1. j <= n
        BY <1>3, <3>2
      <4> QED BY <3>1, <4>1
    <3>3. CASE j - n \in EntriesOf(y, o, but)
      <4>1. j - n <= k
        BY <2>1, <3>3
      <4> QED BY <3>1, <4>1
    <3> QED BY <1>2, <3>2, <3>3
  <2> QED BY <2>2, <2>3 DEF LastIs
<1>6. ASSUME EntriesOf(y, o, but) = {}, LastIs(x, o, but, v) PROVE LastIs(z, o, but, v)
  <2>1. PICK k \in EntriesOf(x, o, but) : x[k].v = v /\ \A j \in EntriesOf(x, o, but) : j <= k
    BY <1>6 DEF LastIs
  <2>2. k \in EntriesOf(z, o, but) /\ z[k].v = v
    BY <1>2, <2>1
  <2>3. ASSUME NEW j \in EntriesOf(z, o, but) PROVE j <= k
    BY <1>2, <1>6, <2>1
  <2> QED BY <2>2, <2>3 DEF LastIs
<1> QED BY <1>4, <1>5, <1>6 DEF z

\* Lists that agree still do behind lists that agree.
LEMMA ConcatSame ==
  ASSUME NEW S, NEW x \in Seq(S), NEW y \in Seq(S), NEW u \in Seq(S), NEW w \in Seq(S), NEW o, NEW p, NEW but,
         SameFor(x, y, o, p, but), SameFor(u, w, o, p, but)
  PROVE  SameFor(x \o u, y \o w, o, p, but)
<1>1. CASE \E v : LastIs(u, o, {}, v) /\ LastIs(w, p, but, v)
  BY <1>1, ConcatLast DEF SameFor
<1>2. CASE EntriesOf(u, o, {}) = {} /\ EntriesOf(w, p, but) = {}
  BY <1>2, ConcatLast DEF SameFor
<1> QED BY <1>1, <1>2 DEF SameFor

LEMMA ConcatAlike ==
  ASSUME NEW S, NEW x \in Seq(S), NEW y \in Seq(S), NEW u \in Seq(S), NEW w \in Seq(S), Alike(x, y), Alike(u, w)
  PROVE  Alike(x \o u, y \o w)
<1>1. ASSUME NEW o \in Agreed PROVE SameFor(x \o u, y \o w, o, o, {})
  <2>1. SameFor(x, y, o, o, {}) /\ SameFor(u, w, o, o, {})
    BY DEF Alike
  <2> QED BY <2>1, ConcatSame
<1>2. SameFor(x, y, "__PIE__", "-fpic", PlainPic) /\ SameFor(u, w, "__PIE__", "-fpic", PlainPic)
  BY DEF Alike
<1>3. SameFor(x \o u, y \o w, "__PIE__", "-fpic", PlainPic)
  BY <1>2, ConcatSame
<1> QED BY <1>1, <1>3 DEF Alike

\* Lists with no entry or one.
LEMMA OneEntry ==
  ASSUME NEW e, NEW o, NEW but
  PROVE  /\ EntriesOf(<<>>, o, but) = {}
         /\ e.o # o \/ e.v \in but => EntriesOf(<<e>>, o, but) = {}
         /\ e.o = o /\ e.v \notin but => LastIs(<<e>>, o, but, e.v)
BY DEF EntriesOf, LastIs

\* The lists the tools are given, with entries from who.
Told(args, who) ==
  /\ args \in [Tools -> Seq(ArgOf(who))]
  /\ Alike(args[preproc], args[compile])
  /\ \A k \in 1..Len(args[link]) : args[link][k].o \in LinkerOptions

\* What of a state of parse_argv() the lists come from.
ToldOK(s, who) ==
  /\ {"args", "isystems", "includes", "ssp", "who", "output", "inputs", "assume"} \subseteq DOMAIN s
  /\ Told(s.args, {who}) /\ s.who = who
  /\ s.isystems \in Seq(ArgOf({who})) /\ \A k \in 1..Len(s.isystems) : s.isystems[k].o \notin Agreed \cup {"__PIE__"}
  /\ s.includes \in Seq(ArgOf({who})) /\ \A k \in 1..Len(s.includes) : s.includes[k].o \notin Agreed \cup {"__PIE__"}
  /\ s.ssp \in {"none", "-fstack-protector", "-fstack-protector-all"} /\ s.output \in Values
  /\ s.inputs \in Seq([name : Values, assume : Int]) /\ s.assume \in Int

\* An option only one of cpp and cc1 gets is not one they must agree on,
\* -fpie needs more than an entry in both lists, and the linker gets its own only.
MayGet(tools, a) ==
  /\ a.o \in Agreed => (preproc \in tools <=> compile \in tools)
  /\ a.o = "-fpic" => compile \notin tools \/ a.v \in PlainPic
  /\ link \in tools => a.o \in LinkerOptions

\* A list with at most one entry more.
LEMMA MoreSame ==
  ASSUME NEW S, NEW x \in Seq(S), NEW y \in Seq(S), NEW e \in S, NEW o, NEW p, NEW but, SameFor(x, y, o, p, but),
         NEW b \in BOOLEAN, NEW c \in BOOLEAN, (b /\ e.o = o) <=> (c /\ e.o = p /\ e.v \notin but)
  PROVE  SameFor(IF b THEN Append(x, e) ELSE x, IF c THEN Append(y, e) ELSE y, o, p, but)
<1> DEFINE u(d) == IF d THEN <<e>> ELSE <<>>
<1>1. /\ (IF b THEN Append(x, e) ELSE x) = x \o u(b)
      /\ (IF c THEN Append(y, e) ELSE y) = y \o u(c)
  <2>1. ASSUME NEW z \in Seq(S) PROVE Append(z, e) = z \o <<e>> /\ z = z \o <<>>
    OBVIOUS
  <2> QED BY <2>1
<1>2. u(b) \in Seq(S) /\ u(c) \in Seq(S)
  OBVIOUS
<1>3. SameFor(u(b), u(c), o, p, but)
  <2>1. /\ EntriesOf(<<>>, o, {}) = {} /\ EntriesOf(<<>>, p, but) = {}
        /\ e.o # o => EntriesOf(<<e>>, o, {}) = {}
        /\ e.o # p \/ e.v \in but => EntriesOf(<<e>>, p, but) = {}
        /\ e.o = o => LastIs(<<e>>, o, {}, e.v)
        /\ e.o = p /\ e.v \notin but => LastIs(<<e>>, p, but, e.v)
    BY OneEntry
  <2> QED BY <2>1 DEF SameFor
<1> HIDE DEF u
<1> QED BY <1>1, <1>2, <1>3, ConcatSame

LEMMA MoreAlike ==
  ASSUME NEW S, NEW x \in Seq(S), NEW y \in Seq(S), NEW e \in S, Alike(x, y), NEW b \in BOOLEAN, NEW c \in BOOLEAN,
         e.o \in Agreed => b = c, e.o # "__PIE__", e.o = "-fpic" => ~c \/ e.v \in PlainPic
  PROVE  Alike(IF b THEN Append(x, e) ELSE x, IF c THEN Append(y, e) ELSE y)
<1>1. ASSUME NEW o \in Agreed PROVE SameFor(IF b THEN Append(x, e) ELSE x, IF c THEN Append(y, e) ELSE y, o, o, {})
  <2>1. SameFor(x, y, o, o, {}) /\ ((b /\ e.o = o) <=> (c /\ e.o = o /\ e.v \notin {}))
    BY DEF Alike
  <2> QED BY <2>1, MoreSame
<1>2. SameFor(x, y, "__PIE__", "-fpic", PlainPic) /\ ((b /\ e.o = "__PIE__") <=> (c /\ e.o = "-fpic" /\ e.v \notin PlainPic))
  BY DEF Alike
<1>3. SameFor(IF b THEN Append(x, e) ELSE x, IF c THEN Append(y, e) ELSE y, "__PIE__", "-fpic", PlainPic)
  BY <1>2, MoreSame
<1> QED BY <1>1, <1>3 DEF Alike

\* One more argument.
LEMMA AddTold ==
  ASSUME NEW s, NEW who, Told(s.args, who), s.who \in who, "args" \in DOMAIN s,
         NEW tools, NEW a, a.o \in Options, a.v \in Values, MayGet(tools, a)
  PROVE  Told(ADD_ARG(s, tools, a).args, who)
<1> DEFINE e == Entry(s, a)
           old1 == s.args
           new == [t \in Tools |-> IF t \in tools THEN Append(old1[t], e) ELSE old1[t]]
<1>1. ADD_ARG(s, tools, a).args = new
  BY DEF ADD_ARG
<1>2. e \in ArgOf(who) /\ e.o = a.o /\ e.v = a.v /\ e.o # "__PIE__"
  BY DEF Entry, ArgOf, Options
<1>3. /\ old1 \in [Tools -> Seq(ArgOf(who))]
      /\ Alike(old1[preproc], old1[compile])
      /\ \A k \in 1..Len(old1[link]) : old1[link][k].o \in LinkerOptions
      /\ preproc \in Tools /\ compile \in Tools /\ link \in Tools
  BY DEF Told, Tools
<1> HIDE DEF e, old1
<1>4. new \in [Tools -> Seq(ArgOf(who))]
  <2>1. ASSUME NEW t \in Tools PROVE (IF t \in tools THEN Append(old1[t], e) ELSE old1[t]) \in Seq(ArgOf(who))
    <3>1. old1[t] \in Seq(ArgOf(who))
      BY <1>3
    <3>2. Append(old1[t], e) \in Seq(ArgOf(who))
      BY <1>2, <3>1
    <3> QED BY <3>1, <3>2
  <2> QED BY <2>1
<1>5. Alike(new[preproc], new[compile])
  <2> DEFINE S == ArgOf(who)
             b == preproc \in tools
             c == compile \in tools
  <2>1. /\ old1[preproc] \in Seq(S) /\ old1[compile] \in Seq(S) /\ e \in S
        /\ Alike(old1[preproc], old1[compile]) /\ b \in BOOLEAN /\ c \in BOOLEAN
        /\ e.o \in Agreed => b = c
        /\ e.o # "__PIE__" /\ (e.o = "-fpic" => ~c \/ e.v \in PlainPic)
    BY <1>2, <1>3 DEF MayGet
  <2>2. /\ new[preproc] = IF b THEN Append(old1[preproc], e) ELSE old1[preproc]
        /\ new[compile] = IF c THEN Append(old1[compile], e) ELSE old1[compile]
    BY <1>3
  <2> HIDE DEF S, b, c, new
  <2>3. Alike(IF b THEN Append(old1[preproc], e) ELSE old1[preproc], IF c THEN Append(old1[compile], e) ELSE old1[compile])
    BY <2>1, MoreAlike
  <2> QED BY <2>2, <2>3
<1>6. ASSUME NEW k \in 1..Len(new[link]) PROVE new[link][k].o \in LinkerOptions
  <2> DEFINE l == old1[link]
  <2>1. l \in Seq(ArgOf(who)) /\ \A j \in 1..Len(l) : l[j].o \in LinkerOptions
    BY <1>3
  <2>2. CASE link \notin tools
    <3>1. new[link] = l
      BY <1>3, <2>2
    <3> QED BY <1>6, <2>1, <3>1
  <2>3. CASE link \in tools
    <3>1. new[link] = Append(l, e) /\ e.o \in LinkerOptions
      BY <1>2, <1>3, <2>3 DEF MayGet
    <3> HIDE DEF l, new
    <3>2. Len(l) \in Nat /\ Len(Append(l, e)) = Len(l) + 1 /\ Append(l, e)[Len(l) + 1] = e
          /\ \A j \in 1..Len(l) : Append(l, e)[j] = l[j]
      BY <2>1
    <3>3. k \in 1..Len(l) \/ k = Len(l) + 1
      BY <1>6, <3>1, <3>2
    <3> QED BY <2>1, <3>1, <3>2, <3>3
  <2> QED BY <2>2, <2>3
<1> HIDE DEF new
<1> QED BY <1>1, <1>4, <1>5, <1>6 DEF Told

\* -fpie: an entry in both lists and one for the macro.
LEMMA PieTold ==
  ASSUME NEW s, NEW who, Told(s.args, who), s.who \in who, {"args", "who"} \subseteq DOMAIN s,
         NEW a, a.o = "-fpic", a.v \in Values, a.v \notin PlainPic
  PROVE  Told(ADD_ARG(ADD_ARG(s, {preproc, compile}, a), {preproc}, [o |-> "__PIE__", v |-> a.v]).args, who)
<1> DEFINE m == [o |-> "__PIE__", v |-> a.v]
           e == Entry(s, a)
           g == Entry(s, m)
           x == s.args[preproc]
           y == s.args[compile]
           S == ArgOf(who)
           new == ADD_ARG(ADD_ARG(s, {preproc, compile}, a), {preproc}, m).args
<1>1. /\ preproc \in Tools /\ compile \in Tools /\ link \in Tools /\ preproc # compile /\ link \notin {preproc, compile}
      /\ s.args \in [Tools -> Seq(S)] /\ x \in Seq(S) /\ y \in Seq(S) /\ Alike(x, y)
      /\ \A k \in 1..Len(s.args[link]) : s.args[link][k].o \in LinkerOptions
  BY DEF Told, Tools, preproc, compile, link
<1>2. /\ e \in S /\ e.o = "-fpic" /\ e.v = a.v /\ g \in S /\ g.o = "__PIE__" /\ g.v = a.v
  BY DEF Entry, ArgOf, Options
<1>3. new = [t \in Tools |-> IF t = preproc THEN Append(Append(x, e), g) ELSE IF t = compile THEN Append(y, e) ELSE s.args[t]]
  BY <1>1 DEF ADD_ARG, Entry
<1> HIDE DEF e, g, x, y, S, new
<1>4. /\ Append(Append(x, e), g) = x \o <<e, g>> /\ Append(y, e) = y \o <<e>>
      /\ <<e, g>> \in Seq(S) /\ <<e>> \in Seq(S) /\ x \o <<e, g>> \in Seq(S) /\ y \o <<e>> \in Seq(S)
  <2>1. x \in Seq(S) /\ y \in Seq(S) /\ e \in S /\ g \in S
    BY <1>1, <1>2
  <2>2. Append(y, e) = y \o <<e>> /\ <<e>> \in Seq(S) /\ y \o <<e>> \in Seq(S)
    BY <2>1
  <2>3. <<e, g>> \in Seq(S)
    BY <2>1
  <2>4. x \o <<e, g>> \in Seq(S)
    BY <2>1, <2>3
  <2>5. Append(Append(x, e), g) = x \o <<e, g>>
    <3> DEFINE z == Append(Append(x, e), g)
               w == x \o <<e, g>>
    <3>1. z \in Seq(S) /\ w \in Seq(S) /\ Len(x) \in Nat /\ Len(z) = Len(x) + 2 /\ Len(w) = Len(x) + 2
      BY <2>1, <2>4
    <3>2. /\ \A k \in 1..Len(x) : z[k] = x[k] /\ w[k] = x[k]
          /\ z[Len(x) + 1] = e /\ w[Len(x) + 1] = e /\ z[Len(x) + 2] = g /\ w[Len(x) + 2] = g
      BY <2>1
    <3> HIDE DEF z, w
    <3>3. ASSUME NEW k \in 1..Len(z) PROVE z[k] = w[k]
      BY <3>1, <3>2
    <3>4. z = w
      BY <3>1, <3>3
    <3> QED BY <3>4 DEF z, w
  <2> QED BY <2>2, <2>3, <2>4, <2>5
<1>5. Alike(<<e, g>>, <<e>>)
  <2>1. ASSUME NEW o \in Agreed PROVE SameFor(<<e, g>>, <<e>>, o, o, {})
    <3>1. o # "__PIE__"
      BY DEF Agreed, Spanning
    <3>2. CASE o = "-fpic"
      <4>1. LastIs(<<e, g>>, o, {}, a.v) /\ LastIs(<<e>>, o, {}, a.v)
        BY <1>2, <3>2 DEF LastIs, EntriesOf
      <4> QED BY <4>1 DEF SameFor
    <3>3. CASE o # "-fpic"
      <4>1. EntriesOf(<<e, g>>, o, {}) = {} /\ EntriesOf(<<e>>, o, {}) = {}
        BY <1>2, <3>1, <3>3 DEF EntriesOf
      <4> QED BY <4>1 DEF SameFor
    <3> QED BY <3>2, <3>3
  <2>2. LastIs(<<e, g>>, "__PIE__", {}, a.v) /\ LastIs(<<e>>, "-fpic", PlainPic, a.v)
    BY <1>2 DEF LastIs, EntriesOf
  <2> QED BY <2>1, <2>2 DEF Alike, SameFor
<1>6. Alike(x \o <<e, g>>, y \o <<e>>)
  BY <1>1, <1>4, <1>5, ConcatAlike
<1>7. /\ new[preproc] = x \o <<e, g>> /\ new[compile] = y \o <<e>> /\ new[link] = s.args[link]
      /\ new \in [Tools -> Seq(S)]
  BY <1>1, <1>3, <1>4
<1> QED BY <1>1, <1>6, <1>7 DEF Told, S, new

\* ADD_ARG() in a state of parse_argv().
LEMMA AddOK ==
  ASSUME NEW s, NEW who, ToldOK(s, who), NEW tools, NEW a, a.o \in Options, a.v \in Values, MayGet(tools, a)
  PROVE  ToldOK(ADD_ARG(s, tools, a), who)
<1>1. Told(ADD_ARG(s, tools, a).args, {who})
  BY AddTold DEF ToldOK
<1>2. /\ DOMAIN ADD_ARG(s, tools, a) = DOMAIN s
      /\ \A f \in DOMAIN s : f # "args" => ADD_ARG(s, tools, a)[f] = s[f]
  BY DEF ADD_ARG
<1>3. {"args", "isystems", "includes", "ssp", "who", "output", "inputs", "assume"} \subseteq DOMAIN s
  BY DEF ToldOK
<1> QED BY <1>1, <1>2, <1>3 DEF ToldOK

LEMMA PieOK ==
  ASSUME NEW s, NEW who, ToldOK(s, who), NEW a, a.o = "-fpic", a.v \in Values, a.v \notin PlainPic
  PROVE  ToldOK(ADD_ARG(ADD_ARG(s, {preproc, compile}, a), {preproc}, [o |-> "__PIE__", v |-> a.v]), who)
<1> DEFINE r == ADD_ARG(ADD_ARG(s, {preproc, compile}, a), {preproc}, [o |-> "__PIE__", v |-> a.v])
<1>3. {"args", "isystems", "includes", "ssp", "who", "output", "inputs", "assume"} \subseteq DOMAIN s
  BY DEF ToldOK
<1>1. Told(r.args, {who})
  <2>1. Told(s.args, {who}) /\ s.who \in {who} /\ {"args", "who"} \subseteq DOMAIN s
    BY <1>3 DEF ToldOK
  <2> QED BY <2>1, PieTold
<1>2. DOMAIN r = DOMAIN s /\ \A f \in DOMAIN s : f # "args" => r[f] = s[f]
  BY DEF ADD_ARG
<1> HIDE DEF r
<1>4. ToldOK(r, who)
  BY <1>1, <1>2, <1>3 DEF ToldOK
<1> QED BY <1>4 DEF r

\* Setting a field the lists do not come from.
LEMMA FieldOK ==
  ASSUME NEW s, NEW who, ToldOK(s, who), NEW x,
         NEW field, field \notin {"args", "isystems", "includes", "ssp", "who", "output", "inputs", "assume"}
  PROVE  ToldOK([s EXCEPT ![field] = x], who)
BY DEF ToldOK

\* Options that are not in the way.
LEMMA ApartOptions ==
  /\ \A o \in {"-W", "-Werror=", "-X", "-I", "-isystem", "-M", "-MM", "-MD", "-MF", "-D", "-U", "-H", "-C", "-trigraphs", "-m",
               "-g", "-pedantic", "-f", "-O", "-std", "-ffreestanding", "-l", "-L", "-s", "-w", "-pg", "-target"} :
       o \notin Agreed \cup {"__PIE__", "-fpic"}
  /\ link \notin {preproc, compile, assemb} /\ link \notin {preproc, compile} /\ link \notin {preproc} /\ link \notin {compile}
BY DEF Agreed, Spanning, link, preproc, compile, assemb

\* -I and -isystem.
LEMMA IncludeOK ==
  ASSUME NEW s, NEW who, ToldOK(s, who), NEW a, a.o \in {"-I", "-isystem"}, a.v \in Values
  PROVE  ToldOK(ParseInclude(s, a), who)
<1> DEFINE e == Entry(s, a)
<1>1. e \in ArgOf({who}) /\ e.o \notin Agreed \cup {"__PIE__"}
  <2>1. a.o \in Options /\ s.who = who
    BY DEF Options, ToldOK
  <2> QED BY <2>1, ApartOptions DEF Entry, ArgOf
<1>2. ASSUME NEW l \in Seq(ArgOf({who})), \A k \in 1..Len(l) : l[k].o \notin Agreed \cup {"__PIE__"}
      PROVE  Append(l, e) \in Seq(ArgOf({who})) /\ \A k \in 1..Len(Append(l, e)) : Append(l, e)[k].o \notin Agreed \cup {"__PIE__"}
  <2> HIDE DEF e
  <2>1. Append(l, e) \in Seq(ArgOf({who})) /\ Len(l) \in Nat /\ Len(Append(l, e)) = Len(l) + 1
        /\ Append(l, e)[Len(l) + 1] = e /\ \A j \in 1..Len(l) : Append(l, e)[j] = l[j]
    BY <1>1, <1>2
  <2>2. ASSUME NEW k \in 1..Len(Append(l, e)) PROVE k \in 1..Len(l) \/ k = Len(l) + 1
    BY <2>1
  <2> QED BY <1>1, <1>2, <2>1, <2>2
<1> HIDE DEF e
<1>3. CASE a.o = "-I"
  <2>1. ParseInclude(s, a) = [s EXCEPT !.includes = Append(s.includes, e)]
    BY <1>3 DEF ParseInclude, e
  <2> QED BY <1>2, <2>1 DEF ToldOK
<1>4. CASE a.o = "-isystem"
  <2>1. ParseInclude(s, a) = [s EXCEPT !.isystems = Append(s.isystems, e)]
    BY <1>4 DEF ParseInclude, e
  <2> QED BY <1>2, <2>1 DEF ToldOK
<1> QED BY <1>3, <1>4

\* One argument.
LEMMA ParseTells ==
  ASSUME NEW s, NEW who, ToldOK(s, who), NEW a \in [o : Options, v : Values]
  PROVE  ToldOK(parse_arg(s, a), who)
<1>0. a.o \in Options /\ a.v \in Values
  OBVIOUS
<1>1. ASSUME NEW tools, MayGet(tools, a) PROVE ToldOK(ADD_ARG(s, tools, a), who)
  BY <1>0, <1>1, AddOK
<1>2. ToldOK(Die(s), who)
  BY FieldOK DEF Die
<1>3. CASE s.dead
  BY <1>3 DEF parse_arg
<1>4. CASE ~s.dead /\ (s.double_dash \/ a.o \in {"--", "input"})
  <2> DEFINE n == [name |-> a.v, assume |-> s.assume]
             x == Append(s.inputs, n)
             t == [s EXCEPT !["inputs"] = x]
  <2>1. \E y : parse_arg(s, a) = [t EXCEPT !["double_dash"] = y]
    BY <1>4 DEF parse_arg, ParseInput
  <2>2. ToldOK(t, who)
    <3> DEFINE In == [name : Values, assume : Int]
    <3>1. s.inputs \in Seq(In) /\ n \in In
      BY <1>0 DEF ToldOK
    <3> HIDE DEF In, n
    <3>2. x \in Seq(In)
      BY <3>1
    <3> HIDE DEF x
    <3> QED BY <3>2 DEF ToldOK, In
  <2> HIDE DEF t
  <2>3. ASSUME NEW y PROVE ToldOK([t EXCEPT !["double_dash"] = y], who)
    BY <2>2, FieldOK
  <2> QED BY <2>1, <2>3, Zenon
<1>5. CASE ~s.dead /\ ~(s.double_dash \/ a.o \in {"--", "input"})
  <2>1. CASE a.o \in {"-W", "-Werror="}
    <3>1. parse_arg(s, a) = pass_warning(s, a)
      BY <1>5, <2>1 DEF parse_arg, Spanning
    <3>2. \E tools : pass_warning(s, a) = ADD_ARG(s, tools, a) /\ tools \subseteq {preproc, compile}
      BY DEF pass_warning, warning_owner
    <3>3. ASSUME NEW tools, tools \subseteq {preproc, compile} PROVE MayGet(tools, a)
      BY <2>1, <3>3, ApartOptions DEF MayGet
    <3> QED BY <1>1, <3>1, <3>2, <3>3
  <2>2. CASE a.o = "-X"
    <3>1. parse_arg(s, a) = ParseForTool(s, a)
      BY <1>5, <2>2 DEF parse_arg, Spanning
    <3>2. ASSUME NEW tools PROVE MayGet(tools, a)
      BY <2>2, ApartOptions DEF MayGet, LinkerOptions
    <3> QED BY <1>1, <3>1, <3>2 DEF ParseForTool
  <2>3. CASE a.o \in {"-I", "-isystem"}
    <3>1. parse_arg(s, a) = ParseInclude(s, a)
      BY <1>5, <2>3 DEF parse_arg, Spanning
    <3> QED BY <1>0, <2>3, <3>1, IncludeOK
  <2>4. CASE a.o \in {"-M", "-MM", "-MD", "-MF"}
    <3>1. parse_arg(s, a) = ParseDeps(s, a)
      BY <1>5, <2>4 DEF parse_arg, Spanning
    <3> DEFINE w == [o |-> "-w", v |-> ""]
               t == ADD_ARG(s, {preproc}, a)
               u == ADD_ARG(t, {preproc, compile}, w)
    <3>2. ToldOK(t, who)
      BY <1>1, <2>4, ApartOptions DEF MayGet
    <3>3. ToldOK(u, who)
      <4>1. w.o \in Options /\ w.v \in Values /\ MayGet({preproc, compile}, w)
        BY ApartOptions DEF MayGet, Options, Values
      <4> HIDE DEF t, w
      <4> QED BY <3>2, <4>1, AddOK
    <3> DEFINE IsDep(x, y) == \/ x = [[u EXCEPT !["mode"] = preproc] EXCEPT !["deps"] = TRUE]
                              \/ x = [[t EXCEPT !["mode"] = preproc] EXCEPT !["deps"] = TRUE]
                              \/ x = [[u EXCEPT !["had_MD"] = TRUE] EXCEPT !["deps"] = TRUE]
                              \/ x = [t EXCEPT !["dep"] = y]
    <3>4. \E y : IsDep(ParseDeps(s, a), y)
      BY <2>4 DEF ParseDeps
    <3> HIDE DEF t, u
    <3>6. PICK y : IsDep(ParseDeps(s, a), y)
      BY <3>4
    <3>8. ASSUME NEW r, ToldOK(r, who), NEW f, NEW g, NEW x, NEW z,
                 {f, g} \cap {"args", "isystems", "includes", "ssp", "who", "output", "inputs", "assume"} = {}
          PROVE  ToldOK([[r EXCEPT ![f] = x] EXCEPT ![g] = z], who)
      <4> DEFINE q == [r EXCEPT ![f] = x]
      <4>1. ToldOK(q, who)
        BY <3>8, FieldOK
      <4> HIDE DEF q
      <4>2. ToldOK([q EXCEPT ![g] = z], who)
        BY <3>8, <4>1, FieldOK
      <4> QED BY <4>2 DEF q
    <3>5. /\ ToldOK([[u EXCEPT !["mode"] = preproc] EXCEPT !["deps"] = TRUE], who)
          /\ ToldOK([[t EXCEPT !["mode"] = preproc] EXCEPT !["deps"] = TRUE], who)
          /\ ToldOK([[u EXCEPT !["had_MD"] = TRUE] EXCEPT !["deps"] = TRUE], who)
          /\ ToldOK([t EXCEPT !["dep"] = y], who)
      BY <3>2, <3>3, <3>8, FieldOK
    <3>7. ToldOK(ParseDeps(s, a), who)
      BY <3>5, <3>6, Zenon
    <3> QED BY <3>1, <3>7
  <2>5. CASE a.o \in Spanning
    <3> DEFINE both == ADD_ARG(s, {preproc, compile}, a)
    <3>1. CASE a.o = "-fpic" /\ a.v \notin PlainPic
      <4>1. parse_arg(s, a) = ADD_ARG(both, {preproc}, [o |-> "__PIE__", v |-> a.v])
        BY <1>5, <2>5, <3>1 DEF parse_arg, Spanning, handle_spanning_fopt
      <4> QED BY <1>0, <3>1, <4>1, PieOK
    <3>2. CASE ~(a.o = "-fpic" /\ a.v \notin PlainPic)
      <4>1. parse_arg(s, a) = both
        BY <1>5, <2>5, <3>2 DEF parse_arg, Spanning, handle_spanning_fopt
      <4>2. MayGet({preproc, compile}, a)
        BY <3>2, ApartOptions DEF MayGet
      <4> QED BY <1>1, <4>1, <4>2
    <3> QED BY <3>1, <3>2
  <2>6. CASE a.o \in {"-fstack-protector", "-fstack-protector-all"}
    <3>1. \E x \in {"none", "-fstack-protector", "-fstack-protector-all"} : parse_arg(s, a) = [s EXCEPT !.ssp = x]
      BY <1>5, <2>6 DEF parse_arg, Spanning, handle_spanning_fopt
    <3>2. ASSUME NEW x \in {"none", "-fstack-protector", "-fstack-protector-all"} PROVE ToldOK([s EXCEPT !.ssp = x], who)
      BY DEF ToldOK
    <3> QED BY <3>1, <3>2
  <2>7. CASE a.o \in {"-E", "-S", "-c", "-o", "-x", "-bad"}
    <3>1. parse_arg(s, a) \in {ParseMode(s, a), ParseOutput(s, a), ParseX(s, a), Die(s)}
      BY <1>5, <2>7 DEF parse_arg, Spanning
    <3>2. \E x : ParseMode(s, a) = [s EXCEPT !["mode"] = x]
      BY DEF ParseMode
    <3>3. ParseOutput(s, a) = [s EXCEPT !["output"] = a.v]
      BY DEF ParseOutput
    <3>4. ParseX(s, a) = Die(s) \/ \E x \in Int : ParseX(s, a) = [s EXCEPT !["assume"] = x]
      BY DEF ParseX, preproc, compile, assemb, assemb_with_cpp, NoAssumption
    <3>5. ASSUME NEW x PROVE ToldOK([s EXCEPT !["mode"] = x], who)
      BY FieldOK
    <3>9. ASSUME NEW x \in Int PROVE ToldOK([s EXCEPT !["assume"] = x], who)
      BY DEF ToldOK
    <3>6. ToldOK(ParseMode(s, a), who)
      BY <3>2, <3>5, Zenon
    <3>7. ToldOK(ParseOutput(s, a), who)
      <4>1. ToldOK([s EXCEPT !["output"] = a.v], who)
        BY <1>0 DEF ToldOK
      <4> QED BY <3>3, <4>1
    <3>8. ToldOK(ParseX(s, a), who)
      BY <1>2, <3>4, <3>9, Zenon
    <3> QED BY <1>2, <3>1, <3>6, <3>7, <3>8
  <2>8. CASE a.o \in {"-D", "-U", "-H", "-C", "-trigraphs", "-m", "-g", "-pedantic", "-f", "-O", "-std",
                      "-ffreestanding", "-l", "-L", "-s", "-w"}
    <3>1. parse_arg(s, a) = ParseHandedOn(s, a)
      BY <1>5, <2>8 DEF parse_arg, Spanning
    <3>2. \E tools : /\ \/ ParseHandedOn(s, a) = ADD_ARG(s, tools, a)
                        \/ \E x : ParseHandedOn(s, a) = [ADD_ARG(s, tools, a) EXCEPT !["debug"] = x]
                     /\ link \in tools => a.o \in {"-l", "-L", "-s"}
      BY <2>8, ApartOptions DEF ParseHandedOn
    <3>3. PICK tools : /\ \/ ParseHandedOn(s, a) = ADD_ARG(s, tools, a)
                          \/ \E x : ParseHandedOn(s, a) = [ADD_ARG(s, tools, a) EXCEPT !["debug"] = x]
                       /\ link \in tools => a.o \in {"-l", "-L", "-s"}
      BY <3>2
    <3>4. MayGet(tools, a)
      BY <2>8, <3>3, ApartOptions DEF MayGet, LinkerOptions
    <3> DEFINE t == ADD_ARG(s, tools, a)
    <3>5. ToldOK(t, who)
      BY <1>1, <3>4
    <3> HIDE DEF t
    <3>6. ASSUME NEW x PROVE ToldOK([t EXCEPT !["debug"] = x], who)
      BY <3>5, FieldOK
    <3>7. ParseHandedOn(s, a) = t \/ \E x : ParseHandedOn(s, a) = [t EXCEPT !["debug"] = x]
      BY <3>3 DEF t
    <3>8. ToldOK(ParseHandedOn(s, a), who)
      BY <3>5, <3>6, <3>7, Zenon
    <3> QED BY <3>1, <3>8
  <2>9. CASE a.o \in {"-nostdlib", "-nostartfiles", "-nodefaultlibs", "-nostdinc", "-shared",
                      "-static", "-pie", "-pthread", "-###", "-emit", "-save-temps", "-fsyntax-only",
                      "-nostdlibinc", "-nobuiltininc", "-rdynamic", "-static-pie", "-pg", "-mlibc", "-target",
                      "-dumpmachine"}
    <3>1. parse_arg(s, a) = ParseWord(s, a)
      BY <1>5, <2>9 DEF parse_arg, Spanning
    <3> DEFINE Words == {"startfiles", "defaultlibs", "stdlibinc", "builtininc", "shared", "static", "pie", "pthread",
                         "noop", "backend", "save_temps", "syntax_only", "rdynamic", "ztext", "profile", "dyld",
                         "target", "dumpmachine"}
    <3>2. ASSUME NEW r, ToldOK(r, who), NEW f \in Words, NEW x PROVE ToldOK([r EXCEPT ![f] = x], who)
      BY <3>2, FieldOK
    <3>3. CASE a.o \in {"-nostdlib", "-nostdinc", "-static-pie"}
      <4> DEFINE t1 == [s EXCEPT !["startfiles"] = FALSE]
                 t2 == [s EXCEPT !["stdlibinc"] = FALSE]
                 t3 == [s EXCEPT !["static"] = TRUE]
                 t4 == [t3 EXCEPT !["pie"] = "on"]
                 u1 == [t1 EXCEPT !["defaultlibs"] = FALSE]
                 u2 == [t2 EXCEPT !["builtininc"] = FALSE]
                 u3 == [t4 EXCEPT !["ztext"] = TRUE]
      <4>1. ParseWord(s, a) \in {u1, u2, u3}
        BY <3>3 DEF ParseWord
      <4>2. ToldOK(t1, who) /\ ToldOK(t2, who) /\ ToldOK(t3, who)
        BY <3>2
      <4> HIDE DEF t1, t2, t3, Words
      <4>3. {"defaultlibs", "builtininc", "pie", "ztext"} \subseteq Words
        BY DEF Words
      <4>4. ToldOK(u1, who) /\ ToldOK(u2, who) /\ ToldOK(t4, who)
        BY <3>2, <4>2, <4>3
      <4> HIDE DEF u1, u2, t4
      <4>5. ToldOK(u3, who)
        BY <3>2, <4>3, <4>4
      <4> HIDE DEF u3
      <4> QED BY <3>1, <4>1, <4>4, <4>5
    <3>4. CASE a.o \in {"-pg", "-target"}
      <4> DEFINE t == ADD_ARG(s, {compile}, a)
                 u == ADD_ARG(s, {preproc, compile}, a)
                 t1 == [t EXCEPT !["profile"] = TRUE]
                 u1 == [u EXCEPT !["target"] = a.v]
      <4>1. ParseWord(s, a) \in {t1, u1}
        BY <3>4 DEF ParseWord
      <4>2. ToldOK(t, who) /\ ToldOK(u, who)
        <5>1. MayGet({compile}, a) /\ MayGet({preproc, compile}, a)
          BY <3>4, ApartOptions DEF MayGet
        <5> QED BY <1>1, <5>1
      <4> HIDE DEF t, u
      <4>3. ToldOK(t1, who) /\ ToldOK(u1, who)
        BY <3>2, <4>2
      <4> HIDE DEF t1, u1
      <4> QED BY <3>1, <4>1, <4>3
    <3>5. CASE a.o \notin {"-nostdlib", "-nostdinc", "-static-pie", "-pg", "-target"}
      <4>1. \E x : \E f \in Words : ParseWord(s, a) = [s EXCEPT ![f] = x]
        BY <2>9, <3>5 DEF ParseWord
      <4> HIDE DEF Words
      <4>3. PICK x : \E f \in Words : ParseWord(s, a) = [s EXCEPT ![f] = x]
        BY <4>1
      <4>4. PICK f \in Words : ParseWord(s, a) = [s EXCEPT ![f] = x]
        BY <4>3
      <4>5. ToldOK([s EXCEPT ![f] = x], who)
        BY <3>2
      <4>2. ToldOK(ParseWord(s, a), who)
        BY <4>4, <4>5
      <4> QED BY <3>1, <4>2
    <3> QED BY <3>3, <3>4, <3>5
  <2>10. \/ a.o \in {"-W", "-Werror="} \/ a.o = "-X" \/ a.o \in {"-I", "-isystem"}
         \/ a.o \in {"-M", "-MM", "-MD", "-MF"} \/ a.o \in Spanning
         \/ a.o \in {"-fstack-protector", "-fstack-protector-all"}
         \/ a.o \in {"-E", "-S", "-c", "-o", "-x", "-bad"}
         \/ a.o \in {"-D", "-U", "-H", "-C", "-trigraphs", "-m", "-g", "-pedantic", "-f", "-O", "-std",
                     "-ffreestanding", "-l", "-L", "-s", "-w"}
         \/ a.o \in {"-nostdlib", "-nostartfiles", "-nodefaultlibs", "-nostdinc", "-shared",
                       "-static", "-pie", "-pthread", "-###", "-emit", "-save-temps", "-fsyntax-only",
                       "-nostdlibinc", "-nobuiltininc", "-rdynamic", "-static-pie", "-pg", "-mlibc", "-target",
                       "-dumpmachine"}
    BY <1>5 DEF Options, Spanning
  <2> QED BY <2>1, <2>2, <2>3, <2>4, <2>5, <2>6, <2>7, <2>8, <2>9, <2>10, Zenon
<1> QED BY <1>3, <1>4, <1>5

\* A whole argument vector, from any good state.
LEMMA ArgvTells ==
  ASSUME NEW s, NEW who, ToldOK(s, who), NEW argv \in Seq([o : Options, v : Values])
  PROVE  ToldOK(parse_argv(s, argv), who)
<1>2. PICK len \in Nat : len = Len(argv)
  OBVIOUS
<1> DEFINE st == ParseStates(s, argv)
           Good == {k \in 0..len : ToldOK(st[k], who)}
<1>3. /\ st[0] = s
      /\ \A n \in 1..len : st[n] = parse_arg(st[n - 1], argv[n])
  BY <1>2, ParseUnfolds
<1> HIDE DEF st
<1>4. 0 \in Good
  BY <1>3
<1>5. ASSUME NEW n \in 1..len, n - 1 \in Good PROVE n \in Good
  <2>1. ToldOK(st[n - 1], who)
    BY <1>5, Zenon
  <2>2. argv[n] \in [o : Options, v : Values]
    <3> DEFINE Arg == [o : Options, v : Values]
    <3>1. argv \in Seq(Arg) /\ n \in 1..Len(argv)
      BY <1>2
    <3> HIDE DEF Arg
    <3>2. argv[n] \in Arg
      BY <3>1
    <3> QED BY <3>2 DEF Arg
  <2>3. ToldOK(parse_arg(st[n - 1], argv[n]), who)
    BY <2>1, <2>2, ParseTells
  <2> QED BY <1>3, <2>3
<1>6. len \in Good
  <2> HIDE DEF Good
  <2>1. \A n \in 1..len : n - 1 \in Good => n \in Good
    BY <1>5
  <2>2. \A n \in 0..len : n \in Good
    BY <1>4, <2>1, UpTo
  <2> QED BY <2>2
<1> DEFINE p == st[len]
<1>7. ToldOK(p, who)
  BY <1>6
<1>8. parse_argv(s, argv) = ArgsRead(p)
  BY <1>2 DEF parse_argv, st
<1> HIDE DEF p
<1> DEFINE r == resolve_spanning_fopts(p)
<1>9. ToldOK(r, who)
  <2> DEFINE a == [o |-> p.ssp, v |-> "on"]
  <2>1. r = p \/ (p.ssp # "none" /\ r = ADD_ARG(p, {preproc, compile}, a))
    BY DEF resolve_spanning_fopts
  <2>2. p.ssp # "none" => a.o \in Options /\ a.o # "-fpic"
    BY <1>7 DEF ToldOK, Options
  <2>3. a.v \in Values /\ (p.ssp # "none" => MayGet({preproc, compile}, a))
    BY <2>2, ApartOptions DEF Values, MayGet
  <2> HIDE DEF a, r
  <2> QED BY <1>7, <2>1, <2>2, <2>3, AddOK
<1> HIDE DEF r
<1>10. ToldOK(Depfile(r), who)
  <2> DEFINE by == IF r.output = "none" THEN [by |-> "input", name |-> r.inputs[1].name]
                   ELSE [by |-> IF r.mode = preproc THEN "option" ELSE "output", name |-> r.output]
             a == [o |-> "-MF", v |-> by.name]
             t == ADD_ARG(r, {preproc}, a)
  <2>1. \/ Depfile(r) = r \/ Depfile(r) = [r EXCEPT !["dead"] = TRUE]
        \/ Depfile(r) = [t EXCEPT !["dep"] = by] /\ (r.output = "none" => Len(r.inputs) = 1)
    BY DEF Depfile, Die
  <2>2. (r.output = "none" => Len(r.inputs) = 1) => by.name \in Values
    <3> DEFINE In == [name : Values, assume : Int]
    <3>1. r.inputs \in Seq(In) /\ r.output \in Values
      BY <1>9 DEF ToldOK
    <3>2. ASSUME NEW i \in In PROVE i.name \in Values
      OBVIOUS
    <3>3. by.name = IF r.output = "none" THEN r.inputs[1].name ELSE r.output
      OBVIOUS
    <3> HIDE DEF In, by
    <3>4. Len(r.inputs) = 1 => r.inputs[1] \in In
      BY <3>1
    <3> QED BY <3>1, <3>2, <3>3, <3>4
  <2> HIDE DEF by
  <2>3. /\ a.o \in Options /\ MayGet({preproc}, a)
        /\ (r.output = "none" => Len(r.inputs) = 1) => a.v \in Values
    BY <2>2, ApartOptions DEF Options, MayGet
  <2> HIDE DEF a
  <2>4. ToldOK([r EXCEPT !["dead"] = TRUE], who)
    BY <1>9, FieldOK
  <2>5. ASSUME r.output = "none" => Len(r.inputs) = 1 PROVE ToldOK([t EXCEPT !["dep"] = by], who)
    <3>1. ToldOK(t, who)
      BY <1>9, <2>3, <2>5, AddOK
    <3> HIDE DEF t
    <3> QED BY <3>1, FieldOK
  <2> HIDE DEF t
  <2> QED BY <1>9, <2>1, <2>4, <2>5
<1> QED BY <1>7, <1>8, <1>10 DEF ArgsRead, r

\* The lists are empty to begin with.
LEMMA InitTold ==
  ASSUME NEW i, NEW who, i = [InitState EXCEPT !.who = who] \/ (i = InitState /\ who = "user")
  PROVE  ToldOK(i, who)
<1>1. /\ {"args", "isystems", "includes", "ssp", "who", "output", "inputs", "assume"} \subseteq DOMAIN i
      /\ i.args = [t \in Tools |-> <<>>] /\ i.isystems = <<>> /\ i.includes = <<>> /\ i.who = who
      /\ i.ssp = "none" /\ i.output = "none" /\ i.inputs = <<>> /\ i.assume \in Int
  <2>1. NoAssumption \in Int
    BY DEF NoAssumption
  <2>4. DOMAIN i = DOMAIN InitState /\ \A f \in DOMAIN i : f # "who" => i[f] = InitState[f]
    OBVIOUS
  <2>5. {"args", "isystems", "includes", "ssp", "who", "output", "inputs", "assume"} \subseteq DOMAIN InitState
    BY DEF InitState
  <2>6. /\ InitState.args = [t \in Tools |-> <<>>] /\ InitState.isystems = <<>> /\ InitState.includes = <<>>
        /\ InitState.who = "user"
    BY DEF InitState
  <2>7. InitState.ssp = "none" /\ InitState.output = "none" /\ InitState.inputs = <<>> /\ InitState.assume = NoAssumption
    BY DEF InitState
  <2>2. /\ {"args", "isystems", "includes", "ssp", "who", "output", "inputs", "assume"} \subseteq DOMAIN i
        /\ i.args = [t \in Tools |-> <<>>] /\ i.isystems = <<>> /\ i.includes = <<>> /\ i.who = who
        /\ i.ssp = "none" /\ i.output = "none" /\ i.inputs = <<>> /\ i.assume = NoAssumption
    BY <2>4, <2>5, <2>6, <2>7
  <2> QED BY <2>1, <2>2
<1>2. /\ <<>> \in Seq(ArgOf({who})) /\ Len(<<>>) = 0 /\ preproc \in Tools /\ compile \in Tools /\ link \in Tools
      /\ <<>> \in Seq([name : Values, assume : Int])
  BY DEF Tools
<1>3. Alike(<<>>, <<>>)
  BY OneEntry DEF Alike, SameFor
<1>4. Told(i.args, {who})
  BY <1>1, <1>2, <1>3 DEF Told
<1> QED BY <1>1, <1>2, <1>4 DEF ToldOK, Values

\* What the target begins with.
LEMMA TargetTells ==
  ASSUME NEW vars1, NEW sys \in Systems
  PROVE  ToldOK(state_from_triple(vars1, sys), "target")
<1> DEFINE s == [InitState EXCEPT !.who = "target"]
           a == [o |-> "-isystem", v |-> "builtin"]
           b == [o |-> "-isystem", v |-> "system"]
           c == [o |-> "-m", v |-> ""]
           inc == IF vars1.builtininc THEN ADD_ARG(s, {preproc}, a) ELSE s
           std == IF vars1.stdlibinc THEN ADD_ARG(inc, {preproc}, b) ELSE inc
           m == IF sys = "darwin" THEN ADD_ARG(std, {compile}, c) ELSE std
<1>1. state_from_triple(vars1, sys) = parse_argv(m, additional_argv(sys))
  BY DEF state_from_triple
<1>2. /\ a.o \in Options /\ a.v \in Values /\ MayGet({preproc}, a)
      /\ b.o \in Options /\ b.v \in Values /\ MayGet({preproc}, b)
      /\ c.o \in Options /\ c.v \in Values /\ MayGet({compile}, c)
  BY ApartOptions DEF Options, Values, MayGet
<1>3. ToldOK(s, "target")
  BY InitTold
<1> HIDE DEF s, a, b, c
<1>4. ToldOK(inc, "target")
  BY <1>2, <1>3, AddOK
<1> HIDE DEF inc
<1>5. ToldOK(std, "target")
  BY <1>2, <1>4, AddOK
<1> HIDE DEF std
<1>6. ToldOK(m, "target")
  BY <1>2, <1>5, AddOK
<1> HIDE DEF m
<1>7. additional_argv(sys) \in Seq([o : Options, v : Values])
  <2> DEFINE Arg == [o : Options, v : Values]
             u == [o |-> "-fleading-underscore", v |-> "on"]
             p == [o |-> "-fpic", v |-> "pic"]
  <2>1. additional_argv(sys) \in {<<u, p>>, <<u>>, <<>>}
    BY DEF additional_argv, Systems
  <2>2. u \in Arg /\ p \in Arg
    BY DEF Options, Values
  <2> HIDE DEF Arg, u, p
  <2>3. <<u, p>> \in Seq(Arg) /\ <<u>> \in Seq(Arg) /\ <<>> \in Seq(Arg)
    BY <2>2
  <2>4. additional_argv(sys) \in Seq(Arg)
    BY <2>1, <2>3
  <2> QED BY <2>4 DEF Arg
<1> QED BY <1>1, <1>6, <1>7, ArgvTells

-----------------------------------------------------------------------------
(* The target's arguments come first, and main() adds the user's.          *)

Both == {"user", "target"}
UserLast(l) == \A j, k \in 1..Len(l) : j < k /\ l[j].who = "user" => l[k].who = "user"

\* What holds of the lists from then on.
JobTold(s) ==
  /\ {"args", "who"} \subseteq DOMAIN s /\ s.who = "user"
  /\ Told(s.args, Both) /\ \A t \in Tools : UserLast(s.args[t])

\* The include directories of the user, until they are added to cpp's list.
Included(l) == l \in Seq(ArgOf({"user"})) /\ \A k \in 1..Len(l) : l[k].o \notin Agreed \cup {"__PIE__"}
MainTold(s) ==
  /\ JobTold(s) /\ {"isystems", "includes"} \subseteq DOMAIN s
  /\ Included(s.isystems) /\ Included(s.includes)

\* Lists with fewer authors.
LEMMA Widen ==
  ASSUME NEW w \in Both, NEW l \in Seq(ArgOf({w}))
  PROVE  /\ l \in Seq(ArgOf(Both)) /\ \A k \in 1..Len(l) : l[k].who = w
<1>1. ArgOf({w}) \subseteq ArgOf(Both)
  BY DEF ArgOf
<1>2. \A e \in ArgOf({w}) : e.who = w
  BY DEF ArgOf
<1> DEFINE S == ArgOf({w})
           T == ArgOf(Both)
<1> HIDE DEF S, T
<1>3. S \subseteq T /\ l \in Seq(S) /\ \A e \in S : e.who = w
  BY <1>1, <1>2 DEF S, T
<1>4. \A k \in 1..Len(l) : l[k] \in S
  BY <1>3
<1>5. l \in Seq(T)
  BY <1>3
<1> QED BY <1>3, <1>4, <1>5 DEF T

\* The user's arguments behind a list.
LEMMA UserBehind ==
  ASSUME NEW x \in Seq(ArgOf(Both)), NEW y \in Seq(ArgOf(Both)),
         UserLast(x) \/ \A k \in 1..Len(x) : x[k].who # "user", \A k \in 1..Len(y) : y[k].who = "user"
  PROVE  UserLast(x \o y)
<1> DEFINE S == ArgOf(Both)
           z == x \o y
           n == Len(x)
<1> SUFFICES ASSUME NEW j \in 1..Len(z), NEW k \in 1..Len(z), j < k, z[j].who = "user" PROVE z[k].who = "user"
  BY DEF UserLast
<1>1. /\ n \in Nat /\ Len(y) \in Nat /\ Len(z) = n + Len(y)
      /\ \A i \in 1..Len(z) : \/ i \in 1..n /\ z[i] = x[i]
                              \/ i - n \in 1..Len(y) /\ z[i] = y[i - n]
  <2> HIDE DEF S
  <2>1. x \in Seq(S) /\ y \in Seq(S)
    BY DEF S
  <2> QED BY <2>1, ConcatElements
<1> HIDE DEF z, n
<1>2. CASE k - n \in 1..Len(y) /\ z[k] = y[k - n]
  BY <1>2
<1>3. CASE k \in 1..n /\ z[k] = x[k]
  <2>1. j \in 1..n /\ ~(j - n \in 1..Len(y))
    BY <1>1, <1>3
  <2>2. z[j] = x[j]
    BY <1>1, <2>1
  <2> QED BY <1>3, <2>1, <2>2 DEF UserLast, n
<1> QED BY <1>1, <1>2, <1>3

\* One more of the user's arguments.
LEMMA AddJob ==
  ASSUME NEW s, JobTold(s), NEW tools, NEW a, a.o \in Options, a.v \in Values, MayGet(tools, a)
  PROVE  /\ JobTold(ADD_ARG(s, tools, a)) /\ DOMAIN ADD_ARG(s, tools, a) = DOMAIN s
         /\ \A f \in DOMAIN s : f # "args" => ADD_ARG(s, tools, a)[f] = s[f]
<1> DEFINE r == ADD_ARG(s, tools, a)
           e == Entry(s, a)
<1>1. Told(s.args, Both) /\ s.who = "user" /\ s.who \in Both /\ "args" \in DOMAIN s /\ "who" \in DOMAIN s
  BY DEF JobTold, Both
<1>2. Told(r.args, Both)
  BY <1>1, AddTold
<1>3. /\ DOMAIN r = DOMAIN s /\ \A f \in DOMAIN s : f # "args" => r[f] = s[f]
      /\ \A t \in Tools : r.args[t] = IF t \in tools THEN Append(s.args[t], e) ELSE s.args[t]
  BY <1>1 DEF ADD_ARG
<1>4. e \in ArgOf(Both) /\ e.who = "user"
  BY <1>1 DEF Entry, ArgOf
<1> HIDE DEF r, e
<1>5. ASSUME NEW t \in Tools PROVE UserLast(r.args[t])
  <2> DEFINE l == s.args[t]
             S == ArgOf(Both)
  <2>1. l \in Seq(S) /\ UserLast(l) /\ e \in S
    BY <1>1, <1>4 DEF Told, JobTold
  <2>2. r.args[t] = IF t \in tools THEN Append(l, e) ELSE l
    BY <1>3
  <2> HIDE DEF l, S
  <2>3. Append(l, e) = l \o <<e>> /\ <<e>> \in Seq(S) /\ Len(<<e>>) = 1 /\ <<e>>[1] = e
    BY <2>1
  <2>4. UserLast(l \o <<e>>)
    <3>1. \A k \in 1..Len(<<e>>) : <<e>>[k].who = "user"
      BY <1>4, <2>3
    <3> QED BY <2>1, <2>3, <3>1, UserBehind DEF S
  <2> QED BY <2>1, <2>2, <2>3, <2>4
<1> QED BY <1>1, <1>2, <1>3, <1>5 DEF JobTold, r

\* merge_states().
LEMMA MergeTold ==
  ASSUME NEW s, NEW u, ToldOK(s, "target"), ToldOK(u, "user")
  PROVE  MainTold(merge_states(s, u))
<1> DEFINE x == s.args
           y == u.args
           z == [t \in Tools |-> x[t] \o y[t]]
           m == merge_states(s, u)
           S == ArgOf(Both)
<1>1. /\ m.args = z /\ DOMAIN m = DOMAIN u /\ m.who = u.who /\ m.isystems = u.isystems /\ m.includes = u.includes
  BY DEF merge_states, ToldOK
<1>2. /\ Told(x, {"target"}) /\ Told(y, {"user"}) /\ preproc \in Tools /\ compile \in Tools /\ link \in Tools
  BY DEF ToldOK, Tools
<1>3. ASSUME NEW t \in Tools
      PROVE  /\ x[t] \in Seq(S) /\ y[t] \in Seq(S) /\ x[t] \o y[t] \in Seq(S) /\ z[t] = x[t] \o y[t]
             /\ (\A k \in 1..Len(x[t]) : x[t][k].who # "user") /\ (\A k \in 1..Len(y[t]) : y[t][k].who = "user")
  <2>1. x[t] \in Seq(ArgOf({"target"})) /\ y[t] \in Seq(ArgOf({"user"}))
    BY <1>2 DEF Told
  <2>2. x[t] \in Seq(S) /\ y[t] \in Seq(S)
        /\ (\A k \in 1..Len(x[t]) : x[t][k].who = "target") /\ (\A k \in 1..Len(y[t]) : y[t][k].who = "user")
    BY <2>1, Widen DEF Both
  <2> HIDE DEF S, x, y
  <2>3. x[t] \o y[t] \in Seq(S)
    BY <2>2
  <2>4. \A k \in 1..Len(x[t]) : x[t][k].who # "user"
    BY <2>2
  <2> QED BY <2>2, <2>3, <2>4
<1> HIDE DEF x, y
<1>4. z \in [Tools -> Seq(S)]
  BY <1>3
<1> HIDE DEF S
<1>5. Alike(z[preproc], z[compile])
  <2>1. Alike(x[preproc], x[compile]) /\ Alike(y[preproc], y[compile])
    BY <1>2 DEF Told
  <2> QED BY <1>2, <1>3, <2>1, ConcatAlike
<1>6. ASSUME NEW k \in 1..Len(z[link]) PROVE z[link][k].o \in LinkerOptions
  <2> DEFINE v == x[link]
             w == y[link]
  <2>1. /\ v \in Seq(S) /\ w \in Seq(S) /\ z[link] = v \o w
        /\ (\A i \in 1..Len(v) : v[i].o \in LinkerOptions) /\ (\A i \in 1..Len(w) : w[i].o \in LinkerOptions)
    BY <1>2, <1>3 DEF Told
  <2> HIDE DEF v, w, z
  <2>2. \/ k \in 1..Len(v) /\ (v \o w)[k] = v[k]
        \/ k - Len(v) \in 1..Len(w) /\ (v \o w)[k] = w[k - Len(v)]
    BY <1>6, <2>1, ConcatElements
  <2> QED BY <2>1, <2>2
<1>7. ASSUME NEW t \in Tools PROVE UserLast(z[t])
  BY <1>3, UserBehind DEF S
<1> HIDE DEF z
<1>8. Told(z, Both)
  BY <1>4, <1>5, <1>6 DEF Told, S
<1>9. /\ {"args", "isystems", "includes", "who"} \subseteq DOMAIN u /\ u.who = "user"
      /\ Included(u.isystems) /\ Included(u.includes)
  BY DEF ToldOK, Included
<1> HIDE DEF m
<1> QED BY <1>1, <1>7, <1>8, <1>9 DEF MainTold, JobTold, m

\* The include directories at the end of cpp's list.
LEMMA InclTold ==
  ASSUME NEW args, Told(args, Both), \A t \in Tools : UserLast(args[t]), NEW x, Included(x)
  PROVE  /\ Told([args EXCEPT ![preproc] = args[preproc] \o x], Both)
         /\ \A t \in Tools : UserLast([args EXCEPT ![preproc] = args[preproc] \o x][t])
<1> DEFINE S == ArgOf(Both)
           p == args[preproc]
           new == [args EXCEPT ![preproc] = p \o x]
<1>1. /\ args \in [Tools -> Seq(S)] /\ p \in Seq(S) /\ preproc \in Tools /\ compile \in Tools /\ link \in Tools
      /\ preproc # compile /\ preproc # link
  BY DEF Told, Tools, preproc, compile, link
<1>2. x \in Seq(S) /\ \A k \in 1..Len(x) : x[k].who = "user" /\ x[k].o \notin Agreed \cup {"__PIE__"}
  <2>1. "user" \in Both /\ x \in Seq(ArgOf({"user"}))
    BY DEF Both, Included
  <2> QED BY <2>1, Widen DEF Included
<1>3. UserLast(p \o x)
  <2>1. UserLast(p)
    BY <1>1
  <2> QED BY <1>1, <1>2, <2>1, UserBehind
<1> HIDE DEF S
<1>4. p \o x \in Seq(S)
  BY <1>1, <1>2
<1>5. /\ new \in [Tools -> Seq(S)] /\ new[preproc] = p \o x
      /\ \A t \in Tools : t # preproc => new[t] = args[t]
  BY <1>1, <1>4
<1>6. Alike(new[preproc], new[compile])
  <2>1. Alike(p, args[compile])
    BY DEF Told
  <2>2. ASSUME NEW o \in Agreed \cup {"__PIE__"}, NEW q, NEW but PROVE SameFor(x, <<>>, o, q, but)
    <3>1. EntriesOf(x, o, {}) = {} /\ EntriesOf(<<>>, q, but) = {}
      BY <1>2 DEF EntriesOf
    <3> QED BY <3>1 DEF SameFor
  <2>3. Alike(x, <<>>)
    BY <2>2 DEF Alike
  <2>4. args[compile] \in Seq(S) /\ args[compile] \o <<>> = args[compile] /\ <<>> \in Seq(S)
    BY <1>1
  <2> HIDE DEF p
  <2>5. Alike(p \o x, args[compile] \o <<>>)
    BY <1>1, <1>2, <2>1, <2>3, <2>4, ConcatAlike
  <2> QED BY <1>1, <1>5, <2>4, <2>5
<1> HIDE DEF p
<1>7. \A k \in 1..Len(new[link]) : new[link][k].o \in LinkerOptions
  BY <1>1, <1>5 DEF Told
<1>8. \A t \in Tools : UserLast(new[t])
  BY <1>3, <1>5
<1> HIDE DEF new
<1>9. Told(new, Both)
  BY <1>5, <1>6, <1>7 DEF Told, S
<1> QED BY <1>8, <1>9 DEF new, p

\* Setting a field the lists do not come from.
LEMMA JobField ==
  ASSUME NEW s, NEW x, NEW field, field \notin {"args", "who", "isystems", "includes"}
  PROVE  /\ JobTold(s) => JobTold([s EXCEPT ![field] = x])
         /\ MainTold(s) => MainTold([s EXCEPT ![field] = x])
BY DEF JobTold, MainTold

\* What main() hands to process_files().
LEMMA MainTells ==
  ASSUME NEW argv \in CommandLines, NEW sys
  PROVE  JobTold(main(argv, sys))
<1> DEFINE user == parse_argv(InitState, argv)
           on == TargetOf(user, sys)
           lo == LinkOutput(user)
           m == merge_states(state_from_triple(lo, on), lo)
           s == add_pthread(m)
<1>1. ToldOK(user, "user")
  <2>3. argv \in Seq([o : Options, v : Values])
    <3> DEFINE A == [o : Options, v : STRING]
               B == [o : Options, v : Values]
    <3>1. A \subseteq B
      BY DEF Values
    <3>2. argv \in Seq(A)
      BY DriverAssumption
    <3> HIDE DEF A, B
    <3>3. argv \in Seq(B)
      BY <3>1, <3>2
    <3> QED BY <3>3 DEF B
  <2>4. ToldOK(InitState, "user")
    BY InitTold
  <2> QED BY <2>3, <2>4, ArgvTells
<1> HIDE DEF user
<1>2. ToldOK(lo, "user")
  <2>1. lo = user \/ lo = [user EXCEPT !.output = "a.out"]
    BY DEF LinkOutput
  <2>2. ToldOK([user EXCEPT !.output = "a.out"], "user")
    BY <1>1 DEF ToldOK, Values
  <2> QED BY <1>1, <2>1, <2>2
<1> HIDE DEF lo
<1>3. on \in Systems => MainTold(m)
  BY <1>2, TargetTells, MergeTold
<1>4. s = add_pthread(m) /\ (main(argv, sys) \in {Die(user), user} \/ (on \in Systems /\ main(argv, sys) = Checked(user, s, on)))
  BY DEF main, user, lo, WithTarget
<1> HIDE DEF m, on
<1>14. JobTold(user) /\ JobTold(Die(user))
  <2>1. Told(user.args, {"user"}) /\ user.who = "user" /\ {"args", "who"} \subseteq DOMAIN user
    BY <1>1 DEF ToldOK
  <2>2. ASSUME NEW t \in Tools PROVE user.args[t] \in Seq(ArgOf(Both)) /\ UserLast(user.args[t])
    <3>1. user.args[t] \in Seq(ArgOf({"user"})) /\ "user" \in Both
      BY <2>1 DEF Told, Both
    <3>2. user.args[t] \in Seq(ArgOf(Both)) /\ \A k \in 1..Len(user.args[t]) : user.args[t][k].who = "user"
      BY <3>1, Widen
    <3> QED BY <3>2 DEF UserLast
  <2>3. user.args \in [Tools -> Seq(ArgOf(Both))]
    <3>1. user.args = [t \in Tools |-> user.args[t]]
      BY <2>1 DEF Told
    <3> QED BY <2>2, <3>1
  <2>4. Told(user.args, Both)
    BY <2>1, <2>3 DEF Told
  <2>5. JobTold(user)
    BY <2>1, <2>2, <2>4 DEF JobTold
  <2> QED BY <2>5, JobField DEF Die
<1> SUFFICES ASSUME on \in Systems PROVE JobTold(Checked(user, s, on))
  BY <1>4, <1>14
<1>5. MainTold(s)
  <2> DEFINE a == [o |-> "-D", v |-> "_REENTRANT"]
             b == [o |-> "-l", v |-> "pthread"]
             d == ADD_ARG(m, {preproc}, a)
  <2>1. s = m \/ s = ADD_ARG(d, {link}, b)
    BY DEF add_pthread
  <2>2. /\ a.o \in Options /\ a.v \in Values /\ MayGet({preproc}, a)
        /\ b.o \in Options /\ b.v \in Values /\ MayGet({link}, b)
    BY ApartOptions DEF Options, Values, MayGet, LinkerOptions, link
  <2> HIDE DEF a, b, s
  <2>3. ASSUME NEW q, MainTold(q), NEW tools, NEW c, c.o \in Options, c.v \in Values, MayGet(tools, c)
        PROVE  MainTold(ADD_ARG(q, tools, c))
    <3> DEFINE r == ADD_ARG(q, tools, c)
    <3>1. JobTold(r) /\ DOMAIN r = DOMAIN q /\ \A f \in DOMAIN q : f # "args" => r[f] = q[f]
      BY <2>3, AddJob DEF MainTold
    <3> HIDE DEF r
    <3>2. MainTold(r)
      BY <2>3, <3>1 DEF MainTold
    <3> QED BY <3>2 DEF r
  <2>4. MainTold(d)
    BY <1>3, <2>2, <2>3
  <2> HIDE DEF d
  <2>5. MainTold(ADD_ARG(d, {link}, b))
    BY <2>2, <2>3, <2>4
  <2> QED BY <1>3, <2>1, <2>5
<1> HIDE DEF s
<1> DEFINE v == SyntaxOnly(s)
           w == ToStdout(v)
           e == Emit(w, Given(user))
<1>6. MainTold(v) /\ v.args = s.args
  <2> DEFINE x == [s EXCEPT !["mode"] = compile]
             y == [x EXCEPT !["output"] = "/dev/null"]
  <2>1. v = s \/ v = y
    BY DEF SyntaxOnly
  <2>2. MainTold(x) /\ x.args = s.args
    BY <1>5, JobField
  <2> HIDE DEF x, v
  <2>3. MainTold(y) /\ y.args = x.args
    BY <2>2, JobField
  <2> HIDE DEF y
  <2> QED BY <1>5, <2>1, <2>2, <2>3
<1> HIDE DEF v
<1>7. MainTold(w) /\ w.args = v.args
  <2> DEFINE x == [v EXCEPT !["output"] = "none"]
  <2>1. w = v \/ w = x
    BY DEF ToStdout
  <2>2. MainTold(x) /\ x.args = v.args
    BY <1>6, JobField
  <2> HIDE DEF x, w
  <2> QED BY <1>6, <2>1, <2>2
<1> HIDE DEF w
<1>8. JobTold(e) /\ e.args = s.args
  <2> DEFINE x == [w EXCEPT !["mode"] = compile]
  <2>1. e = w \/ \E y : e = [x EXCEPT !["output"] = y]
    BY DEF Emit
  <2>2. MainTold(x) /\ x.args = w.args
    BY <1>7, JobField
  <2> HIDE DEF x, e
  <2>3. ASSUME NEW y PROVE MainTold([x EXCEPT !["output"] = y]) /\ [x EXCEPT !["output"] = y].args = x.args
    BY <2>2, JobField
  <2>4. MainTold(e) /\ e.args = w.args
    <3>1. CASE e = w
      BY <1>7, <3>1
    <3>2. ASSUME NEW y, e = [x EXCEPT !["output"] = y] PROVE MainTold(e) /\ e.args = w.args
      BY <2>2, <2>3, <3>2
    <3> QED BY <2>1, <3>1, <3>2
  <2> QED BY <1>6, <1>7, <2>4 DEF MainTold
<1> DEFINE g == [s.args EXCEPT ![preproc] = s.args[preproc] \o s.isystems]
           h == [g EXCEPT ![preproc] = g[preproc] \o s.includes]
<1>9. Told(h, Both) /\ \A t \in Tools : UserLast(h[t])
  <2>1. /\ Told(s.args, Both) /\ (\A t \in Tools : UserLast(s.args[t]))
        /\ Included(s.isystems) /\ Included(s.includes)
    BY <1>5 DEF MainTold, JobTold
  <2>2. Told(g, Both) /\ \A t \in Tools : UserLast(g[t])
    BY <2>1, InclTold
  <2> HIDE DEF g
  <2> QED BY <2>1, <2>2, InclTold
<1>10. h = [s.args EXCEPT ![preproc] = (s.args[preproc] \o s.isystems) \o s.includes]
  <2>1. preproc \in DOMAIN s.args
    BY <1>5 DEF MainTold, JobTold, Told, Tools
  <2> QED BY <2>1
<1>11. \/ Checked(user, s, on) = Die(user)
       \/ \E y : Checked(user, s, on) = [[e EXCEPT !["args"] = h] EXCEPT !["post_link"] = y]
  <2> HIDE DEF h
  <2>1. \/ Checked(user, s, on) = Die(user)
        \/ \E y : Checked(user, s, on) =
                    [[e EXCEPT !["args"] = [e.args EXCEPT ![preproc] = (e.args[preproc] \o s.isystems) \o s.includes]]
                       EXCEPT !["post_link"] = y]
    BY DEF Checked, v, w
  <2> QED BY <1>8, <1>10, <2>1
<1> HIDE DEF h, e
<1>12. JobTold([e EXCEPT !["args"] = h])
  BY <1>8, <1>9 DEF JobTold
<1>13. ASSUME NEW y PROVE JobTold([[e EXCEPT !["args"] = h] EXCEPT !["post_link"] = y])
  <2> DEFINE f == [e EXCEPT !["args"] = h]
  <2> HIDE DEF f
  <2>1. JobTold(f)
    BY <1>12 DEF f
  <2>2. JobTold([f EXCEPT !["post_link"] = y])
    BY <2>1, JobField
  <2> QED BY <2>2 DEF f
<1> QED BY <1>11, <1>13, <1>14

-----------------------------------------------------------------------------
(* The linker's arguments.                                                 *)

PreRoles == {"-pie", "-no_pie", "-export-dynamic", "-no-dynamic-linker", "-dynamic-linker", "gcrt1", "crt1", "Scrt1",
             "rcrt1", "dsohandle", "crti", "crtbegin", "-z text", "-syslibroot", "-macosx_version_min", "-shared", "-static"}
PostRoles == {"-L", "-lc", "crtn", "crtend", "-lSystem", "-lgcrt1.o"}
Roles == PreRoles \cup PostRoles \cup LinkerOptions \cup {"obj"}
Interpreters == {"-dynamic-linker", "-no-dynamic-linker"}

Has(l, x) == \E k \in 1..Len(l) : l[k] = x
Once(l, X) == \A j, k \in 1..Len(l) : l[j] \in X /\ l[k] \in X => j = k
None(l, X) == \A k \in 1..Len(l) : l[k] \notin X

\* Lists one after the other.
LEMMA ConcatHas ==
  ASSUME NEW S, NEW x \in Seq(S), NEW y \in Seq(S)
  PROVE  /\ x \o y \in Seq(S)
         /\ \A r : Has(x \o y, r) <=> Has(x, r) \/ Has(y, r)
         /\ \A X : None(x, X) /\ None(y, X) => None(x \o y, X)
         /\ \A X : Once(x, X) /\ None(y, X) => Once(x \o y, X)
         /\ \A X : None(x, X) /\ Once(y, X) => Once(x \o y, X)
<1> DEFINE z == x \o y
           n == Len(x)
<1>1. /\ z \in Seq(S) /\ n \in Nat /\ Len(y) \in Nat /\ Len(z) = n + Len(y)
      /\ \A k \in 1..n : z[k] = x[k]
      /\ \A k \in 1..Len(y) : z[n + k] = y[k]
      /\ \A k \in 1..Len(z) : \/ k \in 1..n /\ z[k] = x[k]
                              \/ k - n \in 1..Len(y) /\ z[k] = y[k - n]
  BY ConcatElements
<1> HIDE DEF z
<1>2. ASSUME NEW r PROVE Has(z, r) <=> Has(x, r) \/ Has(y, r)
  <2>1. ASSUME Has(z, r) PROVE Has(x, r) \/ Has(y, r)
    BY <1>1, <2>1 DEF Has
  <2>2. ASSUME Has(x, r) PROVE Has(z, r)
    <3>1. PICK k \in 1..n : x[k] = r
      BY <2>2 DEF Has
    <3>2. k \in 1..Len(z) /\ z[k] = r
      BY <1>1, <3>1
    <3> QED BY <3>2 DEF Has
  <2>3. ASSUME Has(y, r) PROVE Has(z, r)
    <3>1. PICK k \in 1..Len(y) : y[k] = r
      BY <2>3 DEF Has
    <3>2. n + k \in 1..Len(z) /\ z[n + k] = r
      BY <1>1, <3>1
    <3> QED BY <3>2 DEF Has
  <2> QED BY <2>1, <2>2, <2>3
<1>3. ASSUME NEW X, None(x, X), None(y, X) PROVE None(z, X)
  BY <1>1, <1>3 DEF None
<1>4. ASSUME NEW X, Once(x, X), None(y, X) PROVE Once(z, X)
  <2> SUFFICES ASSUME NEW j \in 1..Len(z), NEW k \in 1..Len(z), z[j] \in X, z[k] \in X PROVE j = k
    BY DEF Once
  <2>1. j \in 1..n /\ z[j] = x[j] /\ k \in 1..n /\ z[k] = x[k]
    BY <1>1, <1>4 DEF None
  <2> QED BY <1>4, <2>1 DEF Once
<1>5. ASSUME NEW X, None(x, X), Once(y, X) PROVE Once(z, X)
  <2> SUFFICES ASSUME NEW j \in 1..Len(z), NEW k \in 1..Len(z), z[j] \in X, z[k] \in X PROVE j = k
    BY DEF Once
  <2>1. j - n \in 1..Len(y) /\ z[j] = y[j - n] /\ k - n \in 1..Len(y) /\ z[k] = y[k - n]
    BY <1>1, <1>5 DEF None
  <2>2. j - n = k - n
    BY <1>5, <2>1 DEF Once
  <2> QED BY <1>1, <2>2
<1> QED BY <1>1, <1>2, <1>3, <1>4, <1>5 DEF z

\* Short lists.
LEMMA ShortLists ==
  ASSUME NEW X, NEW r
  PROVE  /\ ~Has(<<>>, r) /\ None(<<>>, X) /\ Once(<<>>, X)
         /\ \A a : (Has(<<a>>, r) <=> a = r) /\ (a \notin X => None(<<a>>, X)) /\ Once(<<a>>, X)
         /\ \A a, b : (Has(<<a, b>>, r) <=> a = r \/ b = r) /\ (a \notin X /\ b \notin X => None(<<a, b>>, X))
BY DEF Has, None, Once

\* What may or may not stand in a list, and what that makes of the list.
LEMMA IfList ==
  ASSUME NEW c, NEW a \in PreRoles
  PROVE  /\ If(c, <<a>>) \in Seq(PreRoles)
         /\ \A r : Has(If(c, <<a>>), r) <=> c /\ r = a
         /\ a \notin Interpreters => None(If(c, <<a>>), Interpreters)
<1>1. <<a>> \in Seq(PreRoles) /\ <<>> \in Seq(PreRoles)
  OBVIOUS
<1>2. \A r : (Has(<<a>>, r) <=> a = r) /\ ~Has(<<>>, r)
  BY ShortLists
<1>3. None(<<>>, Interpreters) /\ (a \notin Interpreters => None(<<a>>, Interpreters))
  BY ShortLists
<1> QED BY <1>1, <1>2, <1>3 DEF If

\* -shared and -static behind what the system asks for.
LEMMA EitherLink ==
  ASSUME NEW s, NEW f \in Seq(PreRoles), Once(f, Interpreters)
  PROVE  LET p == (f \o If(s.shared, <<"-shared">>)) \o If(s.static, <<"-static">>)
         IN /\ p \in Seq(PreRoles) /\ Once(p, Interpreters)
            /\ \A r : Has(p, r) <=> Has(f, r) \/ (s.shared /\ r = "-shared") \/ (s.static /\ r = "-static")
<1> DEFINE a == If(s.shared, <<"-shared">>)
           b == If(s.static, <<"-static">>)
           g == f \o a
           p == g \o b
<1>1. /\ "-shared" \in PreRoles /\ "-static" \in PreRoles
      /\ "-shared" \notin Interpreters /\ "-static" \notin Interpreters
  BY DEF PreRoles, Interpreters
<1>2. /\ a \in Seq(PreRoles) /\ None(a, Interpreters) /\ (\A r : Has(a, r) <=> s.shared /\ r = "-shared")
      /\ b \in Seq(PreRoles) /\ None(b, Interpreters) /\ (\A r : Has(b, r) <=> s.static /\ r = "-static")
  BY <1>1, IfList
<1> HIDE DEF a, b
<1>3. g \in Seq(PreRoles) /\ Once(g, Interpreters) /\ \A r : Has(g, r) <=> Has(f, r) \/ Has(a, r)
  BY <1>2, ConcatHas
<1> HIDE DEF g
<1>4. p \in Seq(PreRoles) /\ Once(p, Interpreters) /\ \A r : Has(p, r) <=> Has(g, r) \/ Has(b, r)
  BY <1>2, <1>3, ConcatHas
<1> HIDE DEF p
<1>5. \A r : Has(p, r) <=> Has(f, r) \/ (s.shared /\ r = "-shared") \/ (s.static /\ r = "-static")
  BY <1>2, <1>3, <1>4
<1> QED BY <1>4, <1>5 DEF p, g, a, b

\* What linux asks for.
LinuxWants(s, r) ==
  \/ s.pie # "off" /\ ~s.shared /\ r = "-pie"
  \/ s.rdynamic /\ r = "-export-dynamic"
  \/ ~s.shared /\ s.static /\ r = "-no-dynamic-linker"
  \/ ~s.shared /\ ~s.static /\ r = "-dynamic-linker"
  \/ s.startfiles /\ ~s.shared /\ r = crt1(s)
  \/ s.startfiles /\ r \in {"dsohandle", "crti"}
  \/ s.ztext /\ r = "-z text"

LEMMA LinuxFront ==
  ASSUME NEW s
  PROVE  LET f == SystemFlags(s, "linux")
         IN /\ f \in Seq(PreRoles) /\ Once(f, Interpreters)
            /\ \A r : Has(f, r) <=> LinuxWants(s, r)
<1> DEFINE a == If(s.pie # "off" /\ ~s.shared, <<"-pie">>)
           x == If(s.rdynamic, <<"-export-dynamic">>)
           b == If(~s.shared, IF s.static THEN <<"-no-dynamic-linker">> ELSE <<"-dynamic-linker">>)
           c == If(~s.shared, <<crt1(s)>>)
           d == <<"dsohandle", "crti">>
           cd == c \o d
           e == If(s.startfiles, cd)
           z == If(s.ztext, <<"-z text">>)
           f1 == a \o x
           f2 == f1 \o b
           f3 == f2 \o e
           f4 == f3 \o z
<1>1. SystemFlags(s, "linux") = f4
  BY DEF SystemFlags
<1>2. /\ crt1(s) \in PreRoles /\ crt1(s) \notin Interpreters
      /\ {"-pie", "-export-dynamic", "-z text", "dsohandle", "crti", "-no-dynamic-linker", "-dynamic-linker"} \subseteq PreRoles
      /\ {"-pie", "-export-dynamic", "-z text", "dsohandle", "crti"} \cap Interpreters = {}
  BY DEF crt1, PreRoles, Interpreters
<1>3. /\ a \in Seq(PreRoles) /\ None(a, Interpreters) /\ \A r : Has(a, r) <=> s.pie # "off" /\ ~s.shared /\ r = "-pie"
  <2> DEFINE g == s.pie # "off" /\ ~s.shared
  <2>1. "-pie" \in PreRoles /\ "-pie" \notin Interpreters
    BY <1>2
  <2> HIDE DEF g
  <2>2. LET q == If(g, <<"-pie">>)
        IN q \in Seq(PreRoles) /\ None(q, Interpreters) /\ \A r : Has(q, r) <=> g /\ r = "-pie"
    BY <2>1, IfList
  <2> QED BY <2>2 DEF g
<1>4. /\ x \in Seq(PreRoles) /\ None(x, Interpreters) /\ (\A r : Has(x, r) <=> s.rdynamic /\ r = "-export-dynamic")
      /\ z \in Seq(PreRoles) /\ None(z, Interpreters) /\ (\A r : Has(z, r) <=> s.ztext /\ r = "-z text")
  BY <1>2, IfList
<1>5. /\ c \in Seq(PreRoles) /\ None(c, Interpreters) /\ \A r : Has(c, r) <=> ~s.shared /\ r = crt1(s)
  <2> DEFINE g == ~s.shared
             k == crt1(s)
  <2>1. k \in PreRoles /\ k \notin Interpreters
    BY <1>2
  <2> HIDE DEF g, k
  <2>2. LET q == If(g, <<k>>)
        IN q \in Seq(PreRoles) /\ None(q, Interpreters) /\ \A r : Has(q, r) <=> g /\ r = k
    BY <2>1, IfList
  <2> QED BY <2>2 DEF g, k
<1>6. /\ b \in Seq(PreRoles) /\ Once(b, Interpreters)
      /\ \A r : Has(b, r) <=> \/ ~s.shared /\ s.static /\ r = "-no-dynamic-linker"
                              \/ ~s.shared /\ ~s.static /\ r = "-dynamic-linker"
  <2>1. b \in {<<>>, <<"-no-dynamic-linker">>, <<"-dynamic-linker">>}
    BY DEF If
  <2>2. /\ <<"-no-dynamic-linker">> \in Seq(PreRoles) /\ <<"-dynamic-linker">> \in Seq(PreRoles) /\ <<>> \in Seq(PreRoles)
    <3>1. ASSUME NEW r \in PreRoles PROVE <<r>> \in Seq(PreRoles)
      OBVIOUS
    <3>2. <<>> \in Seq(PreRoles)
      OBVIOUS
    <3> QED BY <1>2, <3>1, <3>2
  <2>3. /\ Once(<<>>, Interpreters) /\ Once(<<"-no-dynamic-linker">>, Interpreters) /\ Once(<<"-dynamic-linker">>, Interpreters)
        /\ \A r : /\ ~Has(<<>>, r) /\ (Has(<<"-no-dynamic-linker">>, r) <=> "-no-dynamic-linker" = r)
                  /\ (Has(<<"-dynamic-linker">>, r) <=> "-dynamic-linker" = r)
    BY ShortLists
  <2> QED BY <2>2, <2>3 DEF If
<1>7. /\ d \in Seq(PreRoles) /\ None(d, Interpreters) /\ \A r : Has(d, r) <=> r \in {"dsohandle", "crti"}
  <2>1. ASSUME NEW r \in PreRoles, NEW q \in PreRoles PROVE <<r, q>> \in Seq(PreRoles)
    OBVIOUS
  <2>2. \A r : Has(d, r) <=> "dsohandle" = r \/ "crti" = r
    BY ShortLists
  <2>3. None(d, Interpreters)
    BY <1>2, ShortLists
  <2> QED BY <1>2, <2>1, <2>2, <2>3
<1> HIDE DEF a, x, b, c, d, z
<1>8. /\ cd \in Seq(PreRoles) /\ None(cd, Interpreters) /\ \A r : Has(cd, r) <=> Has(c, r) \/ Has(d, r)
  BY <1>5, <1>7, ConcatHas
<1> HIDE DEF cd
<1>9. /\ e \in Seq(PreRoles) /\ None(e, Interpreters) /\ \A r : Has(e, r) <=> s.startfiles /\ Has(cd, r)
  <2>1. <<>> \in Seq(PreRoles) /\ None(<<>>, Interpreters) /\ \A r : ~Has(<<>>, r)
    BY ShortLists
  <2> QED BY <1>8, <2>1 DEF If
<1> HIDE DEF e
<1>10. f1 \in Seq(PreRoles) /\ None(f1, Interpreters) /\ \A r : Has(f1, r) <=> Has(a, r) \/ Has(x, r)
  BY <1>3, <1>4, ConcatHas
<1> HIDE DEF f1
<1>11. f2 \in Seq(PreRoles) /\ Once(f2, Interpreters) /\ \A r : Has(f2, r) <=> Has(f1, r) \/ Has(b, r)
  BY <1>6, <1>10, ConcatHas
<1> HIDE DEF f2
<1>12. f3 \in Seq(PreRoles) /\ Once(f3, Interpreters) /\ \A r : Has(f3, r) <=> Has(f2, r) \/ Has(e, r)
  BY <1>9, <1>11, ConcatHas
<1> HIDE DEF f3
<1>13. f4 \in Seq(PreRoles) /\ Once(f4, Interpreters) /\ \A r : Has(f4, r) <=> Has(f3, r) \/ Has(z, r)
  BY <1>4, <1>12, ConcatHas
<1> HIDE DEF f4
<1>14. \A r : Has(f4, r) <=> Has(a, r) \/ Has(x, r) \/ Has(b, r) \/ (s.startfiles /\ (Has(c, r) \/ Has(d, r))) \/ Has(z, r)
  BY <1>8, <1>9, <1>10, <1>11, <1>12, <1>13
<1>15. \A r : Has(f4, r) <=> LinuxWants(s, r)
  BY <1>3, <1>4, <1>5, <1>6, <1>7, <1>14 DEF LinuxWants
<1> QED BY <1>1, <1>13, <1>15

\* In front of the objects, anywhere.
LEMMA AheadOK ==
  ASSUME NEW s, NEW sys \in Systems
  PROVE  ldflags_pre_user(s, sys) \in Seq(PreRoles) /\ Once(ldflags_pre_user(s, sys), Interpreters)
<1> DEFINE p == SystemFlags(s, sys)
<1>1. p \in Seq(PreRoles) /\ Once(p, Interpreters)
  <2>1. CASE sys = "linux"
    BY <2>1, LinuxFront
  <2>2. CASE sys = "freebsd"
    <3>1. p = <<>> \/ p = <<"crt1", "crti", "crtbegin">>
      BY <2>2 DEF SystemFlags, If
    <3>2. {"crt1", "crti", "crtbegin"} \subseteq PreRoles /\ {"crt1", "crti", "crtbegin"} \cap Interpreters = {}
      BY DEF PreRoles, Interpreters
    <3>3. <<>> \in Seq(PreRoles) /\ Once(<<>>, Interpreters)
      BY DEF Once
    <3> DEFINE q == <<"crt1", "crti", "crtbegin">>
    <3>4. q \in Seq(PreRoles) /\ \A k \in 1..Len(q) : q[k] \in {"crt1", "crti", "crtbegin"}
      BY <3>2
    <3> HIDE DEF q
    <3>5. Once(q, Interpreters)
      BY <3>2, <3>4 DEF Once
    <3> QED BY <3>1, <3>3, <3>4, <3>5 DEF q
  <2>3. CASE sys = "darwin"
    <3> DEFINE a == <<"-syslibroot", "-macosx_version_min">>
               b == If(~s.shared, IF s.pie = "off" THEN <<"-no_pie">> ELSE <<"-pie">>)
               c == If(s.rdynamic, <<"-export-dynamic">>)
               ab == a \o b
    <3>1. p = ab \o c
      BY <2>3 DEF SystemFlags
    <3>2. /\ {"-syslibroot", "-macosx_version_min", "-no_pie", "-pie", "-export-dynamic"} \subseteq PreRoles
          /\ "-export-dynamic" \notin Interpreters
      BY DEF PreRoles, Interpreters
    <3>3. a \in Seq(PreRoles) /\ b \in Seq(PreRoles) /\ c \in Seq(PreRoles)
      BY <3>2 DEF If
    <3>4. None(a, Interpreters) /\ Once(b, Interpreters)
      BY ShortLists DEF If, Interpreters
    <3>5. None(c, Interpreters)
      BY <3>2, IfList
    <3> HIDE DEF a, b, c
    <3>6. ab \in Seq(PreRoles) /\ Once(ab, Interpreters)
      BY <3>3, <3>4, ConcatHas
    <3> HIDE DEF ab
    <3> QED BY <3>1, <3>3, <3>5, <3>6, ConcatHas
  <2>4. CASE sys = "cygwin"
    <3>1. p = <<>>
      BY <2>4 DEF SystemFlags
    <3>2. <<>> \in Seq(PreRoles) /\ Once(<<>>, Interpreters)
      BY DEF Once
    <3> QED BY <3>1, <3>2
  <2> QED BY <2>1, <2>2, <2>3, <2>4 DEF Systems
<1>2. ldflags_pre_user(s, sys) = (p \o If(s.shared, <<"-shared">>)) \o If(s.static, <<"-static">>)
  BY DEF ldflags_pre_user
<1> HIDE DEF p
<1> QED BY <1>1, <1>2, EitherLink

\* On linux: a start-up file of a pie goes with -pie unless the program is
\* profiled, and a dynamic linker with what needs one.
LEMMA LinuxAhead ==
  ASSUME NEW s
  PROVE  LET p == ldflags_pre_user(s, "linux")
         IN /\ s.startfiles /\ ~(s.profile /\ s.pie # "off") => (Has(p, "-pie") <=> Has(p, "Scrt1") \/ Has(p, "rcrt1"))
            /\ Has(p, "-dynamic-linker") <=> ~Has(p, "-static") /\ ~Has(p, "-shared")
<1> DEFINE f == SystemFlags(s, "linux")
           p == ldflags_pre_user(s, "linux")
<1>1. p = (f \o If(s.shared, <<"-shared">>)) \o If(s.static, <<"-static">>)
  BY DEF ldflags_pre_user
<1>2. /\ f \in Seq(PreRoles) /\ Once(f, Interpreters)
      /\ \A r : Has(f, r) <=> LinuxWants(s, r)
  BY LinuxFront
<1> HIDE DEF f
<1>3. \A r : Has(p, r) <=> Has(f, r) \/ (s.shared /\ r = "-shared") \/ (s.static /\ r = "-static")
  <2> DEFINE g == (f \o If(s.shared, <<"-shared">>)) \o If(s.static, <<"-static">>)
  <2>1. \A r : Has(g, r) <=> Has(f, r) \/ (s.shared /\ r = "-shared") \/ (s.static /\ r = "-static")
    BY <1>2, EitherLink
  <2>2. p = g
    BY <1>1
  <2> HIDE DEF g, p
  <2> QED BY <2>1, <2>2
<1> HIDE DEF p
<1>4. /\ crt1(s) \in {"gcrt1", "crt1", "Scrt1", "rcrt1"}
      /\ ~(s.profile /\ s.pie # "off") => (crt1(s) \in {"Scrt1", "rcrt1"} <=> s.pie # "off")
  BY DEF crt1
<1>5. /\ Has(p, "-pie") <=> s.pie # "off" /\ ~s.shared
      /\ Has(p, "Scrt1") <=> s.startfiles /\ ~s.shared /\ crt1(s) = "Scrt1"
      /\ Has(p, "rcrt1") <=> s.startfiles /\ ~s.shared /\ crt1(s) = "rcrt1"
  <2>1. ASSUME NEW r \in {"-pie", "Scrt1", "rcrt1"} PROVE Has(p, r) <=> Has(f, r)
    BY <1>3
  <2>3. \A r \in {"-pie", "Scrt1", "rcrt1"} : Has(f, r) <=> LinuxWants(s, r)
    BY <1>2
  <2>2. /\ Has(f, "-pie") <=> s.pie # "off" /\ ~s.shared
        /\ Has(f, "Scrt1") <=> s.startfiles /\ ~s.shared /\ crt1(s) = "Scrt1"
        /\ Has(f, "rcrt1") <=> s.startfiles /\ ~s.shared /\ crt1(s) = "rcrt1"
    <3>1. Has(f, "-pie") <=> s.pie # "off" /\ ~s.shared
      BY <1>4, <2>3 DEF LinuxWants
    <3>2. Has(f, "Scrt1") <=> s.startfiles /\ ~s.shared /\ crt1(s) = "Scrt1"
      BY <1>4, <2>3 DEF LinuxWants
    <3>3. Has(f, "rcrt1") <=> s.startfiles /\ ~s.shared /\ crt1(s) = "rcrt1"
      BY <1>4, <2>3 DEF LinuxWants
    <3> QED BY <3>1, <3>2, <3>3
  <2> QED BY <2>1, <2>2
<1>6. /\ Has(p, "-dynamic-linker") <=> ~s.shared /\ ~s.static
      /\ Has(p, "-static") <=> s.static
      /\ Has(p, "-shared") <=> s.shared
  <2>1. /\ Has(p, "-dynamic-linker") <=> Has(f, "-dynamic-linker")
        /\ Has(p, "-static") <=> Has(f, "-static") \/ s.static
        /\ Has(p, "-shared") <=> Has(f, "-shared") \/ s.shared
    BY <1>3
  <2>3. \A r \in {"-dynamic-linker", "-static", "-shared"} : Has(f, r) <=> LinuxWants(s, r)
    BY <1>2
  <2>2. /\ Has(f, "-dynamic-linker") <=> ~s.shared /\ ~s.static
        /\ ~Has(f, "-static") /\ ~Has(f, "-shared")
    <3>1. Has(f, "-dynamic-linker") <=> ~s.shared /\ ~s.static
      BY <1>4, <2>3 DEF LinuxWants
    <3>2. ~Has(f, "-static")
      BY <1>4, <2>3 DEF LinuxWants
    <3>3. ~Has(f, "-shared")
      BY <1>4, <2>3 DEF LinuxWants
    <3> QED BY <3>1, <3>2, <3>3
  <2> QED BY <2>1, <2>2
<1> QED BY <1>4, <1>5, <1>6 DEF p

\* Behind them.
LEMMA BehindOK ==
  ASSUME NEW s, NEW sys \in Systems
  PROVE  ldflags_post_user(s, sys) \in Seq(PostRoles)
<1> DEFINE a == If(s.defaultlibs, <<"-lc">>)
           b == If(s.startfiles, <<"crtn">>)
           c == If(s.startfiles, <<"crtend", "crtn">>)
           g == If(s.profile, <<"-lgcrt1.o">>)
           sg == <<"-lSystem">> \o g
           d == If(s.defaultlibs, sg)
<1>1. {"-L", "-lc", "crtn", "crtend", "-lSystem", "-lgcrt1.o"} \subseteq PostRoles
  BY DEF PostRoles
<1>6. /\ a \in Seq(PostRoles) /\ b \in Seq(PostRoles) /\ c \in Seq(PostRoles) /\ g \in Seq(PostRoles)
      /\ <<"-L">> \in Seq(PostRoles) /\ <<>> \in Seq(PostRoles) /\ <<"-lSystem">> \in Seq(PostRoles)
  BY <1>1 DEF If
<1>3. ldflags_post_user(s, sys) \in {(<<"-L">> \o a) \o b, c \o a, d, <<>>}
  BY DEF ldflags_post_user, Systems
<1> HIDE DEF a, b, c, g
<1>7. sg \in Seq(PostRoles)
  BY <1>6
<1> HIDE DEF sg
<1>2. d \in Seq(PostRoles) /\ <<>> \in Seq(PostRoles)
  BY <1>6, <1>7 DEF If
<1> HIDE DEF d
<1>4. <<"-L">> \o a \in Seq(PostRoles)
  BY <1>6
<1>5. (<<"-L">> \o a) \o b \in Seq(PostRoles) /\ c \o a \in Seq(PostRoles)
  BY <1>4, <1>6
<1> QED BY <1>2, <1>3, <1>5

\* Where each of the linker's arguments stands.
LEMMA LinkOrder ==
  ASSUME NEW s, NEW sys \in Systems, s.args[link] \in Seq(ArgOf(Both)),
         \A k \in 1..Len(s.args[link]) : s.args[link][k].o \in LinkerOptions
  PROVE  LET n == Len(ldflags_pre_user(s, sys))
             l == links(s, sys)
         IN /\ n \in Nat /\ Len(l) \in Nat /\ n + 1 <= Len(l)
            /\ \A k \in 1..n : l[k] = ldflags_pre_user(s, sys)[k] /\ l[k] \in PreRoles
            /\ l[n + 1] = "obj"
            /\ \A k \in 1..Len(l) : k > n + 1 => l[k] \in PostRoles \cup LinkerOptions
<1> DEFINE p == ldflags_pre_user(s, sys)
           q == ldflags_post_user(s, sys)
           g == s.args[link]
           u == [k \in 1..Len(g) |-> g[k].o]
           a == p \o <<"obj">>
           b == a \o q
           l == b \o u
<1>1. p \in Seq(Roles) /\ \A k \in 1..Len(p) : p[k] \in PreRoles
  <2>1. p \in Seq(PreRoles)
    BY AheadOK
  <2>2. PreRoles \subseteq Roles
    BY DEF Roles
  <2> HIDE DEF p
  <2> QED BY <2>1, <2>2
<1>2. q \in Seq(Roles) /\ \A k \in 1..Len(q) : q[k] \in PostRoles
  <2>1. q \in Seq(PostRoles)
    BY BehindOK
  <2>2. PostRoles \subseteq Roles
    BY DEF Roles
  <2> HIDE DEF q
  <2> QED BY <2>1, <2>2
<1>3. u \in Seq(Roles) /\ \A k \in 1..Len(u) : u[k] \in LinkerOptions
  <2>1. Len(g) \in Nat /\ \A k \in 1..Len(g) : g[k].o \in LinkerOptions
    OBVIOUS
  <2>2. LinkerOptions \subseteq Roles
    BY DEF Roles
  <2> HIDE DEF g
  <2> QED BY <2>1, <2>2
<1>4. links(s, sys) = l
  BY DEF links
<1> HIDE DEF p, q, u
<1>5. "obj" \in Roles
  BY DEF Roles
<1>6. /\ a \in Seq(Roles) /\ Len(p) \in Nat /\ Len(a) = Len(p) + 1 /\ a[Len(p) + 1] = "obj"
      /\ \A k \in 1..Len(p) : a[k] = p[k]
  BY <1>1, <1>5
<1> HIDE DEF a
<1>7. /\ b \in Seq(Roles) /\ Len(q) \in Nat /\ Len(b) = Len(a) + Len(q)
      /\ \A k \in 1..Len(a) : b[k] = a[k]
      /\ \A k \in 1..Len(b) : \/ k \in 1..Len(a) /\ b[k] = a[k]
                              \/ k - Len(a) \in 1..Len(q) /\ b[k] = q[k - Len(a)]
  <2>1. a \in Seq(Roles) /\ q \in Seq(Roles)
    BY <1>2, <1>6
  <2> QED BY <2>1, ConcatElements
<1> HIDE DEF b
<1>8. /\ l \in Seq(Roles) /\ Len(u) \in Nat /\ Len(l) = Len(b) + Len(u)
      /\ \A k \in 1..Len(b) : l[k] = b[k]
      /\ \A k \in 1..Len(l) : \/ k \in 1..Len(b) /\ l[k] = b[k]
                              \/ k - Len(b) \in 1..Len(u) /\ l[k] = u[k - Len(b)]
  <2>1. b \in Seq(Roles) /\ u \in Seq(Roles)
    BY <1>3, <1>7
  <2> QED BY <2>1, ConcatElements
<1> HIDE DEF l
<1>9. Len(p) \in Nat /\ Len(l) \in Nat /\ Len(p) + 1 <= Len(l)
  BY <1>6, <1>7, <1>8
<1>10. ASSUME NEW k \in 1..Len(p) PROVE l[k] = p[k] /\ l[k] \in PreRoles
  BY <1>1, <1>6, <1>7, <1>8
<1>11. l[Len(p) + 1] = "obj"
  BY <1>6, <1>7, <1>8
<1>12. ASSUME NEW k \in 1..Len(l), k > Len(p) + 1 PROVE l[k] \in PostRoles \cup LinkerOptions
  <2>1. CASE k - Len(b) \in 1..Len(u) /\ l[k] = u[k - Len(b)]
    BY <1>3, <2>1
  <2>2. CASE k \in 1..Len(b) /\ l[k] = b[k]
    <3>1. k \notin 1..Len(a)
      BY <1>6, <1>12
    <3>2. k - Len(a) \in 1..Len(q) /\ b[k] = q[k - Len(a)]
      BY <1>7, <2>2, <3>1
    <3> QED BY <1>2, <2>2, <3>2
  <2> QED BY <1>8, <2>1, <2>2
<1> QED BY <1>4, <1>9, <1>10, <1>11, <1>12 DEF p

\* So the linker is told what it needs.
Before == {"gcrt1", "crt1", "Scrt1", "rcrt1", "crti", "crtbegin"}
Behind == {"-lc", "-lSystem", "-lgcrt1.o", "-l", "crtend", "crtn"}
Ahead == Before \cup {"-pie", "-dynamic-linker", "-no-dynamic-linker", "-static", "-shared"}

LinksOK(s, sys) ==
  LET l == links(s, sys)
      At(x) == {k \in 1..Len(l) : l[k] = x}
  IN /\ \A o \in At("obj") : \A k \in 1..Len(l) :
          /\ l[k] \in Before => k < o
          /\ l[k] \in Behind => k > o
     /\ sys = "linux" /\ s.startfiles /\ ~(s.profile /\ s.pie # "off") =>
          (At("-pie") # {} <=> At("Scrt1") \cup At("rcrt1") # {})
     /\ sys = "linux" => (At("-dynamic-linker") # {} <=> At("-static") \cup At("-shared") = {})
     /\ Cardinality(At("-dynamic-linker") \cup At("-no-dynamic-linker")) <= 1

LEMMA LinksRight ==
  ASSUME NEW s, NEW sys \in Systems, s.args[link] \in Seq(ArgOf(Both)),
         \A k \in 1..Len(s.args[link]) : s.args[link][k].o \in LinkerOptions
  PROVE  LinksOK(s, sys)
<1> DEFINE p == ldflags_pre_user(s, sys)
           n == Len(p)
           l == links(s, sys)
           At(x) == {k \in 1..Len(l) : l[k] = x}
<1>1. /\ n \in Nat /\ Len(l) \in Nat /\ n + 1 <= Len(l)
      /\ \A k \in 1..n : l[k] = p[k] /\ l[k] \in PreRoles
      /\ l[n + 1] = "obj"
      /\ \A k \in 1..Len(l) : k > n + 1 => l[k] \in PostRoles \cup LinkerOptions
  BY LinkOrder
<1>2. /\ Once(p, Interpreters)
      /\ sys = "linux" =>
           /\ s.startfiles /\ ~(s.profile /\ s.pie # "off") => (Has(p, "-pie") <=> Has(p, "Scrt1") \/ Has(p, "rcrt1"))
           /\ Has(p, "-dynamic-linker") <=> ~Has(p, "-static") /\ ~Has(p, "-shared")
  BY AheadOK, LinuxAhead
<1> HIDE DEF l
<1>3. ASSUME NEW k \in 1..Len(l)
      PROVE  k \in 1..n \/ k = n + 1 \/ k > n + 1
  BY <1>1
<1>4. /\ PreRoles \cap (Behind \cup {"obj"}) = {}
      /\ (PostRoles \cup LinkerOptions) \cap (Ahead \cup {"obj"}) = {}
      /\ "obj" \notin Ahead \cup Behind
  BY DEF PreRoles, PostRoles, LinkerOptions, Ahead, Before, Behind
<1>5. ASSUME NEW k \in 1..Len(l)
      PROVE  /\ l[k] = "obj" => k = n + 1
             /\ l[k] \in Ahead => k \in 1..n /\ l[k] = p[k]
             /\ l[k] \in Behind => k > n + 1
  <2>1. CASE k \in 1..n
    BY <1>1, <1>4, <2>1
  <2>2. CASE k = n + 1
    BY <1>1, <1>4, <2>2
  <2>3. CASE k > n + 1
    BY <1>1, <1>4, <2>3
  <2> QED BY <1>3, <2>1, <2>2, <2>3
<1>6. ASSUME NEW o \in At("obj"), NEW k \in 1..Len(l)
      PROVE  /\ l[k] \in Before => k < o
             /\ l[k] \in Behind => k > o
  <2>1. o = n + 1
    BY <1>5
  <2>2. l[k] \in Before => k \in 1..n
    BY <1>5 DEF Ahead
  <2>3. l[k] \in Behind => k > n + 1
    BY <1>5
  <2> QED BY <1>1, <2>1, <2>2, <2>3
<1>7. ASSUME NEW x \in Ahead PROVE At(x) # {} <=> Has(p, x)
  <2>1. ASSUME NEW k \in At(x) PROVE Has(p, x)
    <3>1. k \in 1..n /\ p[k] = x
      BY <1>5
    <3> QED BY <3>1 DEF Has
  <2>2. ASSUME Has(p, x) PROVE At(x) # {}
    <3>1. PICK k \in 1..n : p[k] = x
      BY <2>2 DEF Has
    <3>2. k \in 1..Len(l) /\ l[k] = x
      BY <1>1, <3>1
    <3> QED BY <3>2
  <2> QED BY <2>1, <2>2
<1>8. sys = "linux" =>
        /\ s.startfiles /\ ~(s.profile /\ s.pie # "off") => (At("-pie") # {} <=> At("Scrt1") \cup At("rcrt1") # {})
        /\ At("-dynamic-linker") # {} <=> At("-static") \cup At("-shared") = {}
  <2>1. \A x \in {"-pie", "Scrt1", "rcrt1", "-dynamic-linker", "-static", "-shared"} : At(x) # {} <=> Has(p, x)
    BY <1>7 DEF Ahead, Before
  <2> HIDE DEF At, p
  <2> QED BY <1>2, <2>1
<1>9. Cardinality(At("-dynamic-linker") \cup At("-no-dynamic-linker")) <= 1
  <2> DEFINE A == At("-dynamic-linker") \cup At("-no-dynamic-linker")
  <2>1. ASSUME NEW j \in A, NEW k \in A PROVE j = k
    <3>1. j \in 1..n /\ p[j] \in Interpreters /\ k \in 1..n /\ p[k] \in Interpreters
      BY <1>5 DEF Interpreters, Ahead
    <3> QED BY <1>2, <3>1 DEF Once
  <2> HIDE DEF A
  <2>2. CASE A = {}
    <3>1. Cardinality(A) = 0
      BY <2>2, FS_EmptySet
    <3> QED BY <3>1 DEF A
  <2>3. CASE A # {}
    <3>3. PICK x \in A : TRUE
      BY <2>3
    <3>1. A = {x}
      BY <2>1, <3>3
    <3>2. Cardinality(A) = 1
      BY <3>1, FS_Singleton
    <3> QED BY <3>2 DEF A
  <2> QED BY <2>2, <2>3
<1> HIDE DEF At
<1> QED BY <1>6, <1>8, <1>9 DEF LinksOK, At, l

FinalOf(l, o, but) ==
  LET at == {k \in 1..Len(l) : l[k].o = o /\ l[k].v \notin but}
  IN IF at = {} THEN "unset" ELSE l[CHOOSE k \in at : \A j \in at : j <= k].v

\* The last entry of a list, and that of lists that agree.
LEMMA FinalIs ==
  ASSUME NEW l \in Seq(ArgOf(Both)), NEW o, NEW but
  PROVE  /\ EntriesOf(l, o, but) = {} => FinalOf(l, o, but) = "unset"
         /\ \A v : LastIs(l, o, but, v) => FinalOf(l, o, but) = v
<1> DEFINE E == EntriesOf(l, o, but)
           c == CHOOSE i \in E : \A j \in E : j <= i
<1>1. FinalOf(l, o, but) = IF E = {} THEN "unset" ELSE l[c].v
  BY DEF EntriesOf, FinalOf
<1>2. ASSUME NEW v, LastIs(l, o, but, v) PROVE FinalOf(l, o, but) = v
  <2>1. PICK k \in E : l[k].v = v /\ \A j \in E : j <= k
    BY <1>2 DEF LastIs
  <2>2. c \in E /\ \A j \in E : j <= c
    BY <2>1
  <2>3. \A i \in E : i \in Int
    BY DEF EntriesOf
  <2> HIDE DEF c, E
  <2>5. c = k
    BY <2>1, <2>2, <2>3
  <2> QED BY <1>1, <2>1, <2>5
<1> QED BY <1>1, <1>2

LEMMA FinalSame ==
  ASSUME NEW x \in Seq(ArgOf(Both)), NEW y \in Seq(ArgOf(Both)), NEW o, NEW p, NEW but, SameFor(x, y, o, p, but)
  PROVE  FinalOf(x, o, {}) = FinalOf(y, p, but)
BY FinalIs DEF SameFor

\* Of a list: its last entry but for some, if the last of all is none of them.
LEMMA FinalBut ==
  ASSUME NEW l \in Seq(ArgOf(Both)), NEW o, NEW but, FinalOf(l, o, {}) \notin but,
         EntriesOf(l, o, {}) = {} \/ \E v : LastIs(l, o, {}, v)
  PROVE  FinalOf(l, o, but) = FinalOf(l, o, {})
<1> DEFINE E == EntriesOf(l, o, {})
           G == EntriesOf(l, o, but)
<1>1. G \subseteq E /\ E \subseteq 1..Len(l) /\ Len(l) \in Nat /\ \A k \in E : l[k].v \notin but => k \in G
  BY DEF EntriesOf
<1>2. CASE E = {}
  <2>1. FinalOf(l, o, {}) = "unset" /\ FinalOf(l, o, but) = "unset"
    BY <1>1, <1>2, FinalIs
  <2> QED BY <2>1
<1>3. CASE E # {}
  <2>1. PICK k \in E : \A j \in E : j <= k
    BY <1>3 DEF LastIs
  <2> HIDE DEF E, G
  <2>2. LastIs(l, o, {}, l[k].v)
    BY <2>1 DEF LastIs, E
  <2>3. FinalOf(l, o, {}) = l[k].v
    BY <2>2, FinalIs
  <2>4. k \in G /\ \A j \in G : j <= k
    BY <1>1, <2>1, <2>3
  <2>5. LastIs(l, o, but, l[k].v)
    BY <2>4 DEF LastIs, G
  <2> QED BY <2>3, <2>5, FinalIs
<1> QED BY <1>2, <1>3

\* What ToolsAgree needs of the command lines.
LEMMA ToldAgrees == ASSUME JobTold(job) PROVE ToolsAgree
<1>1. /\ \A t \in Tools : job.args[t] \in Seq(ArgOf(Both))
      /\ preproc \in Tools /\ compile \in Tools /\ link \in Tools
      /\ Alike(job.args[preproc], job.args[compile])
      /\ \A k \in 1..Len(job.args[link]) : job.args[link][k].o \in LinkerOptions
      /\ \A t \in Tools : UserLast(job.args[t])
  BY DEF JobTold, Told, Tools
<1>2. \A t \in Tools : \A j, k \in 1..Len(job.args[t]) :
        j < k /\ job.args[t][j].who = "user" => job.args[t][k].who = "user"
  BY <1>1 DEF UserLast
<1> DEFINE x == job.args[preproc]
           y == job.args[compile]
<1>3. x \in Seq(ArgOf(Both)) /\ y \in Seq(ArgOf(Both)) /\ Alike(x, y)
  BY <1>1
<1>4. ASSUME NEW t, NEW o, NEW but PROVE Final(t, o, but) = FinalOf(job.args[t], o, but)
  BY DEF Final, FinalOf
<1> HIDE DEF x, y
<1>5. ASSUME NEW o \in Agreed PROVE FinalOf(x, o, {}) = FinalOf(y, o, {})
  <2>1. SameFor(x, y, o, o, {})
    BY <1>3 DEF Alike
  <2> QED BY <1>3, <2>1, FinalSame
<1>6. FinalOf(x, "__PIE__", {}) = FinalOf(y, "-fpic", PlainPic)
  <2>1. SameFor(x, y, "__PIE__", "-fpic", PlainPic)
    BY <1>3 DEF Alike
  <2> QED BY <1>3, <2>1, FinalSame
<1>7. FinalOf(y, "-fpic", {}) \notin PlainPic => FinalOf(y, "-fpic", PlainPic) = FinalOf(y, "-fpic", {})
  <2>1. SameFor(x, y, "-fpic", "-fpic", {})
    BY <1>3 DEF Alike, Agreed, Spanning
  <2>2. EntriesOf(y, "-fpic", {}) = {} \/ \E v : LastIs(y, "-fpic", {}, v)
    BY <2>1 DEF SameFor
  <2> QED BY <1>3, <2>2, FinalBut
<1>8. StalePie \/ (Final(preproc, "__PIE__", {}) \in Pie <=> Final(compile, "-fpic", {}) \in Pie)
  <2>1. /\ Final(preproc, "__PIE__", {}) = FinalOf(x, "__PIE__", {})
        /\ Final(compile, "-fpic", {}) = FinalOf(y, "-fpic", {})
        /\ Final(compile, "-fpic", PlainPic) = FinalOf(y, "-fpic", PlainPic)
    BY <1>4 DEF x, y
  <2>2. PlainPic \cap Pie = {}
    BY DEF PlainPic, Pie
  <2> QED BY <1>6, <1>7, <2>1, <2>2 DEF StalePie
<1>9. \A o \in Agreed : Final(preproc, o, {}) = Final(compile, o, {})
  BY <1>4, <1>5 DEF x, y
<1>10. ASSUME NEW sys \in Systems PROVE LinksOK(job, sys)
  BY <1>1, LinksRight
<1> QED BY <1>2, <1>8, <1>9, <1>10 DEF ToolsAgree, ProfiledPie, LinksOK, Before, Behind, Agreed

\* Whatever the command line says: the target's options come first, of each
\* option that both must know of cpp and cc1 are told the same last, and the
\* linker gets the objects between the start-up files and the libraries.
THEOREM ToolsToldAlike == Spec => []ToolsAgree
<1>1. Init => JobTold(job)
  <2> SUFFICES ASSUME Init PROVE JobTold(job)
    OBVIOUS
  <2>1. PICK argv \in CommandLines, sys \in Targets : job = main(argv, sys)
    BY DEF Init
  <2> QED BY <2>1, MainTells
<1>2. JobTold(job) /\ [Next]_vars => JobTold(job)'
  <2> SUFFICES ASSUME JobTold(job), [Next]_vars PROVE JobTold(job')
    OBVIOUS
  <2> DEFINE a == [o |-> "-D", v |-> "__ASSEMBLER__"]
  <2>1. job' = job \/ job' = ADD_ARG(job, {preproc}, a)
    BY DEF Next, Step, vars, Begin, create_file, RunCpp, RunCc1, RunAs, Translated, link_all, PostLink, ToolOk,
           ToolFailed, ToolMissing, NextFile, cat_fnames, rename_or_move, Return, unlink_files, Killed, Done
  <2>2. a.o \in Options /\ a.v \in Values /\ MayGet({preproc}, a)
    BY ApartOptions DEF Options, Values, MayGet
  <2> HIDE DEF a
  <2> QED BY <2>1, <2>2, AddJob
<1>3. JobTold(job) => ToolsAgree
  BY ToldAgrees
<1> QED BY <1>1, <1>2, <1>3, PTL DEF Spec

=============================================================================

------------------------------ MODULE DriverArgs ------------------------------
(***************************************************************************)
(* The command line of the ucc driver: how parse_argv() turns options into *)
(* a mode, a list of inputs and one argument list per tool, what           *)
(* state_from_triple() adds for the target, and what main() makes of it.   *)
(*                                                                         *)
(* An element of the command line is [o |-> option, v |-> its value].  The *)
(* wording of an option is kept only as far as the driver tells options    *)
(* apart; an entry of an argument list is such a record with the field who *)
(* added: "user" or "target".                                              *)
(***************************************************************************)
EXTENDS Integers, Sequences, SequencesExt

\* enum mode: the tool the driver stops after.
preproc == 0
compile == 1
assemb == 2
assemb_with_cpp == 3
link == 4
NoAssumption == -1
Tools == {preproc, compile, assemb, link}

\* struct ucc and struct uccvars after vars_default(), in one record.
InitState ==
  [inputs |-> <<>>, args |-> [t \in Tools |-> <<>>], isystems |-> <<>>, includes |-> <<>>,
   mode |-> link, assume |-> NoAssumption, output |-> "none", ssp |-> "none",
   syntax_only |-> FALSE, backend |-> FALSE, save_temps |-> FALSE, noop |-> FALSE,
   static |-> FALSE, shared |-> FALSE, pie |-> "unset", startfiles |-> TRUE, defaultlibs |-> TRUE,
   stdlibinc |-> TRUE, builtininc |-> TRUE, pthread |-> FALSE, debug |-> FALSE, post_link |-> FALSE,
   profile |-> FALSE, rdynamic |-> FALSE, ztext |-> FALSE, dyld |-> FALSE, target |-> "none", dumpmachine |-> FALSE,
   had_MD |-> FALSE, deps |-> FALSE, dep |-> [by |-> "none", name |-> ""],
   double_dash |-> FALSE, who |-> "user", dead |-> FALSE]

\* The options the model tells apart; "-bad" stands for an unknown one, and for
\* one without its argument, "input" for what is no option, and "-mlibc" for
\* -mmusl and -mglibc.
Options ==
  {"--", "input", "-W", "-Werror=", "-X", "-I", "-isystem", "-M", "-MM", "-MD", "-MF", "-fpic", "-fchar",
   "-ffast-math", "-fleading-underscore", "-fstack-protector", "-fstack-protector-all", "-E", "-S", "-c", "-o",
   "-x", "-D", "-U", "-H", "-C", "-trigraphs", "-m", "-g", "-pedantic", "-f", "-O", "-std", "-ffreestanding",
   "-l", "-L", "-s", "-w", "-bad", "-nostdlib", "-nostartfiles", "-nodefaultlibs", "-nostdinc", "-shared",
   "-static", "-pie", "-pthread", "-###", "-emit", "-save-temps", "-fsyntax-only", "-nostdlibinc", "-nobuiltininc",
   "-rdynamic", "-static-pie", "-pg", "-mlibc", "-target", "-dumpmachine"}

Die(s) == [s EXCEPT !.dead = TRUE]
Entry(s, a) == [o |-> a.o, v |-> a.v, who |-> s.who]
ADD_ARG(s, tools, a) ==
  [s EXCEPT !.args = [t \in Tools |-> IF t \in tools THEN Append(@[t], Entry(s, a)) ELSE @[t]]]

(***************************************************************************)
(* Options for a tool.  -W options go where warning_owner() finds the      *)
(* warning: cpp never gets the -Werror= form, and an unknown one is cc1's.  *)
(***************************************************************************)
\* "both" and "cpp" are listed in cpp2/warnings.def; "all" is both tools'.
warning_owner(w, is_werror) ==
  LET cpp == ~is_werror /\ w \in {"all", "both", "cpp"}
      cc1 == w \in {"all", "extra", "gnu", "both", "cc1"}
  IN (IF cpp THEN {preproc} ELSE {}) \cup (IF cc1 THEN {compile} ELSE {})

pass_warning(s, a) ==
  LET owner == warning_owner(a.v, a.o = "-Werror=")
  IN ADD_ARG(s, IF owner = {} THEN {compile} ELSE owner, a)

\* -Wp, -Wc, -Wa, -Wl, and -Xpreprocessor, -Xassembler, -Xlinker.
ParseForTool(s, a) ==
  ADD_ARG(s, {CASE a.v = "cpp" -> preproc [] a.v = "cc1" -> compile [] a.v = "as" -> assemb [] a.v = "ld" -> link}, a)

\* The options that are only handed on, and to whom.
ParseHandedOn(s, a) ==
  CASE a.o \in {"-D", "-U", "-H", "-C", "-trigraphs"} -> ADD_ARG(s, {preproc}, a)
    [] a.o \in {"-m", "-pedantic", "-f"} -> ADD_ARG(s, {compile}, a)
    [] a.o = "-g" -> [ADD_ARG(s, {compile}, a) EXCEPT !.debug = a.v # "0"]
    [] a.o \in {"-O", "-std", "-ffreestanding"} -> ADD_ARG(s, {preproc, compile}, a)
    [] a.o \in {"-l", "-L", "-s"} -> ADD_ARG(s, {link}, a)
    [] a.o = "-w" -> ADD_ARG(s, {preproc, compile, assemb}, a)

\* -I and -isystem are kept apart until the rest is known.
ParseInclude(s, a) ==
  IF a.o = "-I" THEN [s EXCEPT !.includes = Append(@, Entry(s, a))]
  ELSE [s EXCEPT !.isystems = Append(@, Entry(s, a))]

\* -M and -MM stop after cpp, -MD and -MF only ask it for a dependency file:
\* dep says after what that file is named.
ParseDeps(s, a) ==
  LET t == ADD_ARG(s, {preproc}, a)
      w == [o |-> "-w", v |-> ""]
  IN CASE a.o = "-M" -> [ADD_ARG(t, {preproc, compile}, w) EXCEPT !.mode = preproc, !.deps = TRUE]
       [] a.o = "-MM" -> [t EXCEPT !.mode = preproc, !.deps = TRUE]
       [] a.o = "-MD" -> [ADD_ARG(t, {preproc, compile}, w) EXCEPT !.had_MD = TRUE, !.deps = TRUE]
       [] a.o = "-MF" -> [t EXCEPT !.dep = [by |-> "option", name |-> a.v]]

(***************************************************************************)
(* Options that both cpp and cc1 must agree on: cpp gets the macro, cc1    *)
(* the option.  a.v says whether the option switches the feature on; for   *)
(* "-fpic" it is "pic", "PIC", "pie" or "PIE" when it does.                *)
(***************************************************************************)
Spanning == {"-fpic", "-fchar", "-ffast-math", "-fleading-underscore"}
PlainPic == {"pic", "PIC"}

\* A possible bug: cpp is not told of the options that switch a feature off.
handle_spanning_fopt_NoUndef(s, a) ==
  IF a.o \in Spanning THEN ADD_ARG(s, IF a.v = "off" THEN {compile} ELSE {preproc, compile}, a)
  ELSE [s EXCEPT !.ssp = IF a.v = "off" THEN "none" ELSE a.o]

\* -fpic and -fPIC define __PIC__ and leave __PIE__ as it is; the others define
\* or undefine both.
handle_spanning_fopt(s, a) ==
  LET both == ADD_ARG(s, {preproc, compile}, a)
  IN IF a.o = "-fpic" /\ a.v \notin PlainPic THEN ADD_ARG(both, {preproc}, [o |-> "__PIE__", v |-> a.v])
     ELSE IF a.o \in Spanning THEN both
     ELSE [s EXCEPT !.ssp = IF a.v = "off" THEN "none" ELSE a.o]

resolve_spanning_fopts(s) ==
  IF s.ssp = "none" THEN s ELSE ADD_ARG(s, {preproc, compile}, [o |-> s.ssp, v |-> "on"])

\* The options that set a field; the last of each wins.
ParseWord(s, a) ==
  CASE a.o = "-nostdlib" -> [s EXCEPT !.startfiles = FALSE, !.defaultlibs = FALSE]
    [] a.o = "-nostartfiles" -> [s EXCEPT !.startfiles = FALSE]
    [] a.o = "-nodefaultlibs" -> [s EXCEPT !.defaultlibs = FALSE]
    [] a.o = "-nostdinc" -> [s EXCEPT !.stdlibinc = FALSE, !.builtininc = FALSE]
    [] a.o = "-nostdlibinc" -> [s EXCEPT !.stdlibinc = FALSE]
    [] a.o = "-nobuiltininc" -> [s EXCEPT !.builtininc = FALSE]
    [] a.o = "-shared" -> [s EXCEPT !.shared = TRUE]
    [] a.o = "-static" -> [s EXCEPT !.static = TRUE]
    [] a.o = "-rdynamic" -> [s EXCEPT !.rdynamic = TRUE]
    [] a.o = "-pie" -> [s EXCEPT !.pie = a.v]
    [] a.o = "-static-pie" -> [s EXCEPT !.static = TRUE, !.pie = "on", !.ztext = TRUE]
    [] a.o = "-pg" -> [ADD_ARG(s, {compile}, a) EXCEPT !.profile = TRUE]
    [] a.o = "-mlibc" -> [s EXCEPT !.dyld = TRUE]
    [] a.o = "-target" -> [ADD_ARG(s, {preproc, compile}, a) EXCEPT !.target = a.v]
    [] a.o = "-dumpmachine" -> [s EXCEPT !.dumpmachine = TRUE]
    [] a.o = "-pthread" -> [s EXCEPT !.pthread = TRUE]
    [] a.o = "-###" -> [s EXCEPT !.noop = TRUE]
    [] a.o = "-emit" -> [s EXCEPT !.backend = TRUE]
    [] a.o = "-save-temps" -> [s EXCEPT !.save_temps = TRUE]
    [] a.o = "-fsyntax-only" -> [s EXCEPT !.syntax_only = TRUE]

ParseMode(s, a) ==
  [s EXCEPT !.mode = CASE a.o = "-E" -> preproc [] a.o = "-S" -> compile [] a.o = "-c" -> assemb]

ParseOutput(s, a) == [s EXCEPT !.output = a.v]

\* -x: what later inputs are taken for; "none" goes back to the extension.
ParseX(s, a) ==
  CASE a.v = "c" -> [s EXCEPT !.assume = preproc]
    [] a.v = "cpp-output" -> [s EXCEPT !.assume = compile]
    [] a.v = "assembler" -> [s EXCEPT !.assume = assemb]
    [] a.v = "assembler-with-cpp" -> [s EXCEPT !.assume = assemb_with_cpp]
    [] a.v = "none" -> [s EXCEPT !.assume = NoAssumption]
    [] OTHER -> Die(s)

\* An input keeps the assumption in force where it stands; "--" is one too.
ParseInput(s, a) ==
  [s EXCEPT !.inputs = Append(@, [name |-> a.v, assume |-> s.assume]),
            !.double_dash = @ \/ a.o = "--"]

parse_arg(s, a) ==
  IF s.dead THEN s
  ELSE IF s.double_dash \/ a.o \in {"--", "input"} THEN ParseInput(s, a)
  ELSE CASE a.o \in {"-W", "-Werror="} -> pass_warning(s, a)
         [] a.o = "-X" -> ParseForTool(s, a)
         [] a.o \in {"-I", "-isystem"} -> ParseInclude(s, a)
         [] a.o \in {"-M", "-MM", "-MD", "-MF"} -> ParseDeps(s, a)
         [] a.o \in Spanning \cup {"-fstack-protector", "-fstack-protector-all"} -> handle_spanning_fopt(s, a)
         [] a.o \in {"-E", "-S", "-c"} -> ParseMode(s, a)
         [] a.o = "-o" -> ParseOutput(s, a)
         [] a.o = "-x" -> ParseX(s, a)
         [] a.o \in {"-D", "-U", "-H", "-C", "-trigraphs", "-m", "-g", "-pedantic", "-f", "-O", "-std",
                     "-ffreestanding", "-l", "-L", "-s", "-w"} -> ParseHandedOn(s, a)
         [] a.o = "-bad" -> Die(s)
         [] OTHER -> ParseWord(s, a)

\* -MD without -MF: the file is named after -o, else after the one input.
Depfile(s) ==
  LET by == IF s.output = "none" THEN [by |-> "input", name |-> s.inputs[1].name]
            ELSE [by |-> IF s.mode = preproc THEN "option" ELSE "output", name |-> s.output]
  IN IF ~s.had_MD \/ s.dep.by # "none" \/ s.dead THEN s
     ELSE IF s.output = "none" /\ Len(s.inputs) # 1 THEN Die(s)
     ELSE [ADD_ARG(s, {preproc}, [o |-> "-MF", v |-> by.name]) EXCEPT !.dep = by]

ArgsRead(s) == IF s.dead THEN s ELSE Depfile(resolve_spanning_fopts(s))

\* The state after each argument.
ParseStates(s, argv) ==
  LET after[k \in 0..Len(argv)] == IF k = 0 THEN s ELSE parse_arg(after[k - 1], argv[k])
  IN after

parse_argv(s, argv) == ArgsRead(ParseStates(s, argv)[Len(argv)])

(***************************************************************************)
(* What the target adds.  The lists hold the roles of the linker's         *)
(* arguments; additional options are parsed as if the user had begun with  *)
(* them.                                                                   *)
(***************************************************************************)
Systems == {"linux", "freebsd", "darwin", "cygwin"}
If(c, s) == IF c THEN s ELSE <<>>

\* The start-up file for the kind of program that is linked.
crt1(s) ==
  IF s.profile THEN "gcrt1" ELSE IF s.pie = "off" THEN "crt1" ELSE IF s.static THEN "rcrt1" ELSE "Scrt1"

SystemFlags(s, sys) ==
  CASE sys = "linux" ->
         If(s.pie # "off" /\ ~s.shared, <<"-pie">>)
      \o If(s.rdynamic, <<"-export-dynamic">>)
      \o If(~s.shared, IF s.static THEN <<"-no-dynamic-linker">> ELSE <<"-dynamic-linker">>)
      \o If(s.startfiles, If(~s.shared, <<crt1(s)>>) \o <<"dsohandle", "crti">>)
      \o If(s.ztext, <<"-z text">>)
    [] sys = "freebsd" -> If(s.startfiles, <<"crt1", "crti", "crtbegin">>)
    [] sys = "darwin" -> <<"-syslibroot", "-macosx_version_min">>
                      \o If(~s.shared, IF s.pie = "off" THEN <<"-no_pie">> ELSE <<"-pie">>)
                      \o If(s.rdynamic, <<"-export-dynamic">>)
    [] sys = "cygwin" -> <<>>

\* -shared is -dylib on darwin.
ldflags_pre_user(s, sys) ==
  SystemFlags(s, sys) \o If(s.shared, <<"-shared">>) \o If(s.static, <<"-static">>)

ldflags_post_user(s, sys) ==
  CASE sys = "linux" -> <<"-L">> \o If(s.defaultlibs, <<"-lc">>) \o If(s.startfiles, <<"crtn">>)
    [] sys = "freebsd" -> If(s.startfiles, <<"crtend", "crtn">>) \o If(s.defaultlibs, <<"-lc">>)
    [] sys = "darwin" -> If(s.defaultlibs, <<"-lSystem">> \o If(s.profile, <<"-lgcrt1.o">>))
    [] sys = "cygwin" -> <<>>

additional_argv(sys) ==
  LET underscore == [o |-> "-fleading-underscore", v |-> "on"]
  IN CASE sys = "darwin" -> <<underscore, [o |-> "-fpic", v |-> "pic"]>>
       [] sys = "cygwin" -> <<underscore>>
       [] OTHER -> <<>>

\* The linker's arguments, by what they are: "obj" stands for the inputs.
links(s, sys) ==
  ldflags_pre_user(s, sys) \o <<"obj">> \o ldflags_post_user(s, sys)
  \o [k \in 1..Len(s.args[link]) |-> s.args[link][k].o]

\* The state the target starts with: its include directories and options.
state_from_triple(vars, sys) ==
  LET s == [InitState EXCEPT !.who = "target"]
      inc == IF vars.builtininc THEN ADD_ARG(s, {preproc}, [o |-> "-isystem", v |-> "builtin"]) ELSE s
      std == IF vars.stdlibinc THEN ADD_ARG(inc, {preproc}, [o |-> "-isystem", v |-> "system"]) ELSE inc
  IN parse_argv(IF sys = "darwin" THEN ADD_ARG(std, {compile}, [o |-> "-m", v |-> ""]) ELSE std, additional_argv(sys))

\* merge_states(): the user's arguments follow the target's.
merge_states(state, append) ==
  [append EXCEPT !.args = [t \in Tools |-> state.args[t] \o append.args[t]]]

add_pthread(s) ==
  IF ~s.pthread THEN s
  ELSE ADD_ARG(ADD_ARG(s, {preproc}, [o |-> "-D", v |-> "_REENTRANT"]), {link}, [o |-> "-l", v |-> "pthread"])

(***************************************************************************)
(* main() up to the call of process_files().                               *)
(***************************************************************************)
Given(s) == s.output # "none"
LinkOutput(s) == IF ~Given(s) /\ s.mode = link THEN [s EXCEPT !.output = "a.out"] ELSE s
SyntaxOnly(s) == IF s.syntax_only THEN [s EXCEPT !.mode = compile, !.output = "/dev/null"] ELSE s
\* "-" is the standard output, where the preprocessor writes by itself.
ToStdout(s) == IF s.mode = preproc /\ s.output = "-" THEN [s EXCEPT !.output = "none"] ELSE s
Emit(s, given) == IF s.backend THEN [s EXCEPT !.mode = compile, !.output = IF given THEN @ ELSE "-"] ELSE s
WithTarget(s, sys) == add_pthread(merge_states(state_from_triple(s, sys), s))

\* The checks of -o and -fsyntax-only, -emit, and the include paths; user is
\* what the command line says, s that with the target's part.
Checked(user, s, sys) ==
  LET given == Given(user)
      twice == given /\ Len(s.inputs) > 1 /\ s.mode \in {compile, assemb}
      elsewhere == (user.dyld /\ sys # "linux") \/ (user.rdynamic /\ sys \notin {"linux", "darwin"})
  IN IF elsewhere \/ twice \/ (s.syntax_only /\ (given \/ s.mode # link)) \/ s.inputs = <<>> THEN Die(user)
     ELSE [Emit(ToStdout(SyntaxOnly(s)), given) EXCEPT
             !.args[preproc] = @ \o s.isystems \o s.includes,
             !.post_link = sys = "darwin" /\ s.debug /\ Given(s)]

\* -target, else the system ucc was configured for or called by.
TargetOf(user, sys) == IF user.target = "none" THEN sys ELSE user.target

main(argv, sys) ==
  LET Prepared(user, on) ==
        IF user.dead \/ on \notin Systems THEN Die(user)
        ELSE IF user.dumpmachine THEN user
        ELSE Checked(user, WithTarget(LinkOutput(user), on), on)
      Parsed(user) == Prepared(user, TargetOf(user, sys))
  IN Parsed(parse_argv(InitState, argv))
=============================================================================

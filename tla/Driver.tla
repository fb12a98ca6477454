-------------------------------- MODULE Driver --------------------------------
(***************************************************************************)
(* The ucc driver at work: main() hands the parsed command line to         *)
(* process_files(), which makes the temporary files of each input, runs    *)
(* cpp, cc1 and as on it, and then links the objects or moves the results  *)
(* to their names.  Tools may fail, be killed or not be found; temporary   *)
(* files may not be had; the driver itself may be killed.                  *)
(*                                                                         *)
(* A file's name is <<base, extension>>, its contents a sequence of pieces *)
(* [kind, from, asm]: a text of that kind made from input number "from",   *)
(* preprocessed with __ASSEMBLER__ defined or not.                         *)
(***************************************************************************)
EXTENDS DriverArgs, FiniteSets

CONSTANTS
  CommandLines,  \* the argument vectors the driver is started with
  Targets,       \* the systems it may be configured for
  Split,         \* how a name with a dot, or that of an input, parts at its last dot
  OneLetter,     \* the extensions of one letter
  Stale          \* names of results an earlier run may have left

VARIABLES
  job,      \* what main() made of the command line
  files,    \* struct cc_file of the inputs created so far
  pc,       \* where process_files() is
  running,  \* the child in wait(), or NoTool
  moved,    \* how many files rename_files() is through with
  fs,       \* name -> contents, of the files that exist
  old,      \* fs before the driver was started
  removes,  \* remove_these
  status    \* exit status: -1 while running, 0, 1, or 128 for 128 + signal

vars == <<job, files, pc, running, moved, fs, old, removes, status>>

NoName == <<"", "">>
Stdout == <<"<stdout>", "">>
Temporary(n) == n[1] = "/tmp/ucc"

\* Command lines are made of the options the driver knows.  What it takes for
\* an input, behind "--" everything, is the name of a file; neither such a name
\* nor that of an old result or behind -o or -MF is one it makes up itself.
ASSUME DriverAssumption ==
  /\ Targets \subseteq Systems
  /\ \A argv \in CommandLines :
       /\ argv \in Seq([o : Options, v : STRING])
       /\ \A k \in 1..Len(argv) :
            /\ argv[k].o = "input" \/ (\E j \in 1..k : argv[j].o = "--") => argv[k].v \in DOMAIN Split
            /\ argv[k].o \in {"-o", "-MF"} => argv[k].v \notin {"/tmp/ucc", "<stdout>"}
  /\ {"c", "i", "S", "s", "o", "a"} \subseteq OneLetter /\ OneLetter \subseteq STRING /\ "" \notin OneLetter
  /\ \A n \in {Split[i] : i \in DOMAIN Split} \cup Stale :
       n \in STRING \X STRING /\ ~Temporary(n) /\ n \notin {NoName, Stdout}

NoTool == [tool |-> "none", in |-> NoName, out |-> NoName]
Dash == <<"-", "">>
OutName(s) == IF s \in DOMAIN Split THEN Split[s] ELSE <<s, "">>
Partial == [kind |-> "partial", from |-> 0, asm |-> FALSE]
Deps == [kind |-> "dep", from |-> 0, asm |-> FALSE]
Index == Len(files)

\* X(mode, desc, suffix) of filemodes.h.
Suffix == [mode \in {preproc, compile, assemb} |->
             CASE mode = preproc -> "i" [] mode = compile -> "s" [] mode = assemb -> "o"]

\* expected_filename(): the suffix replaces an extension of one letter.
expected_filename(in, mode) ==
  IF in[1] # "" /\ in[2] \in OneLetter THEN <<in[1], Suffix[mode]>> ELSE in

\* The file behind -MF, where cpp writes what an input depends on.
DepName ==
  CASE ~job.deps \/ job.dep.by = "none" -> NoName
    [] job.deps /\ job.dep.by = "option" -> OutName(job.dep.name)
    [] job.deps /\ job.dep.by = "output" -> <<job.dep.name, "d">>
    [] job.deps /\ job.dep.by = "input" -> <<Split[job.dep.name][1], "d">>

(***************************************************************************)
(* create_file(): which stages an input goes through.                      *)
(***************************************************************************)
Name(input) == Split[input.name]

Kind(input) ==
  CASE input.assume = preproc -> "c"
    [] input.assume = compile -> "i"
    [] input.assume = assemb -> "s"
    [] input.assume = assemb_with_cpp -> "S"
    [] OTHER -> IF Name(input) = Dash THEN "c" ELSE IF Name(input)[2] \in {"c", "i", "S", "s"} THEN Name(input)[2] ELSE "o"

Stages(kind) ==
  CASE kind = "c" -> <<preproc, compile, assemb>>
    [] kind = "i" -> <<compile, assemb>>
    [] kind = "S" -> <<preproc, assemb>>
    [] kind = "s" -> <<assemb>>
    [] kind = "o" -> <<>>

\* FILL_WITH_TMP() returns from create_file() at the stage the mode asks for.
Filled(kind) ==
  LET s == Stages(kind)
  IN IF \E n \in 1..Len(s) : s[n] = job.mode
     THEN SubSeq(s, 1, CHOOSE n \in 1..Len(s) : s[n] = job.mode) ELSE s

\* tmpfilenam(): a fixed name with -save-temps, else a new temporary file.
tmpfilenam(in, n, stage) ==
  IF job.save_temps THEN expected_filename(in, stage) ELSE <<"/tmp/ucc", ToString(10 * n + stage)>>

FILE_IN_MODE(f) ==
  IF f.preproc # NoName THEN preproc ELSE IF f.compile # NoName THEN compile
  ELSE IF f.assemb # NoName THEN assemb ELSE link

Made(kind, n, in) ==
  LET s == Filled(kind)
      At(stage) == IF \E k \in 1..Len(s) : s[k] = stage THEN tmpfilenam(in, n, stage) ELSE NoName
  IN [in |-> in, preproc |-> At(preproc), compile |-> At(compile), assemb |-> At(assemb),
      out |-> IF s = <<>> THEN in ELSE At(s[Len(s)]), preproc_asm |-> kind = "S"]

Without(f, names) == [n \in DOMAIN f \ names |-> f[n]]
Over(f, g) == [n \in DOMAIN f \cup DOMAIN g |-> IF n \in DOMAIN f THEN f[n] ELSE g[n]]
Write(f, name, data) == Over([n \in {name} |-> data], f)

Exit(code) == pc' = "exit" /\ status' = code

\* main() refuses the command line, prints the target's name, or calls
\* process_files().
Begin ==
  /\ pc = "start"
  /\ IF job.dead THEN Exit(1) ELSE pc' = (IF job.dumpmachine THEN "end" ELSE "create") /\ UNCHANGED status
  /\ UNCHANGED <<job, files, running, moved, fs, old, removes>>

\* The files a struct cc_file needs, made when they are temporaries.
Temps(f) == {f.preproc, f.compile, f.assemb} \ {NoName}

\* The next input: its temporary files are created and registered, one after
\* the other, unless one of them cannot be had: only those before it are then
\* there.
create_file ==
  /\ pc = "create" /\ Index < Len(job.inputs)
  /\ LET input == job.inputs[Index + 1]
         kind == Kind(input)
         f == Made(kind, Index + 1, Name(input))
         new == IF job.save_temps THEN {} ELSE Temps(f)
     IN \E got \in SUBSET new :
          /\ f.compile \in got => new \cap {f.preproc} \subseteq got
          /\ f.assemb \in got => new \cap {f.preproc, f.compile} \subseteq got
          /\ fs' = Over([n \in got |-> <<>>], fs)
          /\ removes' = removes \cup got
          /\ IF got = new THEN files' = Append(files, f) /\ pc' = "cpp" /\ UNCHANGED status
             ELSE Exit(1) /\ UNCHANGED files
  /\ UNCHANGED <<job, running, moved, old>>

(***************************************************************************)
(* gen_obj_file(): the stages of the input just created.                   *)
(***************************************************************************)
\* runner(): with -### nothing is run, else the driver waits for the tool,
\* which has begun its output.
Start(tool, in, out, then) ==
  IF job.noop THEN pc' = then /\ UNCHANGED <<running, fs>>
  ELSE /\ running' = [tool |-> tool, in |-> in, out |-> out, then |-> then]
       /\ pc' = "wait"
       /\ fs' = IF out = NoName THEN fs ELSE Write(fs, out, <<Partial>>)

Cur == files[Index]

\* args[mode_preproc] is the list of all inputs: what an assembler file
\* adds to it stays for the inputs that follow.
RunCpp ==
  /\ pc = "cpp"
  /\ job' = IF Cur.preproc # NoName /\ Cur.preproc_asm
            THEN ADD_ARG(job, {preproc}, [o |-> "-D", v |-> "__ASSEMBLER__"]) ELSE job
  /\ LET next == IF job.mode = preproc THEN "create" ELSE "cc1"
     IN IF Cur.preproc = NoName THEN pc' = next /\ UNCHANGED <<running, fs>>
        ELSE Start("cpp", Cur.in, Cur.preproc, next)
  /\ UNCHANGED <<files, moved, old, removes, status>>

RunCc1 ==
  /\ pc = "cc1"
  /\ LET next == IF job.mode = compile THEN "create" ELSE "as"
     IN IF Cur.compile = NoName THEN pc' = next /\ UNCHANGED <<running, fs>>
        ELSE Start("cc1", IF Cur.preproc # NoName THEN Cur.preproc ELSE Cur.in, Cur.compile, next)
  /\ UNCHANGED <<job, files, moved, old, removes, status>>

RunAs ==
  /\ pc = "as"
  /\ IF Cur.assemb = NoName THEN pc' = "create" /\ UNCHANGED <<running, fs>>
     ELSE Start("as", IF Cur.compile # NoName THEN Cur.compile
                      ELSE IF Cur.preproc # NoName THEN Cur.preproc ELSE Cur.in, Cur.assemb, "create")
  /\ UNCHANGED <<job, files, moved, old, removes, status>>

\* A possible bug: results get their names as soon as one input is through.
Translated_Eager ==
  /\ pc = "create" /\ (Index = Len(job.inputs) \/ Index > 0)
  /\ pc' = IF job.mode = link THEN "link" ELSE "rename"
  /\ UNCHANGED <<job, files, running, moved, fs, old, removes, status>>

\* All inputs are through: link them, or give the results their names.
Translated ==
  /\ pc = "create" /\ Index = Len(job.inputs)
  /\ pc' = IF job.mode = link THEN "link" ELSE "rename"
  /\ UNCHANGED <<job, files, running, moved, fs, old, removes, status>>

link_all ==
  /\ pc = "link"
  /\ Start("ld", NoName, OutName(job.output), "post_link")
  /\ UNCHANGED <<job, files, moved, old, removes, status>>

PostLink ==
  /\ pc = "post_link"
  /\ IF job.post_link THEN Start("sh", NoName, NoName, "end") ELSE pc' = "end" /\ UNCHANGED <<running, fs>>
  /\ UNCHANGED <<job, files, moved, old, removes, status>>

(***************************************************************************)
(* The tools.  Each makes its kind of text of the kinds it accepts; cpp    *)
(* takes any text, and dependencies, which are no text of a program, stay  *)
(* what they are.  External: only what the driver relies on.               *)
(***************************************************************************)
AsmDefined == \E k \in 1..Len(job.args[preproc]) : job.args[preproc][k].v = "__ASSEMBLER__"

Accepts(tool, kind) ==
  CASE tool = "cpp" -> kind \in {"c", "i", "S", "s", "dep"}
    [] tool = "cc1" -> kind = "i"
    [] tool = "as" -> kind = "s"
    [] tool = "ld" -> kind = "o"
    [] tool = "cat" -> TRUE

Makes(tool, p) ==
  CASE tool = "cpp" -> [p EXCEPT !.kind = CASE @ \in {"c", "i"} -> "i" [] @ \in {"S", "s"} -> "s" [] OTHER -> @, !.asm = AsmDefined]
    [] tool = "cc1" -> [p EXCEPT !.kind = "s"]
    [] tool = "as" -> [p EXCEPT !.kind = "o"]
    [] tool = "ld" -> p

\* The sources a tool reads: ld the objects of all inputs, in their order.
Reads(r) == IF r.tool = "ld" THEN [k \in 1..Len(files) |-> files[k].out]
            ELSE IF r.in = NoName THEN <<>> ELSE <<r.in>>

\* What is in a file a tool reads; its own output is empty by then.
Contents(r, n) == IF n = r.out THEN <<>> ELSE fs[n]

Readable(r) ==
  \A k \in 1..Len(Reads(r)) :
    /\ Reads(r)[k] \in DOMAIN fs
    /\ \A j \in 1..Len(Contents(r, Reads(r)[k])) : Accepts(r.tool, Contents(r, Reads(r)[k])[j].kind)

Result(r) ==
  LET data == FlattenSeq([k \in 1..Len(Reads(r)) |-> Contents(r, Reads(r)[k])])
  IN IF r.tool = "cat" THEN data ELSE [k \in 1..Len(data) |-> Makes(r.tool, data[k])]

\* cpp ends with the dependency file.
WithDeps(r, f, data) == IF r.tool = "cpp" /\ DepName # NoName THEN Write(f, DepName, <<data>>) ELSE f

\* wait() returns, the tool has succeeded.
ToolOk ==
  /\ pc = "wait" /\ Readable(running)
  /\ fs' = WithDeps(running, IF running.out = NoName THEN fs ELSE Write(fs, running.out, Result(running)), Deps)
  /\ pc' = running.then /\ running' = NoTool
  /\ UNCHANGED <<job, files, moved, old, removes, status>>

\* A possible bug: the output of a tool that was killed stays.
ToolFailed_Keep ==
  /\ pc = "wait"
  /\ running' = NoTool
  /\ \/ Exit(1) /\ fs' = Without(fs, {running.out})
     \/ Exit(128) /\ fs' = fs
  /\ UNCHANGED <<job, files, moved, old, removes>>

\* A possible bug: the tool's input is removed in the place of its output.
ToolFailed_RemoveInput ==
  /\ pc = "wait"
  /\ fs' = Without(fs, {running.in, running.out})
  /\ running' = NoTool
  /\ Exit(1) \/ Exit(128)
  /\ UNCHANGED <<job, files, moved, old, removes>>

\* ... it returned a failure or was killed, before, in or behind the writing of
\* the dependency file: its output is removed, but not that file, and the driver
\* exits with 1 or 128 + the signal.
ToolFailed ==
  /\ pc = "wait"
  /\ \E f \in {fs, WithDeps(running, fs, Partial), WithDeps(running, fs, Deps)} : fs' = Without(f, {running.out})
  /\ running' = NoTool
  /\ Exit(1) \/ Exit(128)
  /\ UNCHANGED <<job, files, moved, old, removes>>

\* ... it could not be started: the child's die() runs unlink_files() too,
\* before the driver sees the failure.
ToolMissing ==
  /\ pc = "wait"
  /\ fs' = Without(fs, removes \cup {running.out})
  /\ running' = NoTool
  /\ Exit(1)
  /\ UNCHANGED <<job, files, moved, old, removes>>

(***************************************************************************)
(* rename_files().                                                         *)
(***************************************************************************)
\* An input of a later stage than the mode is "unused with -E present".
Skipped(f) == job.mode < FILE_IN_MODE(f)

\* Where the result of a file goes: a name, Stdout, or nowhere.
Destination(f) ==
  IF Skipped(f) THEN NoName
  ELSE IF job.output # "none"
  THEN IF job.mode = preproc THEN IF f.preproc # NoName THEN OutName(job.output) ELSE NoName
       ELSE IF job.mode = compile /\ job.output = "-" THEN IF f.compile # NoName THEN Stdout ELSE NoName
       ELSE OutName(job.output)
  ELSE IF job.mode = preproc THEN IF f.preproc # NoName THEN Stdout ELSE NoName
       ELSE expected_filename(f.in, job.mode)

Next1 == files[moved + 1]

\* A possible bug: the loop does not go on behind a file that is skipped.
NextFile_Stays ==
  /\ pc = "rename"
  /\ \/ moved = Len(files) /\ pc' = "end" /\ UNCHANGED moved
     \/ /\ moved < Len(files) /\ Destination(Next1) = NoName /\ UNCHANGED <<moved, pc>>
  /\ UNCHANGED <<job, files, running, fs, old, removes, status>>

\* The loop of rename_files() comes to the next file, or to its end.  A result
\* that has its name already stays where it is, but for -E.
NextFile ==
  /\ pc = "rename"
  /\ \/ moved = Len(files) /\ pc' = "end" /\ UNCHANGED moved
     \/ /\ moved < Len(files)
        /\ Destination(Next1) = NoName \/ (job.mode # preproc /\ Destination(Next1) = Next1.out)
        /\ moved' = moved + 1 /\ UNCHANGED pc
  /\ UNCHANGED <<job, files, running, fs, old, removes, status>>

\* A possible bug: every file is written over the one before.
cat_fnames_Truncate ==
  /\ pc = "rename" /\ moved < Len(files)
  /\ job.mode = preproc \/ Destination(Next1) = Stdout
  /\ Destination(Next1) # NoName
  /\ fs' = IF job.noop THEN fs
           ELSE Write(fs, Destination(Next1), fs[IF job.mode = preproc THEN Next1.preproc ELSE Next1.compile])
  /\ moved' = moved + 1
  /\ UNCHANGED <<job, files, pc, running, old, removes, status>>

\* cat_fnames(): copied by the driver itself, behind what is there unless
\* this is the first file of all.  A failure leaves what was written; on the
\* standard output, which is neither flushed nor closed, it may go unnoticed.
cat_fnames ==
  /\ pc = "rename" /\ moved < Len(files)
  /\ job.mode = preproc \/ Destination(Next1) = Stdout
  /\ Destination(Next1) # NoName
  /\ LET out == Destination(Next1)
         in == IF job.mode = preproc THEN Next1.preproc ELSE Next1.compile
         there == IF out \in DOMAIN fs /\ (out = Stdout \/ moved > 0) THEN fs[out] ELSE <<>>
         read == IF in = out THEN there ELSE fs[in]
     IN \/ /\ fs' = IF job.noop THEN fs ELSE Write(fs, out, there \o read)
           /\ moved' = moved + 1 /\ UNCHANGED <<pc, status>>
        \/ /\ ~job.noop
           /\ fs' = Write(fs, out, Append(there, Partial))
           /\ \/ Exit(1) /\ UNCHANGED moved
              \/ out = Stdout /\ moved' = moved + 1 /\ UNCHANGED <<pc, status>>
  /\ UNCHANGED <<job, files, running, old, removes>>

\* rename_or_move(): copied by a shell, whose failure removes the new file.
rename_or_move ==
  /\ pc = "rename" /\ moved < Len(files)
  /\ job.mode # preproc
  /\ Destination(Next1) \notin {NoName, Stdout, Next1.out}
  /\ Start("cat", Next1.out, Destination(Next1), "rename")
  /\ moved' = moved + 1
  /\ UNCHANGED <<job, files, old, removes, status>>

(***************************************************************************)
(* The end: main() returns or exit() was called, and unlink_files() runs.  *)
(***************************************************************************)
Return == pc = "end" /\ Exit(0) /\ UNCHANGED <<job, files, running, moved, fs, old, removes>>

\* The files are removed one by one; in which order shows nowhere.
unlink_files ==
  /\ pc = "exit"
  /\ IF removes = {} THEN pc' = "done" /\ UNCHANGED <<fs, removes>>
     ELSE LET n == CHOOSE n \in removes : TRUE
          IN fs' = Without(fs, {n}) /\ removes' = removes \ {n} /\ UNCHANGED pc
  /\ UNCHANGED <<job, files, running, moved, old, status>>

\* The driver installs no handler: a signal ends it where it is.
Killed ==
  /\ pc \notin {"done", "killed"}
  /\ pc' = "killed" /\ status' = 128
  /\ UNCHANGED <<job, files, running, moved, fs, old, removes>>

Done == pc \in {"done", "killed"} /\ UNCHANGED vars

Text(input, n) == [kind |-> Kind(input), from |-> n, asm |-> FALSE]

\* The inputs hold the text they are taken for; what an earlier run left at
\* the places of the results may be there as well.
Init ==
  \E argv \in CommandLines, sys \in Targets :
    /\ job = main(argv, sys)
    /\ files = <<>> /\ running = NoTool /\ moved = 0 /\ removes = {}
    /\ pc = "start" /\ status = -1
    /\ LET in == {Name(job.inputs[n]) : n \in 1..Len(job.inputs)}
       IN \E stale \in {{}, Stale} :
            fs = Over([f \in in |-> LET n == CHOOSE k \in 1..Len(job.inputs) : Name(job.inputs[k]) = f
                                    IN <<Text(job.inputs[n], n)>>],
                      [f \in stale |-> <<[kind |-> "old", from |-> 0, asm |-> FALSE]>>])
    /\ old = fs

Step ==
  \/ Begin \/ create_file \/ RunCpp \/ RunCc1 \/ RunAs \/ Translated \/ link_all \/ PostLink
  \/ ToolOk \/ ToolFailed \/ ToolMissing
  \/ NextFile \/ cat_fnames \/ rename_or_move \/ Return \/ unlink_files

Next == Step \/ Killed \/ Done

\* The driver is never stopped for good, and wait() returns in the end.
Spec == Init /\ [][Next]_vars /\ WF_vars(Step)

(***************************************************************************)
(* Properties.                                                             *)
(***************************************************************************)
\* Where the result of input number n is to be found.
Place(n) ==
  IF job.output = "none" THEN IF job.mode = preproc THEN Stdout ELSE expected_filename(Name(job.inputs[n]), job.mode)
  ELSE IF job.output = "-" /\ job.mode = compile THEN Stdout ELSE OutName(job.output)

\* The stages an input goes through before the mode stops it, and the names
\* -save-temps gives to what they make.
Through(n) == {m \in ToSet(Stages(Kind(job.inputs[n]))) : m <= job.mode}
Saved(n) == IF job.save_temps THEN {expected_filename(Name(job.inputs[n]), m) : m \in Through(n)} ELSE {}

\* The names the command line itself tells the driver to write to: those of the
\* results, of what -save-temps keeps and of the dependency file.
AskedFor ==
  IF job.dead \/ job.dumpmachine THEN {}
  ELSE ({DepName} \cup (UNION {Saved(n) : n \in 1..Len(job.inputs)})
        \cup (IF job.mode = link THEN {OutName(job.output)}
              ELSE {Place(n) : n \in {k \in 1..Len(job.inputs) : Through(k) # {}}})) \ {NoName, Stdout}

\* Whatever fails, and whenever, the driver changes and leaves nothing but its
\* results: no input is changed or removed, but where a result, the dependency
\* file or, with -save-temps, a stage the mode goes through has its name, and
\* when it has ended by itself no temporary file is left, not after a tool
\* failed, was killed or missing, nor without room for more.
OnlyResultsLeft ==
  /\ \A n \in DOMAIN old : n \notin AskedFor => n \in DOMAIN fs /\ fs[n] = old[n]
  /\ pc = "done" => \A n \in DOMAIN fs : ~Temporary(n)

\* What an input of a kind is to become in a mode: the kind of the result,
\* or "unused".
WantedKind(kind, mode) ==
  CASE mode = preproc -> IF kind = "c" THEN "i" ELSE IF kind = "S" THEN "s" ELSE "unused"
    [] mode = compile -> IF kind \in {"c", "i"} THEN "s" ELSE "unused"
    [] mode = assemb -> IF kind # "o" THEN "o" ELSE "unused"
    [] mode = link -> "o"

\* The pieces inputs are to become, in the order of the command line.
Wanted(inputs) ==
  LET Piece(n) == [kind |-> WantedKind(Kind(job.inputs[n]), job.mode), from |-> n]
      used == {n \in inputs : Piece(n).kind # "unused"}
      order == SetToSortSeq(used, LAMBDA a, b : a < b)
  IN [k \in 1..Len(order) |-> Piece(order[k])]

\* The pieces a file holds.
Holds(n) == IF n \in DOMAIN fs THEN [k \in 1..Len(fs[n]) |-> [kind |-> fs[n][k].kind, from |-> fs[n][k].from]] ELSE <<>>

\* Known departures: assembler files under -S, an unused input in front of
\* -E -o, one -o for the results of several -emit or -fsyntax-only.
Departs ==
  \/ job.mode = compile /\ \E i \in ToSet(job.inputs) : Kind(i) = "S"
  \/ job.mode = preproc /\ job.output # "none" /\ WantedKind(Kind(job.inputs[1]), preproc) = "unused"
  \/ job.mode = compile /\ job.output \notin {"none", "-"} /\ Len(job.inputs) > 1

\* Two inputs after which the same name is made, or one after which the name of
\* the other is, while that is still to be read.
Collide ==
  \E j, k \in 1..Len(job.inputs) :
    /\ j # k
    /\ \/ Saved(j) \cap ({Name(job.inputs[k])} \cup Saved(k)) # {}
       \/ /\ job.output = "none" /\ job.mode \in {compile, assemb}
          /\ Through(j) # {} /\ Through(k) # {} /\ Place(j) = Place(k)

\* A tool, or the driver, is told to write what it reads: with -save-temps a
\* stage's file has the name of the input or -E -o that of what cpp makes, and
\* -o that of an object.
OntoItself ==
  \E n \in 1..Len(job.inputs) :
    \/ Name(job.inputs[n]) \in Saved(n)
    \/ /\ job.mode \in {preproc, link}
       /\ Place(n) \in Saved(n) \cup (IF Kind(job.inputs[n]) = "o" THEN {Name(job.inputs[n])} ELSE {})

\* The dependency file is written over an input or over what -save-temps keeps.
DepsOver == \E n \in 1..Len(job.inputs) : DepName \in {Name(job.inputs[n])} \cup Saved(n)

\* Not all of the text has reached the standard output.
Truncated(n) == n = Stdout /\ Partial \in ToSet(fs[n])

\* Status 0 means that every result is in its place, made from its own
\* inputs by every stage it needs, complete, and in the order given.
SuccessIsComplete ==
  pc = "done" /\ status = 0 /\ ~job.noop /\ ~job.dumpmachine /\ ~(Departs \/ Collide \/ OntoItself \/ DepsOver) =>
    \A n \in 1..Len(job.inputs) :
      LET sharing == {k \in 1..Len(job.inputs) : Place(k) = Place(n)}
      IN WantedKind(Kind(job.inputs[n]), job.mode) # "unused" => Holds(Place(n)) = Wanted(sharing) \/ Truncated(Place(n))

\* A failure leaves no truncated result behind for make to find newer than
\* its source; only what the driver itself copies for -E and -S -o-, and what
\* cpp writes besides its output, may stop in the middle, and of that only the
\* standard output without a failure being told.
FailureIsClean ==
  pc = "done" => \A n \in DOMAIN fs : (\E k \in 1..Len(fs[n]) : fs[n][k] = Partial) =>
                   n = Stdout \/ (status # 0 /\ (n = DepName \/ (job.mode = preproc /\ n = OutName(job.output))))

\* The last value a tool is given of an option, but for some.
Final(t, o, but) ==
  LET at == {k \in 1..Len(job.args[t]) : job.args[t][k].o = o /\ job.args[t][k].v \notin but}
  IN IF at = {} THEN "unset" ELSE job.args[t][CHOOSE k \in at : \A j \in at : j <= k].v

Pie == {"pie", "PIE"}

\* -fpie with -fpic behind it: cc1 forgets the first, cpp does not.
StalePie == Final(compile, "-fpic", {}) \in PlainPic /\ Final(compile, "-fpic", PlainPic) \in Pie

\* -pg: the one start-up file for profiling is that of a program that is not a pie.
ProfiledPie == job.profile /\ job.pie # "off"

\* What the tools are told.  Target defaults come before the user's options
\* ("-fsigned-char still takes effect, so target defaults don't override based
\* on position"); cpp's macros tell the program what cc1 was told to do: of
\* each option for both, the last one cpp was given is the last one cc1 was
\* given, and __PIE__ is defined when the program is compiled for one, but for
\* -fpie with -fpic behind it; and the objects lie between the start-up files,
\* of the kind that fits the program unless it is profiled, and the libraries
\* ("crt, user files, then stdlib"), with a dynamic linker where one is needed.
ToolsAgree ==
  /\ \A t \in Tools : \A j, k \in 1..Len(job.args[t]) :
       j < k /\ job.args[t][j].who = "user" => job.args[t][k].who = "user"
  /\ \A o \in Spanning \cup {"-fstack-protector", "-fstack-protector-all"} :
       Final(preproc, o, {}) = Final(compile, o, {})
  /\ StalePie \/ (Final(preproc, "__PIE__", {}) \in Pie <=> Final(compile, "-fpic", {}) \in Pie)
  /\ \A sys \in Systems :
       LET l == links(job, sys)
           At(x) == {k \in 1..Len(l) : l[k] = x}
       IN /\ \A o \in At("obj") : \A k \in 1..Len(l) :
               /\ l[k] \in {"gcrt1", "crt1", "Scrt1", "rcrt1", "crti", "crtbegin"} => k < o
               /\ l[k] \in {"-lc", "-lSystem", "-lgcrt1.o", "-l", "crtend", "crtn"} => k > o
          /\ sys = "linux" /\ job.startfiles /\ ~ProfiledPie =>
               (At("-pie") # {} <=> At("Scrt1") \cup At("rcrt1") # {})
          /\ sys = "linux" => (At("-dynamic-linker") # {} <=> At("-static") \cup At("-shared") = {})
          /\ Cardinality(At("-dynamic-linker") \cup At("-no-dynamic-linker")) <= 1

\* Unless it is killed, the driver comes to an end with its files removed.
Ends == <>(pc \in {"done", "killed"})

\* What make sees: the files that are neither temporary nor written besides
\* the results, the dependency file and, with -save-temps, the stages.
Visible == IF job.save_temps THEN <<>> ELSE [n \in {m \in DOMAIN fs : ~Temporary(m) /\ m # DepName} |-> fs[n]]

Phase ==
  IF status # -1 THEN "over"
  ELSE IF pc \in {"link", "rename", "post_link", "end"} \/ (pc = "wait" /\ running.tool \in {"ld", "sh", "cat"})
  THEN "publishing" ELSE "translating"

\* The inputs a result is wanted of that is not complete yet: what was made
\* of one is not the text, of the kind the mode asks for, that it stands for.
\* Where the files of the stages get into each other's way nothing is promised.
Pending ==
  IF job.dead \/ job.noop \/ job.dumpmachine \/ status # -1 \/ (job.save_temps /\ (Collide \/ OntoItself)) \/ DepsOver THEN {}
  ELSE {n \in 1..Len(job.inputs) : /\ WantedKind(Kind(job.inputs[n]), job.mode) # "unused"
                                   /\ n > Index \/ Holds(files[n].out) # Wanted({n})}

Promise == INSTANCE Toolchain WITH
  phase <- Phase, pending <- Pending, visible <- Visible,
  status <- IF status = -1 THEN "running" ELSE IF status = 0 THEN "success" ELSE "failure"

\* The driver keeps its promise to its caller: nothing visible changes before
\* every input is translated, and success comes after everything else but the
\* removal of temporary files.
KeepsPromise == Promise!Spec
=============================================================================

------------------------------ MODULE CppMacro ------------------------------
(***************************************************************************)
(* Macro expansion: eval.c, with macro.c, snapshot.c, str.c and            *)
(* tokenise.c of the preprocessor.                                         *)
(*                                                                         *)
(* eval_expand_macros() walks a line with a pointer and, when it meets the *)
(* name of a macro, replaces the text in place, expands the WHOLE line     *)
(* again from its beginning with the macro painted blue, and carries on    *)
(* from an offset it computed before that second expansion.  The arguments *)
(* of a function-like macro are expanded by the same function.  The        *)
(* recursion is made explicit here: "frames" is the stack of calls of      *)
(* eval_expand_macros(), the last one running, and a frame also holds what *)
(* its eval_macro() is doing.  The counters "blue" and "use_cnt" of each   *)
(* macro are shared by all the calls.                                      *)
(*                                                                         *)
(* A line is a sequence of characters, because the code works with offsets *)
(* into the text; words are short, and one character stands for every      *)
(* character that has no meaning to the preprocessor.                      *)
(***************************************************************************)
EXTENDS Integers, Sequences, FiniteSets, SequencesExt, FiniteSetsExt, Functions

CONSTANTS Letter,     \* the characters that make up words
          Inputs,     \* [table |-> a macro table, line |-> a text]
          MaxLine     \* a line that grows past this is given up

Open == "("
Close == ")"
Comma == ","
Space == " "
Quote == "'"          \* a double quote; ' is like it, but not in tokenise()
Escaped == "\\'"      \* a quote after a backslash, as str_quote() writes it
Wide == "L"           \* the letter that may prefix a string
VA_ARGS == <<"V">>    \* __VA_ARGS__

VARIABLES table,      \* macro_find(): name -> [type, args, val]
          use_cnt,    \* macro.use_cnt: only ever compared, between snapshots
          blue,       \* macro.blue, for each name
          frames,     \* the calls of eval_expand_macros(), innermost last
          outcome,    \* "running", or how the expansion ended
          source,     \* the line as it was given
          result      \* the expanded line

input == <<table, source>>
vars == <<table, use_cnt, blue, frames, outcome, source, result>>

Names == DOMAIN table

-----------------------------------------------------------------------------
(* str.c: words, parentheses and spaces in a line; 0 is NULL.              *)

IsWordPart(s, i) == i <= Len(s) /\ s[i] \in Letter
At(s, i) == IF i <= Len(s) THEN s[i] ELSE "\\0"
Least(S) == IF S = {} THEN 0 ELSE Min(S)

\* word_find_any(): the next letter outside quotes.  An unclosed quote hides
\* the rest of the line.
word_find_any(s, i) ==
  Least({j \in i..Len(s) :
           /\ IsWordPart(s, j)
           /\ Cardinality({k \in i..j-1 : s[k] = Quote}) % 2 = 0})

word_end(s, i) == Least({j \in i..Len(s) + 1 : ~IsWordPart(s, j)})
str_spc_skip(s, i) == Least({j \in i..Len(s) + 1 : At(s, j) # Space})
str_quotefin2(s, i) == Least({j \in i..Len(s) : s[j] = Quote})

\* strchr_nest(): the parenthesis that closes the one at i; quotes are not
\* looked at.
Nesting(s, i, j) ==
  Cardinality({k \in i..j : s[k] = Open}) - Cardinality({k \in i..j : s[k] = Close})
strchr_nest(s, i) == Least({j \in i..Len(s) : Nesting(s, i, j) = 0})

str_quote(s) ==
  <<Quote>> \o [i \in DOMAIN s |-> IF s[i] = Quote THEN Escaped ELSE s[i]] \o <<Quote>>

\* tokenise(), tokens_join_n() and str_trim() of an argument: spaces become
\* one, the ones in front are dropped; the loop that would drop the ones
\* behind starts at the terminator and stops there.
Kth(S, k) == CHOOSE x \in S : Cardinality({y \in S : y <= x}) = k
Subsequence(s, S) == [n \in 1..Cardinality(S) |-> s[Kth(S, n)]]
Tidy(s) == Subsequence(s, {i \in DOMAIN s : s[i] # Space \/ (i > 1 /\ s[i-1] # Space)})

\* split_func_args(): at the commas outside parentheses and strings.
Commas(s) ==
  {i \in DOMAIN s : /\ s[i] = Comma
                    /\ Nesting(s, 1, i) = 0
                    /\ Cardinality({k \in 1..i : s[k] = Quote}) % 2 = 0}
Cut(s, edges) ==
  [k \in 1..Cardinality(edges) - 1 |->
     Tidy(SubSeq(s, Kth(edges, k) + 1, Kth(edges, k + 1) - 1))]
split_func_args(s) ==
  IF s = <<>> THEN <<>> ELSE Cut(s, Commas(s) \cup {0, Len(s) + 1})

-----------------------------------------------------------------------------
(* eval_func_macro(): what each token of the replacement list becomes.     *)

IsParam(m, w) == w = VA_ARGS \/ w \in Range(m.args)

\* find_arg(): the unexpanded argument, the arguments past the named ones
\* for __VA_ARGS__, or the word itself.
str_join(strs) ==
  FoldLeft(LAMBDA acc, i : acc \o (IF i > 1 THEN <<Comma, Space>> ELSE <<>>) \o strs[i],
           <<>>, [i \in DOMAIN strs |-> i])
find_arg(m, w, args) ==
  IF w = VA_ARGS
  THEN str_join(SubSeq(args, Len(m.args) + 1, Len(args)))
  ELSE IF w \in Range(m.args)
  THEN args[CHOOSE i \in DOMAIN m.args : m.args[i] = w]
  ELSE w

Append2(text, tok, s) ==
  IF text # <<>> /\ tok.ws THEN text \o <<Space>> \o s ELSE text \o s

\* The argument count, with the empty argument of a one-parameter macro.
Given(m, args) ==
  IF Len(args) = 0 /\ Len(m.args) = 1 /\ m.type # "BUILTIN" THEN <<<<>>>> ELSE args
CountOK(m, args) ==
  CASE m.type = "VARIADIC" -> Len(args) >= Len(m.args)
    [] m.type = "BUILTIN" -> Len(args) = 1
    [] OTHER -> Len(args) = Len(m.args)

\* has_func(): __has_feature() and its like know the arguments of their entry.
has_func(m, arg) == IF arg \in Range(m.args) THEN <<"1">> ELSE <<"0">>

IsTok(m, i, t) == i <= Len(m.val) /\ m.val[i].tok = t
\* The last token of the chain of ## that starts at i.
LastJoin(m, i) ==
  Max({j \in i..Len(m.val) + 1 :
         (j - i) % 2 = 0 /\ \A k \in i..j-1 : (k - i) % 2 = 1 => IsTok(m, k, "##")})
JoinsWords(m, i) ==
  \A k \in i..LastJoin(m, i) : (k - i) % 2 = 0 => IsTok(m, k, "word")
Joined(m, i, args) ==
  FoldLeft(LAMBDA acc, k : acc \o find_arg(m, m.val[k].w, args), <<>>,
           [n \in 1..((LastJoin(m, i) - i) \div 2) + 1 |-> i + 2 * (n - 1)])

-----------------------------------------------------------------------------
(* Frames.                                                                 *)

Unused == [n \in Names |-> 0]
Fresh(line) ==
  [line |-> line, at |-> 1, stage |-> "scan", m |-> <<>>, word |-> 0, close |-> 0,
   pre |-> Unused, argpre |-> Unused, painted |-> {},
   args |-> <<>>, ti |-> 0, text |-> <<>>, resume |-> 0]

Top == frames[Len(frames)]
Caller == frames[Len(frames) - 1]
SetTop(f) == frames' = [frames EXCEPT ![Len(frames)] = f]
PushTop(f, g) == frames' = Append([frames EXCEPT ![Len(frames)] = f], g)
PopTo(f) == frames' = Append(SubSeq(frames, 1, Len(frames) - 2), f)
Stop(why) == outcome' = why /\ UNCHANGED <<input, use_cnt, blue, frames, result>>

\* The next word of a frame's line: from `first' up to `after'; first is 0
\* when there is none.
WordFrom(line, first) ==
  [first |-> first, after |-> word_end(line, first),
   name |-> SubSeq(line, first, word_end(line, first) - 1)]
NextWord(f) ==
  IF f.stage = "scan" /\ f.at <= Len(f.line) /\ word_find_any(f.line, f.at) # 0
  THEN WordFrom(f.line, word_find_any(f.line, f.at))
  ELSE [first |-> 0, after |-> 0, name |-> <<>>]

\* The end of the loop's body, then line++, unless the line has ended.
Advance(line, i) == IF i <= Len(line) THEN i + 1 ELSE i

\* A possible bug: the walk goes on at the offset itself.
Resume_Here(line, i) == [Fresh(line) EXCEPT !.at = i]
\* What follows eval_macro(): the assertion that a quote here is closed, and
\* then the loop goes on one character further (the end of the string that
\* was found is not used).
Resume(line, i) == [Fresh(line) EXCEPT !.at = Advance(line, i)]
QuoteUnclosed(line, i) == At(line, i) = Quote /\ str_quotefin2(line, i + 1) = 0

-----------------------------------------------------------------------------
(* eval_expand_macros(): one word w of the line of the running call f.     *)

IsWide(f, w) == w.name = <<Wide>> /\ At(f.line, w.after) = Quote
Looks(f, w) == f.stage = "scan" /\ w.first # 0
IsMacro(f, w) == Looks(f, w) /\ ~IsWide(f, w) /\ w.name \in Names

SkipWord(f, w) ==
  /\ Looks(f, w) /\ ~IsMacro(f, w)
  /\ SetTop([f EXCEPT !.at = Advance(f.line, w.after)])
  /\ UNCHANGED <<input, use_cnt, blue, outcome, result>>

\* eval_macro() of a macro that is blue.
SkipBlue(f, w) ==
  /\ IsMacro(f, w) /\ blue[w.name] > 0
  /\ IF QuoteUnclosed(f.line, w.after)
     THEN Stop("ice")
     ELSE /\ SetTop(Resume(f.line, w.after))
          /\ UNCHANGED <<input, use_cnt, blue, outcome, result>>

-----------------------------------------------------------------------------
(* eval_macro(), eval_macro_double_eval() and eval_macro_r().              *)

FuncLike == {"FUNC", "VARIADIC", "HAS", "BUILTIN"}
Evaluates(f, w, types) ==
  /\ IsMacro(f, w) /\ blue[w.name] = 0 /\ table[w.name].type \in types
Paren(f, w) == str_spc_skip(f.line, w.after)
Called(f, w) == At(f.line, Paren(f, w)) = Open
CloseB(f, w) == strchr_nest(f.line, Paren(f, w))

Paint(S, by, b) == [n \in Names |-> b[n] + IF n \in S THEN by ELSE 0]
Used(w) == Paint({w.name}, 1, use_cnt)
Blued(w) == Paint({w.name}, 1, blue)
\* eval_macro() has counted the use, painted the macro and taken the snapshot.
Entered(f, w) == [f EXCEPT !.m = w.name, !.word = w.first, !.pre = Used(w)]

\* The line has been rewritten: the macros used since the snapshot are
\* painted, and the whole line is expanded again.  The walk will go on from
\* `from'.
DoubleEval(f, line, from, used, painted) ==
  IF Len(line) > MaxLine
  THEN Stop("grown")
  ELSE \E changed \in {{n \in Names : used[n] # f.pre[n]}} :
         /\ use_cnt' = used
         /\ blue' = Paint(changed, 1, painted)
         /\ PushTop([f EXCEPT !.stage = "rescan", !.painted = changed, !.resume = from,
                              !.args = <<>>, !.text = <<>>, !.ti = 0],
                    Fresh(line))
         /\ UNCHANGED <<input, outcome, result>>

\* word_replace() and str_replace().
Replaced(line, i, j, s) == SubSeq(line, 1, i - 1) \o s \o SubSeq(line, j, Len(line))

\* An object-like macro, __FILE__ and its like included.
EvalObject(f, w) ==
  /\ Evaluates(f, w, {"MACRO"})
  /\ DoubleEval(Entered(f, w), Replaced(f.line, w.first, w.after, table[w.name].val),
                w.first + Len(table[w.name].val), Used(w), Blued(w))

\* A function-like macro without a "(": nothing is replaced, the use is
\* taken back, and so the macro is painted once more.
NotInvoked(f, w) ==
  /\ Evaluates(f, w, FuncLike) /\ ~Called(f, w)
  /\ DoubleEval(Entered(f, w), f.line, w.first, use_cnt, Blued(w))

\* __has_include() outside of #if: left as it is.
HasInclude(f, w) ==
  /\ Evaluates(f, w, {"HAS"}) /\ Called(f, w) /\ CloseB(f, w) # 0
  /\ DoubleEval(Entered(f, w), f.line, w.first, Used(w), Blued(w))

ArgText(f, w) == SubSeq(f.line, Paren(f, w) + 1, CloseB(f, w) - 1)
CallArgs(f, w) == Given(table[w.name], split_func_args(ArgText(f, w)))
\* The assertion of tokenise() that a string in the arguments is closed.
StringCut(s) == Cardinality({i \in DOMAIN s : s[i] = Quote}) % 2 = 1

\* eval_func_macro(): the arguments are counted, and the walk of the
\* replacement list begins.  The macro is blue from here on.
EvalCall(f, w) ==
  /\ Evaluates(f, w, {"FUNC", "VARIADIC"}) /\ Called(f, w) /\ CloseB(f, w) # 0
  /\ ~StringCut(ArgText(f, w)) /\ CountOK(table[w.name], CallArgs(f, w))
  /\ SetTop([Entered(f, w) EXCEPT !.stage = "subst", !.close = CloseB(f, w),
                                  !.args = CallArgs(f, w), !.ti = 1])
  /\ use_cnt' = Used(w) /\ blue' = Blued(w)
  /\ UNCHANGED <<input, outcome, result>>

\* A macro without a replacement list: its argument is not expanded.
EvalBuiltin(f, w) ==
  /\ Evaluates(f, w, {"BUILTIN"}) /\ Called(f, w) /\ CloseB(f, w) # 0
  /\ ~StringCut(ArgText(f, w)) /\ CountOK(table[w.name], CallArgs(f, w))
  /\ \E s \in {has_func(table[w.name], CallArgs(f, w)[1])} :
       DoubleEval(Entered(f, w), Replaced(f.line, w.first, CloseB(f, w) + 1, s),
                  w.first + Len(s), Used(w), Blued(w))

\* CPP_DIE: no closing parenthesis, or the wrong number of arguments.
CallDies(f, w) ==
  /\ Evaluates(f, w, FuncLike) /\ Called(f, w)
  /\ \/ CloseB(f, w) = 0
     \/ /\ table[w.name].type # "HAS"
        /\ StringCut(ArgText(f, w)) \/ ~CountOK(table[w.name], CallArgs(f, w))
  /\ Stop(IF CloseB(f, w) # 0 /\ StringCut(ArgText(f, w)) THEN "ice" ELSE "die")

-----------------------------------------------------------------------------
(* eval_func_macro(): one token of the replacement list of f's macro.      *)

Macro(f) == table[f.m]
Tok(f, k, t) == f.stage = "subst" /\ IsTok(Macro(f), f.ti + k, t)
WordAt(f, k) == Macro(f).val[f.ti + k].w
ParamAt(f, k) == Tok(f, k, "word") /\ IsParam(Macro(f), WordAt(f, k))
ArgAt(f, k) == find_arg(Macro(f), WordAt(f, k), f.args)
Appended(f, s, n) ==
  [f EXCEPT !.stage = "subst", !.ti = @ + n,
            !.text = Append2(@, Macro(f).val[f.ti], s)]
Take(f, s, n) == SetTop(Appended(f, s, n)) /\ UNCHANGED <<input, use_cnt, blue, outcome, result>>

\* #param: the quoted, unexpanded argument.
SubstQuote(f) ==
  /\ Tok(f, 0, "#")
  /\ IF ParamAt(f, 1) THEN Take(f, str_quote(ArgAt(f, 1)), 2) ELSE Stop("die")

\* word ## word ## ...: none of them is expanded.
SubstJoin(f) ==
  /\ Tok(f, 0, "word") /\ Tok(f, 1, "##")
  /\ IF JoinsWords(Macro(f), f.ti)
     THEN Take(f, Joined(Macro(f), f.ti, f.args), LastJoin(Macro(f), f.ti) - f.ti + 1)
     ELSE Stop("die")

SubstJoinDies(f) == Tok(f, 0, "##") /\ Stop("die")

SubstCopy(f) ==
  /\ Tok(f, 0, "other") \/ (Tok(f, 0, "word") /\ ~Tok(f, 1, "##") /\ ~ParamAt(f, 0))
  /\ Take(f, WordAt(f, 0), 1)

\* A parameter: its argument is expanded on its own, between two snapshots.
SubstArg(f) ==
  /\ ParamAt(f, 0) /\ ~Tok(f, 1, "##")
  /\ PushTop([f EXCEPT !.stage = "arg", !.argpre = use_cnt], Fresh(ArgAt(f, 0)))
  /\ UNCHANGED <<input, use_cnt, blue, outcome, result>>

\* The call is replaced, and the line expanded again.
SubstDone(f) ==
  /\ f.stage = "subst" /\ f.ti > Len(Macro(f).val)
  /\ DoubleEval(f, Replaced(f.line, f.word, f.close + 1, f.text), f.word + Len(f.text),
                use_cnt, blue)

-----------------------------------------------------------------------------
(* The end of a call of eval_expand_macros().                              *)

Ended(f, w) == f.stage = "scan" /\ w.first = 0

ReturnLine(f, w) ==
  /\ Ended(f, w) /\ Len(frames) = 1
  /\ outcome' = "done" /\ result' = f.line
  /\ UNCHANGED <<input, use_cnt, blue, frames>>

\* Back in eval_macro_double_eval() and eval_macro(): the walk goes on in the
\* new line, at the offset that was right for the old one.  Past the line's
\* terminator nothing says what it would read.
\* A possible bug: no snapshot_unblue_used().
Unpainted_OnlyOwn(f) == Paint({f.m}, -1, blue)
Unpainted(f) == Paint(f.painted, -1, Paint({f.m}, -1, blue))

ReturnRescan(f, w) ==
  /\ Ended(f, w) /\ Len(frames) > 1 /\ Caller.stage = "rescan"
  /\ IF Caller.resume > Len(f.line) + 1 THEN Stop("wild")
     ELSE IF QuoteUnclosed(f.line, Caller.resume) THEN Stop("ice")
     ELSE /\ blue' = Unpainted(Caller)
          /\ PopTo(Resume(f.line, Caller.resume))
          /\ UNCHANGED <<input, use_cnt, outcome, result>>

\* A possible bug: no snapshot_restore_used(), so that the macros used in an argument
\* are painted for the second expansion.
ReturnArg_KeepsUses(f, w) ==
  /\ Ended(f, w) /\ Len(frames) > 1 /\ Caller.stage = "arg"
  /\ PopTo(Appended(Caller, f.line, 1))
  /\ UNCHANGED <<input, use_cnt, blue, outcome, result>>
\* Back in eval_func_macro(): snapshot_restore_used().
ReturnArg(f, w) ==
  /\ Ended(f, w) /\ Len(frames) > 1 /\ Caller.stage = "arg"
  /\ use_cnt' = Caller.argpre
  /\ PopTo(Appended(Caller, f.line, 1))
  /\ UNCHANGED <<input, blue, outcome, result>>

-----------------------------------------------------------------------------
Init ==
  \E i \in Inputs :
    /\ table = i.table /\ source = i.line
    /\ use_cnt = Unused
    /\ blue = Unused
    /\ frames = <<Fresh(i.line)>>
    /\ outcome = "running"
    /\ result = <<>>

Step(f, w) ==
  \/ SkipWord(f, w) \/ SkipBlue(f, w)
  \/ EvalObject(f, w) \/ NotInvoked(f, w) \/ HasInclude(f, w)
  \/ EvalCall(f, w) \/ EvalBuiltin(f, w) \/ CallDies(f, w)
  \/ SubstQuote(f) \/ SubstJoin(f) \/ SubstJoinDies(f) \/ SubstCopy(f)
  \/ SubstArg(f) \/ SubstDone(f)
  \/ ReturnLine(f, w) \/ ReturnRescan(f, w) \/ ReturnArg(f, w)

Stopped == outcome # "running" /\ UNCHANGED vars

Next ==
  \/ outcome = "running" /\ \E f \in {Top}, w \in {NextWord(Top)} : Step(f, w)
  \/ Stopped

\* A sequential program that has not stopped takes its next step.  This is
\* WF_vars(Next): while the program runs Next is enabled (TLC looks for a
\* deadlock), and a step of it changes vars.
Spec == Init /\ [][Next]_vars /\ ([]<>(outcome # "running") \/ []<><<Next>>_vars)

-----------------------------------------------------------------------------
(* Properties.                                                             *)

\* blue counts exactly the evaluations in progress: one for each frame that
\* evaluates the macro, one more for each that painted it.  Nothing stays
\* painted when the line is done.
BlueIsInProgress ==
  \A n \in Names :
    blue[n] = Cardinality({i \in DOMAIN frames : frames[i].stage # "scan" /\ frames[i].m = n})
              + Cardinality({i \in DOMAIN frames : n \in frames[i].painted})

=============================================================================

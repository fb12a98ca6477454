------------------------------- MODULE Preproc -------------------------------
(***************************************************************************)
(* The preprocessor's main loop (src/src/cpp2/preproc.c), its directives      *)
(* (directive.c) and its include search (include.c), with cc1 reading the     *)
(* output (LineMarkers). A file's text is whatever comes: every line that is  *)
(* read may be any kind of directive or text, in any layout of comments, and  *)
(* a file may end after any line.                                             *)
(*                                                                         *)
(* pos is the truth the line numbers are compared with: for each open file,   *)
(* its path and the name and number (#line included) of its next line.        *)
(***************************************************************************)
EXTENDS CppIf, LineMarkers, SequencesExt

CONSTANTS
  N_FILES,              \* file_stack[] holds this many files
  Macros,               \* the names #define, #undef and #ifdef may be about
  Main,                 \* the path of the file given to cpp: <<directory, name>>
  Tree,                 \* the paths that exist
  Includes,             \* what #include may ask for: <<"", name>> or an absolute path
  IncludeDirs, SystemDirs,      \* -I and -isystem, in order
  MissingHeaderError,   \* FALSE with -MG
  LineDirectives,       \* the [n, fname] a #line may give
  StripComments,        \* STRIP_ALL, or STRIP_EXCEPT_DIRECTIVE (-C), or STRIP_NONE (-CC)
  Layouts,              \* how a line may be made of #, comments, quotes and other text
  Kinds,                \* the kinds of directive that may occur
  SpliceKinds,          \* the ones (or "text", or "eof") a backslash-newline may precede
  MaxLines              \* bound: lines read in one run

ASSUME PreprocAssumption ==
  /\ N_FILES \in Nat \ {0}
  /\ MaxLines \in Nat
  /\ Main \in Tree
  /\ Layouts \subseteq Seq(STRING)
  /\ \A l \in LineDirectives : l.n \in Nat

VARIABLES
  macros,               \* the macros that are defined
  file_stack,           \* the open files: [fname, line_no, is_sysh]
  cd_stack,             \* the directory of each
  current_line, current_fname,
  strip_in_block,       \* the block comment the last line ended in, or did not
  n_nls,                \* empty lines owed for the lines that were spliced
  splicing,             \* lines of the logical line being read, read so far
  eof,                  \* the main file ended
  deps,                 \* -MM
  cc,                   \* cc1's reader
  pos, incomment,       \* the true position, and whether it is inside a comment
  stray,                \* some directive was taken for text or the reverse
  nread                 \* lines read, for MaxLines

fileVars == <<file_stack, cd_stack, deps>>
lineVars == <<current_line, current_fname, pos>>
readVars == <<strip_in_block, n_nls, splicing, eof, incomment, stray, nread>>
vars == <<condVars, macros, fileVars, lineVars, readVars, cc>>

-----------------------------------------------------------------------------
(* strip_comment() *)

Full == "IN_BLOCK_FULL"
Begin == "IN_BLOCK_BEGIN"
End == "IN_BLOCK_END"
NotIn == "NOT_IN_BLOCK"

NextLineBlock(blk) == CASE blk = Begin -> Full [] blk = End -> NotIn [] OTHER -> blk

(* A possible bug: quotes are not skipped. *)
IsQuote_Never(item) == FALSE

IsQuote(item) == item = "'"

(* One item of a line; first is the first of what is left after stripping.    *)
(* When an opening is not stripped its * is looked at again, so that /*/ is a   *)
(* whole comment.  The standard is C99 or later (the default): in C89 a // is   *)
(* text like any other.                                                         *)
StripItem(st, item, isDirective) ==
  LET in == st.blk \in {Full, Begin}
      strips == \/ StripComments = "STRIP_ALL"
                \/ StripComments = "STRIP_EXCEPT_DIRECTIVE" /\ isDirective /\ ~in
      left == IF st.first = "" THEN [st EXCEPT !.first = item] ELSE st
      comment == IF strips THEN st ELSE left
  IN CASE st.stopped -> st
       [] ~st.stopped /\ in ->
            IF item = "*/" THEN [comment EXCEPT !.blk = End] ELSE comment
       [] ~st.stopped /\ ~in /\ (st.quoted \/ IsQuote(item)) ->
            [left EXCEPT !.quoted = (st.quoted # IsQuote(item))]
       [] ~st.stopped /\ ~in /\ ~st.quoted /\ item = "//" ->
            [comment EXCEPT !.stopped = TRUE]
       [] ~st.stopped /\ ~in /\ ~st.quoted /\ item \in {"/*", "/*/"} ->
            [comment EXCEPT !.blk = IF item = "/*/" /\ ~strips THEN End ELSE Begin]
       [] OTHER -> left

StripStart == [blk |-> NextLineBlock(strip_in_block), quoted |-> FALSE, stopped |-> FALSE, first |-> ""]

StripStates(layout) ==
  LET st[n \in 0..Len(layout)] ==
        IF n = 0 THEN StripStart ELSE StripItem(st[n - 1], layout[n], Head(layout) = "#")
  IN st

strip_comment(layout) == StripStates(layout)[Len(layout)]

(* filter_macros(): a line that is not all comment and starts with # *)
IsDirective(stripped) == stripped.blk # Full /\ stripped.first = "#"

(* The standard: a comment ends at the first closing, whatever opened it.      *)
TrueItem(st, item) ==
  LET out == ~st.stopped /\ ~st.in
      text == IF st.first = "" THEN [st EXCEPT !.first = item] ELSE st
  IN CASE st.stopped -> st
       [] ~st.stopped /\ st.in -> [st EXCEPT !.in = (item # "*/")]
       [] out /\ (st.quoted \/ item = "'") -> [text EXCEPT !.quoted = (@ # (item = "'"))]
       [] out /\ ~st.quoted /\ item = "//" -> [st EXCEPT !.stopped = TRUE]
       [] out /\ ~st.quoted /\ item \in {"/*", "/*/"} -> [st EXCEPT !.in = TRUE]
       [] OTHER -> text

TrueStart == [in |-> incomment, quoted |-> FALSE, stopped |-> FALSE, first |-> ""]

TrueStates(layout) ==
  LET st[n \in 0..Len(layout)] == IF n = 0 THEN TrueStart ELSE TrueItem(st[n - 1], layout[n])
  IN st

TrueLine(layout) == TrueStates(layout)[Len(layout)]

-----------------------------------------------------------------------------
(* Reading lines. *)

Here == pos[Len(pos)]
Moved(p) == [pos EXCEPT ![Len(pos)] = p]
NextPos == Moved([Here EXCEPT !.line = @ + 1])

Running == status = "run" /\ n_nls = 0 /\ ~eof

(* splice_lines() reading a line that ends in a backslash.                     *)
ReadSpliced ==
  /\ Running
  /\ SpliceKinds # {}
  /\ nread + 1 < MaxLines
  /\ splicing' = splicing + 1
  /\ nread' = nread + 1
  /\ current_line' = current_line + 1
  /\ pos' = NextPos
  /\ UNCHANGED <<condVars, macros, fileVars, current_fname, cc, strip_in_block, n_nls, eof,
                 incomment, stray>>

(* The last line of a logical line is read, unless the main file ended after a *)
(* backslash; the lines spliced into it are owed.                              *)
TakeLine(kind) ==
  /\ Running
  /\ splicing > 0 => kind \in SpliceKinds
  /\ splicing' = 0
  /\ \/ /\ nread < MaxLines
        /\ nread' = nread + 1
        /\ n_nls' = splicing
        /\ UNCHANGED eof
     \/ /\ splicing > 0 /\ Len(file_stack) = 1 /\ "eof" \in SpliceKinds
        /\ eof' = TRUE
        /\ n_nls' = splicing - 1
        /\ UNCHANGED nread

LineNo == IF eof' THEN current_line ELSE current_line + 1
LinePos == IF eof' THEN pos ELSE NextPos

(* What the line's comments come to, and whether it is a directive.           *)
Strip(stripped, true, isDirective) ==
  /\ IsDirective(stripped) = isDirective
  /\ strip_in_block' = stripped.blk
  /\ incomment' = true.in
  /\ stray' = (stray \/ isDirective # (true.first = "#"))

(* A line that is a directive of this kind. *)
DirectiveLine(kind) ==
  /\ kind \in Kinds
  /\ TakeLine(kind)
  /\ \E layout \in Layouts : Strip(strip_comment(layout), TrueLine(layout), TRUE)

PlainPosition == current_line' = LineNo /\ pos' = LinePos /\ UNCHANGED current_fname

(* directive_sync() *)
Synced == cc' = OrdinaryLine(cc)

-----------------------------------------------------------------------------
(* A line of text, or of comment: printed, expanded or emptied, never dropped. *)
TextLine ==
  /\ TakeLine("text")
  /\ \E layout \in Layouts : Strip(strip_comment(layout), TrueLine(layout), FALSE)
  /\ PlainPosition
  /\ cc' = OrdinaryLine(cc)
  /\ UNCHANGED <<condVars, macros, fileVars>>

(* An empty line for a line that was spliced; it is a line to strip_comment(). *)
OwedLine ==
  /\ status = "run" /\ n_nls > 0 /\ ~eof
  /\ n_nls' = n_nls - 1
  /\ strip_in_block' = NextLineBlock(strip_in_block)
  /\ cc' = OrdinaryLine(cc)
  /\ UNCHANGED <<condVars, macros, fileVars, lineVars, splicing, eof, incomment, stray, nread>>

(* The flow-control directives, handled in skipped text too. *)
ConditionalLine(kind) ==
  /\ DirectiveLine(kind)
  /\ Synced /\ PlainPosition
  /\ UNCHANGED <<macros, fileVars>>

Ifdef ==
  /\ ConditionalLine("ifdef")
  /\ \E m \in Macros, rev \in BOOLEAN : handle_somedef(rev # (m \in macros), TRUE)

IfdefMalformed == ConditionalLine("ifdef_malformed") /\ handle_somedef(FALSE, FALSE)

If == ConditionalLine("if") /\ \E c \in {"true", "false", "bad"} : handle_if(c)

Elif == ConditionalLine("elif") /\ \E c \in {"true", "false", "bad"} : handle_elif(c)

Else == ConditionalLine("else") /\ handle_else

Endif == ConditionalLine("endif") /\ handle_endif

(* Any other directive in skipped text; # alone and # followed by punctuation  *)
(* are not even printed as an empty line.                                      *)
SkippedDirective ==
  /\ parse_should_noop
  /\ \E kind \in {"define", "undef", "warning", "error", "pragma", "include", "malformed",
                  "unknown", "null", "nonword"} :
       /\ DirectiveLine(kind)
       /\ IF kind \in {"null", "nonword"} THEN UNCHANGED cc ELSE Synced
  /\ PlainPosition
  /\ UNCHANGED <<condVars, macros, fileVars>>

handle_define ==
  /\ ~parse_should_noop
  /\ DirectiveLine("define")
  /\ \E m \in Macros : macros' = macros \cup {m}
  /\ Synced /\ PlainPosition
  /\ UNCHANGED <<condVars, fileVars>>

handle_undef ==
  /\ ~parse_should_noop
  /\ DirectiveLine("undef")
  /\ \E m \in Macros : macros' = macros \ {m}
  /\ Synced /\ PlainPosition
  /\ UNCHANGED <<condVars, fileVars>>

(* #warning; #pragma, whose own line cc1 does not count; and # alone.         *)
Harmless ==
  /\ ~parse_should_noop
  /\ \E kind \in {"warning", "pragma", "null"} :
       /\ DirectiveLine(kind)
       /\ IF kind = "null" THEN UNCHANGED cc ELSE Synced
  /\ PlainPosition
  /\ UNCHANGED <<condVars, macros, fileVars>>

(* #error, a malformed #define, #undef or #include, an unrecognised directive, *)
(* # followed by punctuation, and in skipped text too a malformed #line.       *)
Fatal ==
  /\ \E kind \in {"error", "malformed", "unknown", "nonword", "bad_line"} :
       DirectiveLine(kind) /\ (kind = "bad_line" \/ ~parse_should_noop)
  /\ Die
  /\ PlainPosition
  /\ UNCHANGED <<macros, fileVars, cc>>

(* A #line that gives no name. *)
NoName == <<"", "">>

(* #line n "fname" and # n "fname", looked for before anything else.          *)
handle_line_directive ==
  /\ DirectiveLine("line")
  /\ \E l \in LineDirectives :
       LET fname == IF l.fname = NoName THEN current_fname ELSE l.fname
           trueName == IF l.fname = NoName THEN Here.name ELSE l.fname
       IN /\ current_fname' = fname
          /\ cc' = Marker(cc, l.n, fname, "none", FALSE)
          /\ current_line' = l.n - 1
          /\ pos' = IF Active(groups)
                    THEN Moved([Here EXCEPT !.line = l.n, !.name = trueName])
                    ELSE LinePos
  /\ UNCHANGED <<condVars, macros, fileVars>>

-----------------------------------------------------------------------------
(* Includes. *)

In(dirs, name) == SelectInSeq(dirs, LAMBDA d : <<d, name>> \in Tree)

NoFile == [path |-> NoName, is_sysh |-> FALSE]

include_fopen(curdir, want, isAngle) ==
  LET name == want[2]
      i == In(IncludeDirs, name)
      s == In(SystemDirs, name)
  IN CASE want[1] # "" ->
            IF want \in Tree THEN [path |-> want, is_sysh |-> FALSE] ELSE NoFile
       [] want[1] = "" /\ ~isAngle /\ <<curdir, name>> \in Tree ->
            [path |-> <<curdir, name>>, is_sysh |-> FALSE]
       [] OTHER -> IF i # 0 THEN [path |-> <<IncludeDirs[i], name>>, is_sysh |-> FALSE]
                   ELSE IF s # 0 THEN [path |-> <<SystemDirs[s], name>>, is_sysh |-> TRUE]
                   ELSE NoFile

(* A possible bug: the line to come back to is not saved.                      *)
preproc_push_NoSave(fs, found) ==
  Append(fs, [fname |-> found.path, line_no |-> 1, is_sysh |-> found.is_sysh])

(* preproc_push() on the stack fs. *)
preproc_push(fs, found) ==
  Append([fs EXCEPT ![Len(fs)].line_no = LineNo],
         [fname |-> found.path, line_no |-> 1, is_sysh |-> found.is_sysh])

(* A possible bug: the directory of the including file is pushed again.        *)
dirname_push_Same(d) == cd_stack' = Append(cd_stack, cd_stack[Len(cd_stack)])

dirname_push(d) == cd_stack' = Append(cd_stack, d)

Enter(found) ==
  /\ file_stack' = preproc_push(file_stack, found)
  /\ dirname_push(found.path[1])
  /\ current_line' = 1
  /\ current_fname' = found.path
  /\ cc' = Marker(OrdinaryLine(cc), 1, found.path, "start", found.is_sysh)
  /\ pos' = Append(LinePos, [path |-> found.path, name |-> found.path, line |-> 1])
  /\ UNCHANGED condVars

handle_include ==
  /\ ~parse_should_noop
  /\ DirectiveLine("include")
  /\ UNCHANGED macros
  /\ \E want \in Includes, isAngle \in BOOLEAN :
       LET found == include_fopen(cd_stack[Len(cd_stack)], want, isAngle)
       IN IF found = NoFile
          THEN /\ IF MissingHeaderError
                  THEN Die /\ UNCHANGED deps
                  ELSE UNCHANGED condVars /\ deps' = deps \cup {want}
               /\ Synced /\ PlainPosition
               /\ UNCHANGED <<file_stack, cd_stack>>
          ELSE /\ deps' = IF isAngle THEN deps ELSE deps \cup {found.path}
               /\ IF Len(file_stack) = N_FILES
                  THEN Die /\ Synced /\ PlainPosition /\ UNCHANGED <<file_stack, cd_stack>>
                  ELSE Enter(found)

RestoreState(back) == current_line' = back.line_no /\ current_fname' = back.fname

(* read_line() at the end of an included file: dirname_pop(), preproc_pop().   *)
EndOfInclude ==
  LET back == file_stack[Len(file_stack) - 1]
  IN /\ Running
     /\ Len(file_stack) > 1
     /\ splicing > 0 => "eof" \in SpliceKinds
     /\ file_stack' = Front(file_stack)
     /\ cd_stack' = Front(cd_stack)
     /\ RestoreState(back)
     /\ cc' = Marker(cc, back.line_no, back.fname, "return", back.is_sysh)
     /\ pos' = Front(pos)
     /\ UNCHANGED <<condVars, macros, readVars, deps>>

(* The main file ends: the loop stops and preprocess() looks for what is open. *)
EndOfInput ==
  /\ status = "run"
  /\ eof \/ (n_nls = 0 /\ splicing = 0 /\ Len(file_stack) = 1)
  /\ EndValidate(strip_in_block \in {Begin, Full})
  /\ UNCHANGED <<macros, fileVars, lineVars, readVars, cc>>

(* exit() *)
Exited == status # "run" /\ UNCHANGED vars

-----------------------------------------------------------------------------
(* main() up to the first read: the main file and its directory are pushed.    *)
Init ==
  /\ CondInit
  /\ macros = {}
  /\ file_stack = <<[fname |-> Main, line_no |-> 1, is_sysh |-> FALSE]>>
  /\ cd_stack = <<Main[1]>>
  /\ current_line = 1
  /\ current_fname = Main
  /\ strip_in_block = NotIn
  /\ n_nls = 0
  /\ splicing = 0
  /\ eof = FALSE
  /\ deps = {}
  /\ cc = Marker(CcInit(Main), 1, Main, "start", FALSE)
  /\ pos = <<[path |-> Main, name |-> Main, line |-> 1]>>
  /\ incomment = FALSE
  /\ stray = FALSE
  /\ nread = 0

Next ==
  \/ TextLine
  \/ ReadSpliced
  \/ OwedLine
  \/ Ifdef
  \/ IfdefMalformed
  \/ If
  \/ Elif
  \/ Else
  \/ Endif
  \/ SkippedDirective
  \/ handle_define
  \/ handle_undef
  \/ Harmless
  \/ Fatal
  \/ handle_line_directive
  \/ handle_include
  \/ EndOfInclude
  \/ EndOfInput
  \/ Exited

Spec == Init /\ [][Next]_vars

-----------------------------------------------------------------------------
(* Properties. *)

TypeOK ==
  /\ CondTypeOK
  /\ macros \subseteq Macros
  /\ Len(file_stack) \in 1..N_FILES /\ Len(cd_stack) = Len(file_stack)
  /\ strip_in_block \in {NotIn, Begin, End, Full}
  /\ n_nls \in 0..MaxLines /\ splicing \in 0..MaxLines /\ nread \in 0..MaxLines
  /\ Len(cc.stack) <= FNAME_STACK_N

(* Between logical lines, the line cpp prints next is read by cc1 under the     *)
(* name and number it has in the source, and messages, __LINE__ and the marker  *)
(* after an include are computed from the same, through directives that print   *)
(* nothing, continued lines, includes and returns.  cc1's name may be wrong     *)
(* from where includes were nested deeper than cc1 records, or in themselves.   *)
OutputInSync ==
  status = "run" /\ splicing = 0 /\ ~eof =>
    /\ cc.line + 1 + n_nls = Here.line /\ (~cc.astray => cc.fname = Here.name)
    /\ current_line = Here.line /\ current_fname = Here.name

(* cc1's stack of "included from here" names is the preprocessor's stack of     *)
(* open files, every return finds its file there though one name may be open    *)
(* several times, and in_sysh is the top one's flag: errors are blamed on the    *)
(* right chain of includes, and warnings are kept for user headers.  The same    *)
(* exceptions.                                                                   *)
BacktraceMatches ==
  ~cc.astray =>
    /\ ~cc.icw
    /\ status = "run" /\ splicing = 0 =>
         /\ [i \in DOMAIN cc.stack |-> cc.stack[i].fnam] = [i \in DOMAIN pos |-> pos[i].name]
         /\ cc.sysh = file_stack[Len(file_stack)].is_sysh

(* A quoted include is looked for next to the file that asks for it, however     *)
(* files were entered and left before.                                           *)
QuotedFromOwnDirectory == status = "run" => cd_stack[Len(cd_stack)] = Here.path[1]

(* Block comments are followed across lines, splices and files: a line is taken  *)
(* for a directive exactly when its first text outside comments is a #.          *)
CommentsNeverAct ==
  /\ ~stray
  /\ status = "run" => (strip_in_block \in {Begin, Full}) = incomment
=============================================================================

---------------------------- MODULE PreprocProofs ----------------------------
(***************************************************************************)
(* The preprocessor handles its conditional directives as CppIf says,        *)
(* whatever files, comments and other directives come between them, so that   *)
(* what is proved of CppIf holds of it.                                       *)
(***************************************************************************)
EXTENDS Preproc, CppIfProofs

LEMMA InitConditional == Init => CondInit
  BY DEF Init

LEMMA ConditionalStep ==
  ASSUME NEW kind, DirectiveLine(kind) PROVE status = "run"
  BY DEF DirectiveLine, TakeLine, Running

(* Every step is a step of CppIf or leaves its state alone.                    *)
LEMMA StepConditional == [Next]_vars => [CondNext]_condVars
<1> SUFFICES ASSUME [Next]_vars PROVE [CondNext]_condVars
  OBVIOUS
<1>1. CASE UNCHANGED vars
  BY <1>1 DEF vars
<1>2. CASE TextLine \/ ReadSpliced \/ OwedLine \/ SkippedDirective \/ handle_define
           \/ handle_undef \/ Harmless \/ handle_line_directive \/ EndOfInclude \/ Exited
  BY <1>2 DEF TextLine, ReadSpliced, OwedLine, SkippedDirective, handle_define,
              handle_undef, Harmless, handle_line_directive, EndOfInclude, Exited, vars
<1>3. CASE Ifdef
  <2>1. status = "run" /\ \E m \in Macros, rev \in BOOLEAN : handle_somedef(rev # (m \in macros), TRUE)
    BY <1>3, ConditionalStep DEF Ifdef, ConditionalLine
  <2>2. PICK m \in Macros, rev \in BOOLEAN : handle_somedef(rev # (m \in macros), TRUE)
    BY <2>1
  <2>3. (rev # (m \in macros)) \in BOOLEAN
    OBVIOUS
  <2> QED BY <2>1, <2>2, <2>3 DEF CondNext
<1>4. CASE IfdefMalformed
  BY <1>4, ConditionalStep DEF IfdefMalformed, ConditionalLine, CondNext
<1>5. CASE If
  BY <1>5, ConditionalStep DEF If, ConditionalLine, CondNext
<1>6. CASE Elif
  BY <1>6, ConditionalStep DEF Elif, ConditionalLine, CondNext
<1>7. CASE Else
  BY <1>7, ConditionalStep DEF Else, ConditionalLine, CondNext
<1>8. CASE Endif
  BY <1>8, ConditionalStep DEF Endif, ConditionalLine, CondNext
<1>9. CASE Fatal
  BY <1>9, ConditionalStep DEF Fatal, CondNext
<1>10. CASE handle_include
  <2>1. status = "run"
    BY <1>10, ConditionalStep DEF handle_include
  <2>2. Die \/ UNCHANGED condVars
    BY <1>10 DEF handle_include, Enter
  <2> QED BY <2>1, <2>2 DEF CondNext
<1>11. CASE EndOfInput
  <2>1. status = "run" /\ EndValidate(strip_in_block \in {Begin, Full})
    BY <1>11 DEF EndOfInput
  <2>2. (strip_in_block \in {Begin, Full}) \in BOOLEAN
    OBVIOUS
  <2> QED BY <2>1, <2>2 DEF CondNext
<1> QED BY <1>1, <1>2, <1>3, <1>4, <1>5, <1>6, <1>7, <1>8, <1>9, <1>10, <1>11 DEF Next

(* The preprocessor implements CppIf. *)
THEOREM ImplementsConditionals == Spec => CondSpec
<1> QED BY InitConditional, StepConditional, PTL DEF Spec, CondSpec

(* In every run of the preprocessor, for every file tree, depth of includes    *)
(* and of conditionals, and layout of comments, the skipped lines are exactly  *)
(* those the standard says are skipped.                                        *)
THEOREM PreprocSkipsCorrectly == Spec => []SkipsAsStandard
<1> QED BY ImplementsConditionals, SkipsCorrectly, PTL

(* In every run of the preprocessor an #else is remembered until its #endif.    *)
THEOREM PreprocElseKept == Spec => []ElseRemembered
<1> QED BY ImplementsConditionals, ElseKept, PTL
=============================================================================

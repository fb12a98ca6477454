-------------------------------- MODULE CppIf --------------------------------
(***************************************************************************)
(* Conditional inclusion in the preprocessor (src/src/cpp2/directive.c): the  *)
(* stack of open #if groups, the flag that says whether the current group is *)
(* skipped, and how far its #if/#elif chain has got.                          *)
(*                                                                         *)
(* groups is the C standard's view of the same directives, kept beside the   *)
(* code's state to compare with: for each open group, whether the text around *)
(* it is live, whether a branch was taken, whether #else was seen and whether *)
(* the current branch is on.                                                  *)
(***************************************************************************)
EXTENDS Integers, Sequences

CONSTANT N_IFSTACK

ASSUME IfStackAssumption == N_IFSTACK \in Nat \ {0}

VARIABLES
  if_stack,             \* [noop, if_chosen] of the groups around the current one
  noop,                 \* the current group is skipped
  if_elif_chosen,       \* its NO_TRUTH, GOT_TRUTH or LAST_ELSE
  status,               \* "run", or "died" (CPP_DIE, die), or "done"
  groups                \* the standard's view

condVars == <<if_stack, noop, if_elif_chosen, status, groups>>

Chosen == {"NO_TRUTH", "GOT_TRUTH", "LAST_ELSE"}
Group == [live : BOOLEAN, taken : BOOLEAN, els : BOOLEAN, on : BOOLEAN]

CondInit ==
  /\ if_stack = <<>>
  /\ noop = FALSE
  /\ if_elif_chosen = "NO_TRUTH"
  /\ status = "run"
  /\ groups = <<>>

(* A possible bug: the groups around the current one are forgotten.           *)
parse_should_noop_OwnOnly == noop

parse_should_noop == noop \/ \E i \in DOMAIN if_stack : if_stack[i].noop

-----------------------------------------------------------------------------
(* The standard's groups.                                                      *)

Active(gs) == gs = <<>> \/ gs[Len(gs)].on

Opened(c) ==
  Append(groups, [live |-> Active(groups), taken |-> Active(groups) /\ c,
                  els |-> FALSE, on |-> Active(groups) /\ c])

NextBranch(c, isElse) ==
  LET g == groups[Len(groups)]
      on == g.live /\ ~g.taken /\ c
  IN [groups EXCEPT ![Len(groups)] =
        [live |-> g.live, taken |-> g.taken \/ on, els |-> isElse, on |-> on]]

Closed == SubSeq(groups, 1, Len(groups) - 1)

-----------------------------------------------------------------------------
CppDie == status' = "died" /\ UNCHANGED <<if_stack, noop, if_elif_chosen, groups>>

Opens(is_true, c) ==
  /\ noop' = ~is_true
  /\ if_elif_chosen' = IF is_true THEN "GOT_TRUTH" ELSE "NO_TRUTH"
  /\ groups' = Opened(c)
  /\ UNCHANGED status

(* A possible bug: the stack is not checked.                                   *)
if_push_Unchecked(is_true, c) ==
  /\ if_stack' = Append(if_stack, [noop |-> noop, if_chosen |-> if_elif_chosen])
  /\ Opens(is_true, c)

(* if_push(is_true) for a group whose condition is c. *)
if_push(is_true, c) ==
  /\ if_stack' = Append(if_stack, [noop |-> noop, if_chosen |-> if_elif_chosen])
  /\ IF Len(if_stack) + 1 = N_IFSTACK
     THEN status' = "died" /\ UNCHANGED <<noop, if_elif_chosen, groups>>
     ELSE Opens(is_true, c)

(* A possible bug: how far the outer chain had got is not restored.             *)
if_pop_KeepsChosen ==
  /\ if_stack' = SubSeq(if_stack, 1, Len(if_stack) - 1)
  /\ noop' = if_stack[Len(if_stack)].noop
  /\ groups' = Closed
  /\ UNCHANGED <<if_elif_chosen, status>>

if_pop ==
  LET top == if_stack[Len(if_stack)]
  IN /\ if_stack' = SubSeq(if_stack, 1, Len(if_stack) - 1)
     /\ noop' = top.noop
     /\ if_elif_chosen' = top.if_chosen
     /\ groups' = Closed
     /\ UNCHANGED status

(* #ifdef and #ifndef, whose test on the macro gives c; a directive that does  *)
(* not name exactly one macro stops the preprocessor, skipped or not.          *)
handle_somedef(c, wellFormed) ==
  IF wellFormed THEN if_push(~noop /\ c, c) ELSE CppDie

(* #if: c is the value of its expression, "bad" one that cannot be evaluated. *)
handle_if(c) ==
  IF noop
  THEN if_push(FALSE, c = "true")
  ELSE IF c = "bad" THEN CppDie ELSE if_push(c = "true", c = "true")

(* In a skipped group too the condition is evaluated while no branch was true. *)
handle_elif(c) ==
  IF if_stack = <<>> \/ if_elif_chosen = "LAST_ELSE"
  THEN CppDie
  ELSE IF if_elif_chosen = "GOT_TRUTH"
  THEN /\ noop' = TRUE
       /\ groups' = NextBranch(c = "true", FALSE)
       /\ UNCHANGED <<if_stack, if_elif_chosen, status>>
  ELSE IF c = "bad"
  THEN CppDie
  ELSE /\ if_elif_chosen' = IF c = "true" THEN "GOT_TRUTH" ELSE "NO_TRUTH"
       /\ noop' = (c # "true")
       /\ groups' = NextBranch(c = "true", FALSE)
       /\ UNCHANGED <<if_stack, status>>

handle_else ==
  IF if_stack = <<>> \/ if_elif_chosen = "LAST_ELSE"
  THEN CppDie
  ELSE /\ noop' = (if_elif_chosen = "GOT_TRUTH")
       /\ if_elif_chosen' = "LAST_ELSE"
       /\ groups' = NextBranch(TRUE, TRUE)
       /\ UNCHANGED <<if_stack, status>>

handle_endif == IF if_stack = <<>> THEN CppDie ELSE if_pop

(* The end of preprocess() and parse_end_validate(): an open comment or an    *)
(* open group is an error.                                                    *)
EndValidate(openComment) ==
  /\ status' = IF openComment \/ if_stack # <<>> THEN "died" ELSE "done"
  /\ UNCHANGED <<if_stack, noop, if_elif_chosen, groups>>

(* Any other error. *)
Die == CppDie

CondNext ==
  /\ status = "run"
  /\ \/ \E c, wellFormed \in BOOLEAN : handle_somedef(c, wellFormed)
     \/ \E c \in {"true", "false", "bad"} : handle_if(c) \/ handle_elif(c)
     \/ handle_else
     \/ handle_endif
     \/ \E openComment \in BOOLEAN : EndValidate(openComment)
     \/ Die

CondSpec == CondInit /\ [][CondNext]_condVars

-----------------------------------------------------------------------------
(* Properties. *)

CondTypeOK ==
  /\ if_stack \in Seq([noop : BOOLEAN, if_chosen : Chosen])
  /\ Len(if_stack) <= N_IFSTACK
  /\ noop \in BOOLEAN
  /\ if_elif_chosen \in Chosen
  /\ status \in {"run", "died", "done"}
  /\ groups \in Seq(Group)

(* However #if groups nest and whatever branches they take, directive.c skips  *)
(* exactly the lines the standard says are skipped: a group is live when every *)
(* group around it is on and its own branch is the first true one. The code    *)
(* keeps only one flag per level and consults all of them.                     *)
SkipsAsStandard ==
  status = "run" =>
    /\ Len(groups) = Len(if_stack)
    /\ parse_should_noop <=> ~Active(groups)

(* A second #else, an #elif after #else, and an #else, #elif or #endif outside *)
(* any group are never accepted: while the preprocessor runs on, LAST_ELSE     *)
(* stands for exactly the groups whose #else was seen, also after inner groups *)
(* were closed. *)
ElseRemembered ==
  status = "run" =>
    \A i \in DOMAIN groups :
      LET chosen == IF i = Len(groups) THEN if_elif_chosen ELSE if_stack[i + 1].if_chosen
      IN groups[i].els <=> chosen = "LAST_ELSE"
=============================================================================

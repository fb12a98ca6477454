----------------------------- MODULE LineMarkers -----------------------------
(***************************************************************************)
(* How cc1 follows the preprocessor's line markers (src/src/cc1/tokenise.c).  *)
(* The reader's state is one record: the stack of open files it reports     *)
(* "included from here" with, the name and system-header flag it gives the   *)
(* next token, and the number of the last line it read.                      *)
(***************************************************************************)
EXTENDS Integers, Sequences, FiniteSetsExt

CONSTANT FNAME_STACK_N          \* current_fname_stack[] holds this many names

ASSUME FnameStackAssumption == FNAME_STACK_N \in Nat \ {0}

(* tokenise_set_input() as the driver runs it, with -fno-track-initial-fname. *)
CcInit(fnam) ==
  [stack |-> <<>>, fname |-> fnam, sysh |-> FALSE, line |-> 0, icw |-> FALSE, astray |-> FALSE]

(* Names by which cc1 cannot find its way back: there is no room to record the *)
(* file (which is not an error), or it is started from a file of its own name. *)
(* The field astray remembers, for the properties, that there was one.         *)
CannotReturn(stack, fnam) ==
  Len(stack) >= FNAME_STACK_N \/ (stack # <<>> /\ stack[Len(stack)].fnam = fnam)

push_fname(cc, fnam, lno, sysh) ==
  [cc EXCEPT !.fname = fnam,
             !.sysh = sysh,
             !.astray = @ \/ CannotReturn(cc.stack, fnam),
             !.stack = IF Len(@) < FNAME_STACK_N
                       THEN Append(@, [fnam |-> fnam, lno |-> lno, sysh |-> sysh])
                       ELSE @]

(* A possible bug: in_sysh is not restored. *)
pop_fname_KeepsSysh(cc, n) ==
  IF n < Len(cc.stack)
  THEN [cc EXCEPT !.stack = SubSeq(@, 1, n), !.fname = cc.stack[n].fnam]
  ELSE cc

(* pop_fname() until n >= 1 names are left. *)
pop_fname(cc, n) ==
  IF n < Len(cc.stack)
  THEN [cc EXCEPT !.stack = SubSeq(@, 1, n),
                  !.fname = cc.stack[n].fnam,
                  !.sysh = cc.stack[n].sysh]
  ELSE cc

update_stack(cc, lno, sysh) ==
  [cc EXCEPT !.stack[Len(cc.stack)] = [@ EXCEPT !.lno = lno, !.sysh = sysh],
             !.sysh = sysh]

(* A return-to-file marker: back to the topmost entry of that name; a name    *)
(* that is not there is an internal compiler warning (ICW).                    *)
ReturnTo(cc, fnam) ==
  LET Named == {i \in DOMAIN cc.stack : cc.stack[i].fnam = fnam}
  IN IF Named = {} THEN [cc EXCEPT !.icw = TRUE] ELSE pop_fname(cc, Max(Named))

(* The end of handle_line_file_directive(): the line number of an entry that  *)
(* was the top before the marker and still is open (top = 0: there is none).  *)
(* An unflagged marker that names the first file at the line it stopped at is *)
(* taken for a return to it.                                                   *)
Renumber(cc, top, lno, fnam, flag, sysh) ==
  CASE flag = "start" \/ top = 0 -> cc
    [] flag = "none" /\ ~sysh /\ top > 1
       /\ cc.stack[1].lno = lno /\ cc.stack[1].fnam = fnam -> pop_fname(cc, 1)
    [] OTHER -> IF cc.stack[top].fnam = fnam THEN update_stack(cc, lno, sysh) ELSE cc

handle_line_file_directive(cc, lno, fnam, flag, sysh) ==
  LET top == Len(cc.stack)
      pushes == \/ flag = "start"
                \/ flag = "none" /\ (top = 0 \/ cc.stack[top].fnam # fnam)
      moved == CASE pushes -> push_fname(cc, fnam, lno, sysh)
                 [] flag = "return" -> ReturnTo(cc, fnam)
                 [] OTHER -> cc
      stillOpen == IF flag = "return" /\ top > Len(moved.stack) THEN 0 ELSE top
  IN Renumber(moved, stillOpen, lno, fnam, flag, sysh)

(* parse_line_directive() of  # lno "fnam" flags : the next line is lno.      *)
Marker(cc, lno, fnam, flag, sysh) ==
  handle_line_file_directive([cc EXCEPT !.line = lno - 1], lno, fnam, flag, sysh)

(* tokenise_read_line() of any line but a marker or a #pragma.                *)
OrdinaryLine(cc) ==
  [cc EXCEPT !.line = @ + 1,
             !.stack = IF @ = <<>> THEN @ ELSE [@ EXCEPT ![Len(@)].lno = cc.line + 1]]
=============================================================================

------------------------------- MODULE Toolchain -------------------------------
(***************************************************************************)
(* What the driver promises whoever calls it, make for one: nothing the    *)
(* caller can see changes until every input has been translated; then the  *)
(* results appear one after the other; and the status is success only when *)
(* all of them are there.                                                  *)
(***************************************************************************)
VARIABLES
  phase,    \* translating, publishing or over
  pending,  \* the inputs whose translation is not complete
  visible,  \* the files the caller can see
  status    \* running, success or failure

tvars == <<phase, pending, visible, status>>

Init == phase = "translating" /\ status = "running"

\* An input has been translated, and stays so.
Translate ==
  /\ phase = "translating"
  /\ pending' \subseteq pending /\ pending' # pending
  /\ UNCHANGED <<phase, visible, status>>

\* Every input has been translated.
Translated == phase = "translating" /\ pending = {} /\ phase' = "publishing" /\ UNCHANGED <<pending, visible, status>>

\* One result is written, or lost again when that fails.
Publish == phase = "publishing" /\ UNCHANGED <<phase, pending, status>>

Succeed == phase = "publishing" /\ phase' = "over" /\ status' = "success" /\ UNCHANGED <<pending, visible>>

\* Giving up while translating leaves what is visible alone, and everything
\* that was translated is forgotten.
Fail ==
  /\ phase # "over" /\ phase' = "over" /\ status' = "failure"
  /\ pending' = {}
  /\ phase = "translating" => UNCHANGED visible

\* A signal that comes when everything is there turns success into failure.
Interrupt == phase = "over" /\ status' = "failure" /\ UNCHANGED <<phase, pending, visible>>

Next == Translate \/ Translated \/ Publish \/ Succeed \/ Fail \/ Interrupt
Spec == Init /\ [][Next]_tvars
=============================================================================

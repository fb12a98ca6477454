-------------------------------- MODULE MCExpr --------------------------------
(***************************************************************************)
(* short, int and long are 2, 4 and 8 bits wide.  x is an int, u unsigned, *)
(* f a bit-field, y a short that is assigned to.  a is an array, w a weak  *)
(* one that may be absent.                                                 *)
(***************************************************************************)
EXTENDS Expr

UIntT == type_sign(IntT, FALSE)
ShortT == Prim("short", TRUE)
MCVars ==
  [x |-> [t |-> IntT, bf |-> 0], u |-> [t |-> UIntT, bf |-> 0],
   f |-> [t |-> UIntT, bf |-> 2], y |-> [t |-> ShortT, bf |-> 0]]
MCArrays == [a |-> [to |-> 2, weak |-> FALSE], w |-> [to |-> 1, weak |-> TRUE]]

Lit(v, suffix) == [n |-> "val", v |-> v, suffix |-> suffix, hex |-> FALSE]
Var(x) == [n |-> "var", x |-> x]
Arr(x) == [n |-> "addr", x |-> x]
MCOperands == {Lit(0, ""), Lit(15, "u"), Var("x")}
MCLeaves ==
  {Lit(0, ""), Lit(1, "l"), Lit(8, ""), Lit(15, "u"), Lit(255, "ul"), [n |-> "val", v |-> 9, suffix |-> "", hex |-> TRUE]}
  \cup {Var(x) : x \in {"x", "u", "f", "y"}} \cup {Arr("a"), Arr("w")}
MCCastTypes == {BoolT, ShortT, UIntT, type_sign(ShortT, FALSE), Prim("long", TRUE), Prim("long", FALSE)}
MCUnaryOps == {"-", "!", "~"}
MCBinaryOps == {"+", "-", "*", "/", "%", "<<", ">>", "&", "<", "==", "&&", "||"}
MCUpdateOps == {"+", "<<"}
MCStores ==
  {[mem |-> [x |-> 13, u |-> 15, f |-> 3, y |-> 3], at |-> [a |-> 16, w |-> 0]],
   [mem |-> [x |-> 3, u |-> 1, f |-> 1, y |-> 1], at |-> [a |-> 16, w |-> 32]]}
MCTargets == {"y"}
===============================================================================

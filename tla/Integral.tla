------------------------------- MODULE Integral -------------------------------
(***************************************************************************)
(* cc1's integers: the types, the type of a literal, the word integral_t   *)
(* that every constant is computed in, whatever its type, and the          *)
(* arithmetic and conversions done on it.                                  *)
(*                                                                         *)
(* Widths are scaled down, keeping the ratios that matter: int is twice    *)
(* short, and long and long long are both as wide as integral_t.  A word   *)
(* is a number below Word; a pointer type knows the size it points to.     *)
(***************************************************************************)
EXTENDS Integers, Bitwise

CONSTANTS
  ShortBits, \* width of short
  IntBits,   \* width of int
  LongBits   \* width of long, long long, pointers and integral_t

ASSUME WidthsAssumption ==
  /\ {ShortBits, IntBits, LongBits} \subseteq Nat
  /\ 1 < ShortBits /\ ShortBits < IntBits /\ IntBits < LongBits

\* NUMERIC_T_MAX + 1
Word == 2 ^ LongBits

Prim(p, s) == [p |-> p, s |-> s, to |-> 1]
IntT == Prim("int", TRUE)
BoolT == Prim("bool", FALSE)
Intptr == Prim("long", TRUE)
PtrTo(size) == [p |-> "ptr", s |-> TRUE, to |-> size]
IsPtr(t) == t.p = "ptr"

\* type_size(), in bits, and type_intrank().  A _Bool, a byte of which only 0 and 1 are ever
\* stored, has one bit.
Bits(t) == CASE t.p = "bool" -> 1 [] t.p = "short" -> ShortBits [] t.p = "int" -> IntBits [] OTHER -> LongBits
Rank(t) == CASE t.p = "bool" -> 0 [] t.p = "short" -> 1 [] t.p = "int" -> 2 [] t.p = "long" -> 3 [] OTHER -> 4
type_sign(t, s) == [t EXCEPT !.s = s]
type_max(t) == IF t.s THEN (2 ^ Bits(t) - 1) \div 2 - 1 ELSE 2 ^ Bits(t) - 1

\* A word as the host's signed type, and back.
Signed(v) == IF v >= Word \div 2 THEN v - Word ELSE v
ToWord(i) == i % Word
integral_truncate(v, bits) == v % 2 ^ bits
SignExtended(v, bits) ==
  LET low == v % 2 ^ bits IN IF low >= 2 ^ (bits - 1) THEN low + Word - 2 ^ bits ELSE low

\* The position of the highest set bit of a word, -1 for 0.
HighBit(v) == IF v = 0 THEN -1 ELSE CHOOSE b \in 0 .. LongBits - 1 : 2 ^ b <= v /\ v < 2 ^ (b + 1)
integral_high_bit(v, t) == HighBit(IF t.s /\ Signed(v) < 0 THEN integral_truncate(v, Bits(t)) ELSE v)

(***************************************************************************)
(* The type of a literal: its suffix asks for a type at least, u fixes the *)
(* sign, and only octal and hexadecimal ones may turn unsigned (-std=c99,  *)
(* the default: in C89 the largest literals turn to unsigned long).        *)
(***************************************************************************)
LiteralType(v, suffix, hex) ==
  LET p == CASE suffix \in {"l", "ul"} -> 3 [] suffix = "ll" -> 4 [] OTHER -> 2
      signed == suffix \notin {"u", "ul"}
      can_change_sign == signed /\ hex
      top == HighBit(v)
      given == CASE p = 2 -> "int" [] p = 3 -> "long" [] OTHER -> "llong"
  IN CASE v = 0 -> Prim(given, signed)
       [] p <= 2 /\ top < IntBits - 1 -> Prim("int", signed)
       [] p <= 2 /\ top = IntBits - 1 /\ (can_change_sign \/ ~signed) -> Prim("int", FALSE)
       [] p <= 3 /\ top < LongBits - 1 -> Prim("long", signed)
       [] p <= 3 /\ top = LongBits - 1 /\ (can_change_sign \/ ~signed) -> Prim("long", FALSE)
       [] top < LongBits - 1 -> Prim("llong", signed)
       [] OTHER -> Prim("llong", FALSE)

(***************************************************************************)
(* op.c's classes of operators.                                            *)
(***************************************************************************)
Comparisons == {"<", "<=", ">", ">=", "==", "!="}
Shortcircuit == {"&&", "||"}
op_returns_bool(op) == op \in Comparisons \cup Shortcircuit \cup {"!"}
op_increases(op) == op \in {"*", "+", "|", "<<"}
Commutative == {"*", "+", "^", "|", "&", "==", "!="}

\* C's division truncates; TLA+'s rounds down.
Quot(a, b) == LET q == (IF a < 0 THEN -a ELSE a) \div (IF b < 0 THEN -b ELSE b)
              IN IF (a < 0) # (b < 0) THEN -q ELSE q
Rem(a, b) == a - b * Quot(a, b)

\* A shift of a word; the host takes the count modulo the width of its word.
Shl(v, n) == ToWord(v * 2 ^ (n % LongBits))
Shr(v, n, signed) == IF signed THEN ToWord(Signed(v) \div 2 ^ (n % LongBits)) ELSE v \div 2 ^ (n % LongBits)
AsBool(b) == IF b THEN 1 ELSE 0
Compare(op, a, b) ==
  AsBool(CASE op = "<" -> a < b [] op = "<=" -> a <= b [] op = ">" -> a > b
           [] op = ">=" -> a >= b [] op = "==" -> a = b [] OTHER -> a # b)

(***************************************************************************)
(* const_op_exec() for a binary operator: word arithmetic, signed or not   *)
(* as arithty is, then one wrap-around for unsigned types narrower than    *)
(* the word.  Division by zero is the only error.                          *)
(***************************************************************************)
WordOp(l, r, op, signed) ==
  CASE op = "*" -> ToWord(l * r)
    [] op = "+" -> ToWord(l + r)
    [] op = "-" -> ToWord(l - r)
    [] op = "/" -> IF signed THEN ToWord(Quot(Signed(l), Signed(r))) ELSE l \div r
    [] op = "%" -> IF signed THEN ToWord(Rem(Signed(l), Signed(r))) ELSE l % r
    [] op = "<<" -> Shl(l, r)
    [] op = ">>" -> Shr(l, r, signed)
    [] op = "&" -> l & r
    [] op = "|" -> l | r
    [] op = "^" -> l ^^ r
    [] op \in {"==", "!="} -> Compare(op, l, r)
    [] OTHER -> IF signed THEN Compare(op, Signed(l), Signed(r)) ELSE Compare(op, l, r)

\* A possible bug: an unsigned result below 0 wraps to one less.
Wrapped_OneLess(result, op, arithty) ==
  LET max == type_max(arithty)
  IN IF arithty.s \/ max = Word - 1 \/ result <= max THEN result
     ELSE IF op_increases(op) THEN ToWord(result - (max + 1))
     ELSE ToWord(result - Word + max)
Wrapped(result, op, arithty) ==
  LET max == type_max(arithty)
  IN IF arithty.s \/ max = Word - 1 \/ result <= max THEN result
     ELSE IF op_increases(op) THEN ToWord(result - (max + 1))
     ELSE ToWord(result - (Word - 1) + max)
DividesByZero(r, op) == op \in {"/", "%"} /\ r = 0
const_op_exec(l, r, op, arithty) == Wrapped(WordOp(l, r, op, arithty.s), op, arithty)
const_op_exec_unary(l, op, arithty) ==
  Wrapped(CASE op = "+" -> l [] op = "-" -> ToWord(-l) [] op = "~" -> Word - 1 - l [] OTHER -> AsBool(l = 0), op, arithty)

(***************************************************************************)
(* convert_integral_to_integral_warn(): a constant from one type to        *)
(* another.  _Bool is dealt with by its caller, fold_cast_num().           *)
(***************************************************************************)
Widen(in, tin, tout) ==
  LET ret == integral_truncate(in, Bits(tout))
      wide == ret | (Word - 2 ^ Bits(tin))
  IN IF (ret \div 2 ^ (Bits(tin) - 1)) % 2 = 0 \/ Bits(tin) = Bits(tout) THEN ret
     ELSE IF Bits(tout) >= LongBits THEN wide
     ELSE wide & (2 ^ (LongBits - Bits(tout)) - 1)
ConvertConst(in, tin, tout) ==
  IF tout.p = "bool" THEN AsBool(in # 0)
  ELSE IF ~tout.s /\ tin.s THEN Widen(in, tin, tout)
  ELSE SignExtended(in, Bits(tout))
===============================================================================

--------------------------- MODULE OutValsProofs ---------------------------
(***************************************************************************)
(* Values, registers and spill slots of any number: SlotsAllocated,        *)
(* CalleeSavedKept, ValuesIntact and FlagsIntact are invariants of OutVals.*)
(* An operation is a composition of operators on the state, so the proof   *)
(* has a lemma per operator: it keeps Good (the bookkeeping is consistent) *)
(* and moves values only in ways that keep what they hold (Moved).         *)
(***************************************************************************)
EXTENDS OutVals, FiniteSetTheorems, WellFoundedInduction, TLAPS

Kinds == {"reg", "spilt", "mem", "flag", "const"}
Content == Int \X Int
Val == [n : Nat, t : Kinds, at : Nat, off : Int, sem : Content]
Vals == UNION {[D -> Val] : D \in SUBSET Nat}
Mem == UNION {[D -> Content] : D \in SUBSET Nat}
State ==
  [v : Vals, list : Seq(Nat), next : Nat, R : [Regs -> Content], M : Mem,
   F : Content, rsv : SUBSET {2}, cs : SUBSET CalleeSave, cur : Nat,
   ice : {"no", "reg_cp", "operand", "dividend"}, read : {"right", "sum", "wrong"},
   ret : Nat, reg : Nat]

\* The list holds every live value once, and new numbers are new.
Listed(s) ==
  /\ \A k \in DOMAIN s.list : s.list[k] \in Live(s)
  /\ \A i \in Live(s) : \E k \in DOMAIN s.list : s.list[k] = i
  /\ \A k, l \in DOMAIN s.list : s.list[k] = s.list[l] => k = l
  /\ \A i \in Live(s) : i < s.next

\* Where value i may be: a register that is not reserved, and recorded if it
\* is callee-save; a slot that has been written, inside the frame.
Placed(s, i) ==
  /\ s.v[i].n >= 1 /\ s.v[i].sem[1] # 0
  /\ s.v[i].t = "flag" => s.v[i].n = 1
  /\ ~InReg(s, i) => s.v[i].off = 0
  /\ InReg(s, i) => /\ s.v[i].at \in Regs \ s.rsv
                    /\ s.v[i].at \in CalleeSave => s.v[i].at \in s.cs
  /\ OnStack(s, i) => s.v[i].at \in DOMAIN s.M /\ s.v[i].at <= s.cur

\* No two values share a register or a slot.
Apart(s, i, j) ==
  /\ InReg(s, i) /\ InReg(s, j) => s.v[i].at # s.v[j].at
  /\ OnStack(s, i) /\ OnStack(s, j) => s.v[i].at # s.v[j].at

Kept(s) == \A r \in CalleeSave : r \notin s.cs => s.R[r] = Caller

Good(s) ==
  /\ s \in State /\ s.ice = "no" /\ Listed(s) /\ Kept(s)
  /\ \A i \in Live(s) : Placed(s, i)
  /\ \A i, j \in Live(s) : i # j => Apart(s, i, j)

Halted(s) == s \in State /\ s.ice # "no"

\* A register that may be written: not reserved, and no value's.
Free(s, r) == r \in Regs \ s.rsv /\ \A i \in Live(s) : ~InRegAt(s, i, r)

-----------------------------------------------------------------------------
(* Numbers, sequences and functions.                                       *)

LEMMA NatMin ==
  ASSUME NEW T \in SUBSET Nat, T # {}
  PROVE  \E x \in T : \A y \in T : x <= y
<1> DEFINE Less == OpToRel(<, Nat)
<1>1. PICK x \in T : \A y \in T : <<y, x>> \notin Less
  <2>1. IsWellFoundedOn(Less, Nat)
    BY NatLessThanWellFounded
  <2> HIDE DEF Less
  <2> QED BY <2>1, WFMin
<1>2. ASSUME NEW y \in T PROVE x <= y
  <2>1. y < x => <<y, x>> \in Less
    BY DEF OpToRel
  <2> HIDE DEF Less
  <2> QED BY <1>1, <2>1
<1> QED BY <1>2

LEMMA LowestIn ==
  ASSUME NEW T \in SUBSET Nat, T # {}
  PROVE  Lowest(T) \in T /\ \A y \in T : Lowest(T) <= y
BY NatMin DEF Lowest

LEMMA HighestIn ==
  ASSUME NEW n \in Nat, NEW T \in SUBSET (0..n), T # {}
  PROVE  Highest(T) \in T
<1> DEFINE D == {n - x : x \in T}
<1>0. PICK z \in T : TRUE
  OBVIOUS
<1>1. D \in SUBSET Nat /\ D # {}
  <2>1. n - z \in D /\ \A x \in T : n - x \in Nat
    OBVIOUS
  <2> QED BY <2>1
<1>2. PICK d \in D : \A y \in D : d <= y
  <2> HIDE DEF D
  <2> QED BY <1>1, NatMin
<1>3. PICK x \in T : d = n - x
  OBVIOUS
<1>4. ASSUME NEW y \in T PROVE y <= x
  <2>1. n - y \in D
    OBVIOUS
  <2>2. d <= n - y
    BY <1>2, <2>1
  <2> QED BY <1>3, <2>2
<1> QED BY <1>4 DEF Highest

LEMMA UpTo ==
  ASSUME NEW k \in Nat, NEW G, 0 \in G, \A n \in 1..k : n - 1 \in G => n \in G
  PROVE  k \in G
<1> DEFINE Bad == {n \in Nat : n <= k /\ n \notin G}
<1> SUFFICES ASSUME Bad # {} PROVE FALSE
  OBVIOUS
<1>1. PICK n \in Bad : \A m \in Bad : n <= m
  BY NatMin
<1>2. n \in 1..k /\ n \notin G
  OBVIOUS
<1>3. n - 1 \notin Bad
  BY <1>1, <1>2
<1> QED BY <1>2, <1>3

LEMMA AppendFacts ==
  ASSUME NEW q \in Seq(Nat), NEW x \in Nat
  PROVE  /\ Append(q, x) \in Seq(Nat) /\ DOMAIN Append(q, x) = 1..(Len(q) + 1)
         /\ DOMAIN q = 1..Len(q) /\ Len(q) \in Nat /\ Len(Append(q, x)) = Len(q) + 1
         /\ Append(q, x)[Len(q) + 1] = x /\ \A k \in 1..Len(q) : Append(q, x)[k] = q[k]
OBVIOUS

\* Unlinking a value leaves the others, each once.
LEMMA UnlinkFacts ==
  ASSUME NEW q \in Seq(Nat), NEW i, NEW p \in DOMAIN q, q[p] = i,
         \A k, l \in DOMAIN q : q[k] = q[l] => k = l
  PROVE  /\ Unlink(q, i) \in Seq(Nat)
         /\ \A k \in DOMAIN Unlink(q, i) : \E l \in DOMAIN q : Unlink(q, i)[k] = q[l] /\ q[l] # i
         /\ \A l \in DOMAIN q : q[l] # i => \E k \in DOMAIN Unlink(q, i) : Unlink(q, i)[k] = q[l]
         /\ \A k, l \in DOMAIN Unlink(q, i) : Unlink(q, i)[k] = Unlink(q, i)[l] => k = l
<1> DEFINE n == Len(q)
<1>1. DOMAIN q = 1..n /\ n \in Nat /\ p \in 1..n /\ \A k \in 1..n : q[k] \in Nat
  OBVIOUS
<1>2. (CHOOSE k \in DOMAIN q : q[k] = i) = p
  OBVIOUS
<1> DEFINE u == [k \in 1..(n - 1) |-> IF k < p THEN q[k] ELSE q[k + 1]]
<1>3. Unlink(q, i) = u
  BY <1>2 DEF Unlink
<1>4. u \in Seq(Nat) /\ DOMAIN u = 1..(n - 1)
  BY <1>1
<1>5. \A k \in 1..(n - 1) : (k < p => u[k] = q[k]) /\ (k >= p => u[k] = q[k + 1])
  BY <1>1
<1> HIDE DEF u, n
<1> DEFINE At(m) == IF m < p THEN m ELSE m + 1
<1>6. \A k \in 1..(n - 1) : u[k] = q[At(k)] /\ At(k) \in 1..n /\ At(k) # p
  <2> SUFFICES ASSUME NEW k \in 1..(n - 1)
               PROVE  u[k] = q[At(k)] /\ At(k) \in 1..n /\ At(k) # p
    OBVIOUS
  <2>1. At(k) \in 1..n /\ At(k) # p
    BY <1>1
  <2>2. u[k] = q[At(k)]
    <3>1. (k < p /\ At(k) = k) \/ (k >= p /\ At(k) = k + 1)
      BY <1>1
    <3> HIDE DEF At
    <3> QED BY <3>1, <1>5
  <2> QED BY <2>1, <2>2
<1>7. \A k \in 1..(n - 1) : \E l \in 1..n : u[k] = q[l] /\ q[l] # i
  <2> SUFFICES ASSUME NEW k \in 1..(n - 1) PROVE \E l \in 1..n : u[k] = q[l] /\ q[l] # i
    OBVIOUS
  <2> HIDE DEF At
  <2> QED BY <1>1, <1>6
<1>10. ASSUME NEW k \in 1..n, q[k] # i PROVE \E l \in 1..(n - 1) : u[l] = q[k]
  <2>1. CASE k < p
    <3>1. k \in 1..(n - 1) /\ q[k] = u[k]
      BY <2>1, <1>1, <1>5
    <3> QED BY <3>1
  <2>2. CASE k > p
    <3>1. k - 1 \in 1..(n - 1) /\ k - 1 >= p /\ (k - 1) + 1 = k
      BY <2>2, <1>1
    <3>2. q[k] = u[k - 1]
      BY <3>1, <1>5
    <3> QED BY <3>1, <3>2
  <2> QED BY <2>1, <2>2, <1>10, <1>1
<1>8. \A k, l \in 1..(n - 1) : u[k] = u[l] => k = l
  <2> SUFFICES ASSUME NEW k \in 1..(n - 1), NEW l \in 1..(n - 1), u[k] = u[l] PROVE k = l
    OBVIOUS
  <2>1. At(k) = At(l)
    BY <1>1, <1>6
  <2> QED BY <2>1, <1>1
<1>9. DOMAIN Unlink(q, i) = 1..(n - 1)
  BY <1>3, <1>4
<1> HIDE DEF At
<1>11. u \in Seq(Nat) /\ DOMAIN u = 1..(n - 1) /\ DOMAIN q = 1..n
  BY <1>1, <1>4
<1>12. \A k \in DOMAIN u : \E l \in DOMAIN q : u[k] = q[l] /\ q[l] # i
  BY <1>7, <1>11
<1>13. \A l \in DOMAIN q : q[l] # i => \E k \in DOMAIN u : u[k] = q[l]
  BY <1>10, <1>11
<1>14. \A k, l \in DOMAIN u : u[k] = u[l] => k = l
  BY <1>8, <1>11
<1> QED BY <1>3, <1>11, <1>12, <1>13, <1>14

LEMMA UnlinkNewest ==
  ASSUME NEW q \in Seq(Nat), NEW x \in Nat, \A k \in DOMAIN q : q[k] # x
  PROVE  Unlink(Append(q, x), x) = q
<1> DEFINE n == Len(q)
           a == Append(q, x)
<1>1. /\ DOMAIN a = 1..(n + 1) /\ DOMAIN q = 1..n /\ n \in Nat /\ a[n + 1] = x
      /\ Len(a) = n + 1 /\ \A k \in 1..n : a[k] = q[k]
  BY AppendFacts
<1>2. q = [k \in 1..n |-> q[k]]
  OBVIOUS
<1> HIDE DEF a, n
<1>3. (CHOOSE k \in DOMAIN a : a[k] = x) = n + 1
  BY <1>1
<1>4. Unlink(a, x) = [k \in 1..n |-> a[k]]
  BY <1>1, <1>3 DEF Unlink
<1> QED BY <1>1, <1>2, <1>4 DEF a

LEMMA ValsApply ==
  ASSUME NEW f \in Vals
  PROVE  DOMAIN f \subseteq Nat /\ f = [i \in DOMAIN f |-> f[i]] /\ \A i \in DOMAIN f : f[i] \in Val
<1>1. PICK D \in SUBSET Nat : f \in [D -> Val]
  BY DEF Vals
<1> HIDE DEF Val
<1> QED BY <1>1

LEMMA ValsIntro ==
  ASSUME NEW D \in SUBSET Nat, NEW f, f \in [D -> Val]
  PROVE  f \in Vals
BY DEF Vals

LEMMA MemApply ==
  ASSUME NEW f \in Mem
  PROVE  DOMAIN f \subseteq Nat /\ \A i \in DOMAIN f : f[i] \in Content
<1>1. PICK D \in SUBSET Nat : f \in [D -> Content]
  BY DEF Mem
<1> HIDE DEF Content
<1> QED BY <1>1

LEMMA MemIntro ==
  ASSUME NEW D \in SUBSET Nat, NEW f, f \in [D -> Content]
  PROVE  f \in Mem
BY DEF Mem

LEMMA Contents ==
  /\ {Junk, Caller, Sum, Made} \subseteq Content
  /\ \A c \in Content, d \in Int : Plus(c, d) \in Content /\ Plus(c, 0) = c /\ Plus(c, d)[1] = c[1]
  /\ \A c \in Content, d, e \in Int : Plus(Plus(c, d), e) = Plus(c, d + e)
  /\ Made[1] # 0 /\ Sum[1] = 0 /\ Caller[1] = 0
BY ValsAssumption DEF Junk, Caller, Sum, Made, Content, Plus

-----------------------------------------------------------------------------
(* Single updates: what the fields are afterwards.                         *)

\* What releasing, sharing and creating values leaves alone.
Same(s, t) ==
  /\ t.R = s.R /\ t.M = s.M /\ t.F = s.F /\ t.rsv = s.rsv /\ t.cs = s.cs
  /\ t.ice = s.ice /\ t.read = s.read

LEMMA ValsUpdate ==
  ASSUME NEW f \in Vals, NEW i \in DOMAIN f, NEW x \in Val
  PROVE  /\ [f EXCEPT ![i] = x] \in Vals /\ DOMAIN [f EXCEPT ![i] = x] = DOMAIN f
         /\ [f EXCEPT ![i] = x][i] = x /\ \A j \in DOMAIN f \ {i} : [f EXCEPT ![i] = x][j] = f[j]
<1> HIDE DEF Val
<1> QED BY ValsApply, ValsIntro

LEMMA ValFields ==
  ASSUME NEW x \in Val
  PROVE  /\ x.n \in Nat /\ x.t \in Kinds /\ x.at \in Nat /\ x.off \in Int /\ x.sem \in Content
         /\ \A m \in Nat : [x EXCEPT !.n = m] = Value(m, x.t, x.at, x.off, x.sem)
         /\ \A d \in Int : [x EXCEPT !.off = d] = Value(x.n, x.t, x.at, d, x.sem)
         /\ \A r \in Nat : [x EXCEPT !.at = r] = Value(x.n, x.t, r, x.off, x.sem)
         /\ \A c \in Content : [x EXCEPT !.sem = c] = Value(x.n, x.t, x.at, x.off, c)
<1> HIDE DEF Content, Kinds
<1> QED BY DEF Val, Value

LEMMA ValueVal ==
  ASSUME NEW n \in Nat, NEW t \in Kinds, NEW at \in Nat, NEW off \in Int, NEW c \in Content
  PROVE  /\ Value(n, t, at, off, c) \in Val
         /\ Value(n, t, at, off, c).n = n /\ Value(n, t, at, off, c).t = t
         /\ Value(n, t, at, off, c).at = at /\ Value(n, t, at, off, c).off = off
         /\ Value(n, t, at, off, c).sem = c
BY DEF Val, Value

\* The fields of a state, and its values.
LEMMA StateFields ==
  ASSUME NEW s \in State
  PROVE  /\ s.v \in Vals /\ s.list \in Seq(Nat) /\ s.next \in Nat /\ s.R \in [Regs -> Content]
         /\ s.M \in Mem /\ s.F \in Content /\ s.rsv \in SUBSET {2} /\ s.cs \in SUBSET CalleeSave
         /\ s.cur \in Nat /\ s.ice \in {"no", "reg_cp", "operand", "dividend"}
         /\ s.read \in {"right", "sum", "wrong"} /\ s.ret \in Nat /\ s.reg \in Nat
         /\ Live(s) \subseteq Nat /\ \A i \in Live(s) : s.v[i] \in Val
<1>1. s.v \in Vals
  BY DEF State
<1> HIDE DEF Val, Vals, Mem, Content
<1> QED BY <1>1, ValsApply DEF State, Live

\* A state with new values, list, registers, memory and so on is a state.
LEMMA StateUpdate ==
  ASSUME NEW s \in State
  PROVE  /\ \A v \in Vals : [s EXCEPT !.v = v] \in State
         /\ \A v \in Vals, ret \in Nat : [s EXCEPT !.v = v, !.ret = ret] \in State
         /\ \A v \in Vals, list \in Seq(Nat) : [s EXCEPT !.v = v, !.list = list] \in State
         /\ \A v \in Vals, list \in Seq(Nat), next, ret \in Nat :
              [s EXCEPT !.v = v, !.list = list, !.next = next, !.ret = ret] \in State
         /\ \A R \in [Regs -> Content] : [s EXCEPT !.R = R] \in State
         /\ \A R \in [Regs -> Content], v \in Vals : [s EXCEPT !.R = R, !.v = v] \in State
         /\ \A M \in Mem : [s EXCEPT !.M = M] \in State
         /\ \A r \in Nat : /\ [s EXCEPT !.ret = r] \in State /\ [s EXCEPT !.cur = r] \in State
                           /\ [s EXCEPT !.reg = r] \in State
<1> DEFINE RSet == [Regs -> Content]
           LSet == Seq(Nat)
           CSet == SUBSET CalleeSave
<1> HIDE DEF Vals, Mem, Content, RSet, LSet, CSet
<1>1. State = [v : Vals, list : LSet, next : Nat, R : RSet, M : Mem,
               F : Content, rsv : SUBSET {2}, cs : CSet, cur : Nat,
               ice : {"no", "reg_cp", "operand", "dividend"}, read : {"right", "sum", "wrong"},
               ret : Nat, reg : Nat]
  BY DEF State, RSet, LSet, CSet
<1> HIDE DEF State
<1>2. /\ \A v \in Vals : [s EXCEPT !.v = v] \in State
      /\ \A v \in Vals, ret \in Nat : [s EXCEPT !.v = v, !.ret = ret] \in State
      /\ \A v \in Vals, list \in LSet : [s EXCEPT !.v = v, !.list = list] \in State
      /\ \A v \in Vals, list \in LSet, next, ret \in Nat :
           [s EXCEPT !.v = v, !.list = list, !.next = next, !.ret = ret] \in State
  BY <1>1
<1>3. /\ \A R \in RSet : [s EXCEPT !.R = R] \in State
      /\ \A R \in RSet, v \in Vals : [s EXCEPT !.R = R, !.v = v] \in State
      /\ \A M \in Mem : [s EXCEPT !.M = M] \in State
      /\ \A r \in Nat : /\ [s EXCEPT !.ret = r] \in State /\ [s EXCEPT !.cur = r] \in State
                        /\ [s EXCEPT !.reg = r] \in State
  BY <1>1
<1> QED BY <1>2, <1>3 DEF RSet, LSet

\* Reclaiming only lowers the stack size, and not below a slot in use.
LEMMA ReclaimFields ==
  ASSUME NEW s \in State, Below(s, s.cur)
  PROVE  /\ Reclaim(s) \in State /\ Same(s, Reclaim(s)) /\ Live(Reclaim(s)) = Live(s)
         /\ Reclaim(s).v = s.v /\ Reclaim(s).list = s.list /\ Reclaim(s).next = s.next
         /\ Reclaim(s).ret = s.ret /\ Reclaim(s).reg = s.reg
         /\ Below(s, Reclaim(s).cur) /\ Reclaim(s).cur <= s.cur
         /\ (\E i \in Live(s) : InReg(s, i)) => Reclaim(s) = s
<1>1. CASE \E i \in Live(s) : InReg(s, i)
  <2>1. Reclaim(s) = s /\ s.cur \in Nat
    BY <1>1, StateFields DEF Reclaim
  <2> QED BY <2>1 DEF Same
<1>2. CASE ~\E i \in Live(s) : InReg(s, i)
  <2> DEFINE T == {m \in 0..s.cur : m = s.cur \/ Below(s, m)}
             c == Lowest(T)
  <2>1. s.cur \in Nat /\ T \in SUBSET Nat /\ T # {}
    <3>1. s.cur \in Nat
      BY StateFields
    <3>2. s.cur \in T
      BY <3>1
    <3> QED BY <3>1, <3>2
  <2>2. c \in T
    <3> HIDE DEF T
    <3> QED BY <2>1, LowestIn
  <2>3. c \in Nat /\ c <= s.cur /\ Below(s, c)
    BY <2>1, <2>2
  <2>4. Reclaim(s) = [s EXCEPT !.cur = c]
    BY <1>2 DEF Reclaim
  <2> HIDE DEF c
  <2>5. Reclaim(s) \in State
    BY <2>3, <2>4, StateUpdate
  <2>6. /\ Same(s, Reclaim(s)) /\ Live(Reclaim(s)) = Live(s)
        /\ Reclaim(s).v = s.v /\ Reclaim(s).list = s.list /\ Reclaim(s).next = s.next
        /\ Reclaim(s).ret = s.ret /\ Reclaim(s).reg = s.reg /\ Reclaim(s).cur = c
    <3> HIDE DEF Vals, Mem, Content
    <3> QED BY <2>4 DEF Same, Live, State
  <2> QED BY <1>2, <2>3, <2>5, <2>6
<1> QED BY <1>1, <1>2

LEMMA DropFields ==
  ASSUME NEW s \in State, Listed(s), NEW i \in Live(s)
  PROVE  /\ Drop(s, i) \in State /\ Same(s, Drop(s, i)) /\ Listed(Drop(s, i))
         /\ Live(Drop(s, i)) = Live(s) \ {i} /\ \A j \in Live(s) \ {i} : Drop(s, i).v[j] = s.v[j]
         /\ Drop(s, i).list = Unlink(s.list, i) /\ Drop(s, i).cur = s.cur
         /\ Drop(s, i).ret = s.ret /\ Drop(s, i).reg = s.reg
<1> DEFINE t == Drop(s, i)
           v == [j \in Live(s) \ {i} |-> s.v[j]]
           u == Unlink(s.list, i)
<1>1. /\ s.v \in Vals /\ s.list \in Seq(Nat) /\ s.next \in Nat
      /\ Live(s) \subseteq Nat /\ \A j \in Live(s) : s.v[j] \in Val
  BY StateFields
<1>2. PICK p \in DOMAIN s.list : s.list[p] = i
  BY DEF Listed
<1>0. \A k, l \in DOMAIN s.list : s.list[k] = s.list[l] => k = l
  BY DEF Listed
<1>3. /\ u \in Seq(Nat)
      /\ \A k \in DOMAIN u : \E l \in DOMAIN s.list : u[k] = s.list[l] /\ s.list[l] # i
      /\ \A l \in DOMAIN s.list : s.list[l] # i => \E k \in DOMAIN u : u[k] = s.list[l]
      /\ \A k, l \in DOMAIN u : u[k] = u[l] => k = l
  <2> DEFINE q == s.list
  <2>1. q \in Seq(Nat) /\ p \in DOMAIN q /\ q[p] = i /\ \A k, l \in DOMAIN q : q[k] = q[l] => k = l
    BY <1>0, <1>1, <1>2
  <2> HIDE DEF q, v, t
  <2>2. /\ Unlink(q, i) \in Seq(Nat)
        /\ \A k \in DOMAIN Unlink(q, i) : \E l \in DOMAIN q : Unlink(q, i)[k] = q[l] /\ q[l] # i
        /\ \A l \in DOMAIN q : q[l] # i => \E k \in DOMAIN Unlink(q, i) : Unlink(q, i)[k] = q[l]
        /\ \A k, l \in DOMAIN Unlink(q, i) : Unlink(q, i)[k] = Unlink(q, i)[l] => k = l
    BY <2>1, UnlinkFacts
  <2> QED BY <2>2 DEF q
<1>4. v \in Vals
  <2> HIDE DEF Val
  <2>1. v \in [Live(s) \ {i} -> Val]
    BY <1>1
  <2> QED BY <1>1, <2>1, ValsIntro
<1>5. t = [s EXCEPT !.v = v, !.list = u]
  BY DEF Drop
<1>6. DOMAIN v = Live(s) \ {i} /\ \A j \in Live(s) \ {i} : v[j] = s.v[j]
  OBVIOUS
<1> HIDE DEF u, v, t
<1>7. t \in State
  BY <1>3, <1>4, <1>5, StateUpdate
<1>8. /\ Same(s, t) /\ t.v = v /\ t.list = u /\ t.next = s.next /\ t.cur = s.cur
      /\ t.ret = s.ret /\ t.reg = s.reg
  <2> HIDE DEF Vals, Mem, Content
  <2> QED BY <1>5 DEF Same, State
<1>9. Live(t) = Live(s) \ {i}
  BY <1>6, <1>8 DEF Live
<1>10. Listed(t)
  <2>1. \A k \in DOMAIN u : u[k] \in Live(t)
    BY <1>3, <1>9 DEF Listed
  <2>2. \A j \in Live(t) : j < s.next /\ \E k \in DOMAIN u : u[k] = j
    <3> SUFFICES ASSUME NEW j \in Live(s), j # i
                 PROVE  j < s.next /\ \E k \in DOMAIN u : u[k] = j
      BY <1>9
    <3>1. PICK l \in DOMAIN s.list : s.list[l] = j
      BY DEF Listed
    <3> QED BY <1>3, <3>1 DEF Listed
  <2> QED BY <2>1, <2>2, <1>3, <1>8 DEF Listed
<1> QED BY <1>6, <1>7, <1>8, <1>9, <1>10 DEF t, u

LEMMA NewFields ==
  ASSUME NEW s \in State, Listed(s), NEW k \in Kinds, NEW at \in Nat, NEW off \in Int,
         NEW c \in Content, NEW t, t = New(s, k, at, off, c)
  PROVE  /\ t \in State /\ Same(s, t) /\ Listed(t)
         /\ s.next \notin Live(s) /\ Live(t) = Live(s) \cup {s.next}
         /\ t.v[s.next] = Value(1, k, at, off, c) /\ \A j \in Live(s) : t.v[j] = s.v[j]
         /\ t.list = Append(s.list, s.next) /\ t.cur = s.cur /\ t.ret = s.next /\ t.reg = s.reg
<1> DEFINE x == Value(1, k, at, off, c)
           n == s.next
           v == [j \in Live(s) \cup {n} |-> IF j = n THEN x ELSE s.v[j]]
           u == Append(s.list, n)
<1>0. /\ \A l \in DOMAIN s.list : s.list[l] \in Live(s)
      /\ \A j \in Live(s) : j < n /\ \E l \in DOMAIN s.list : s.list[l] = j
      /\ \A l, m \in DOMAIN s.list : s.list[l] = s.list[m] => l = m
  BY DEF Listed
<1>1. /\ s.v \in Vals /\ s.list \in Seq(Nat) /\ n \in Nat /\ n + 1 \in Nat
      /\ Live(s) \subseteq Nat /\ \A j \in Live(s) : s.v[j] \in Val
  BY StateFields
<1>2. n \notin Live(s)
  <2>1. ASSUME n \in Live(s) PROVE FALSE
    <3>1. n < n
      BY <2>1, <1>0
    <3> QED BY <3>1, <1>1
  <2> QED BY <2>1
<1>3. x \in Val
  BY ValueVal
<1>4. t = [s EXCEPT !.v = v, !.list = u, !.next = n + 1, !.ret = n]
  BY DEF New
<1>5. /\ DOMAIN v = Live(s) \cup {n} /\ v[n] = x /\ \A j \in Live(s) : v[j] = s.v[j]
  <2> HIDE DEF x, n
  <2> QED BY <1>2
<1>6. v \in Vals
  <2> HIDE DEF Val, x, n
  <2>1. v \in [Live(s) \cup {n} -> Val]
    BY <1>1, <1>3
  <2> QED BY <1>1, <2>1, ValsIntro
<1>7. u \in Seq(Nat) /\ DOMAIN u = 1..(Len(s.list) + 1) /\ DOMAIN s.list = 1..Len(s.list)
      /\ Len(s.list) \in Nat /\ u[Len(s.list) + 1] = n /\ \A l \in 1..Len(s.list) : u[l] = s.list[l]
  BY <1>1, AppendFacts
<1> HIDE DEF u, v, x
<1>8. t \in State
  <2> HIDE DEF n
  <2>1. n \in Nat /\ n + 1 \in Nat /\ u \in Seq(Nat) /\ v \in Vals
    BY <1>1, <1>6, <1>7 DEF n
  <2>2. [s EXCEPT !.v = v, !.list = u, !.next = n + 1, !.ret = n] \in State
    BY <2>1, StateUpdate
  <2> QED BY <2>2, <1>4
<1>9. /\ Same(s, t) /\ t.v = v /\ t.list = u /\ t.next = n + 1 /\ t.cur = s.cur
      /\ t.ret = n /\ t.reg = s.reg
  <2> HIDE DEF Vals, Mem, Content, n
  <2> QED BY <1>4 DEF Same, State
<1>10. Live(t) = Live(s) \cup {n}
  BY <1>5, <1>9 DEF Live
<1>11. Listed(t)
  <2> DEFINE e == Len(s.list)
  <2>4. /\ DOMAIN u = 1..(e + 1) /\ DOMAIN s.list = 1..e /\ e \in Nat /\ u[e + 1] = n
        /\ \A l \in 1..e : u[l] = s.list[l]
    BY <1>7
  <2> HIDE DEF n, e
  <2>5. \A l \in 1..(e + 1) : l \in 1..e \/ l = e + 1
    BY <2>4
  <2>6. \A l \in 1..e : l \in 1..(e + 1) /\ l # e + 1 /\ u[l] \in Live(s) /\ u[l] # n
    BY <2>4, <1>0, <1>2
  <2>7. e + 1 \in 1..(e + 1)
    BY <2>4
  <2>1. \A l \in DOMAIN u : u[l] \in Live(t)
    BY <1>10, <2>4, <2>5, <2>6
  <2>2. \A j \in Live(t) : \E l \in DOMAIN u : u[l] = j
    <3> SUFFICES ASSUME NEW j \in Live(t) PROVE \E l \in DOMAIN u : u[l] = j
      OBVIOUS
    <3>1. CASE j = n
      BY <3>1, <2>4, <2>7
    <3>2. CASE j \in Live(s)
      <4>1. PICK l \in 1..e : s.list[l] = j
        BY <3>2, <1>0, <2>4
      <4> QED BY <4>1, <2>4, <2>6
    <3> QED BY <3>1, <3>2, <1>10
  <2>3. \A l, m \in DOMAIN u : u[l] = u[m] => l = m
    BY <1>0, <2>4, <2>5, <2>6
  <2>8. \A j \in Live(t) : j < n + 1
    <3> SUFFICES ASSUME NEW j \in Live(t) PROVE j < n + 1
      OBVIOUS
    <3>1. j \in Nat /\ n \in Nat /\ (j < n \/ j = n)
      BY <1>0, <1>1, <1>10 DEF n
    <3> QED BY <3>1
  <2> QED BY <2>1, <2>2, <2>3, <2>8, <1>9 DEF Listed
<1> QED BY <1>2, <1>5, <1>8, <1>9, <1>10, <1>11 DEF x, u

-----------------------------------------------------------------------------
(* Updates that keep the bookkeeping consistent.                           *)

\* One value may change its place if the new one is sound and nobody else's.
LEMMA GoodUpdate ==
  ASSUME NEW s, NEW t, Good(s), t \in State, t.ice = "no", t.list = s.list, t.next = s.next,
         Live(t) = Live(s), NEW i \in Live(s), \A j \in Live(s) \ {i} : t.v[j] = s.v[j],
         t.rsv = s.rsv, s.cs \subseteq t.cs, DOMAIN s.M \subseteq DOMAIN t.M, t.cur >= s.cur,
         Placed(t, i), \A j \in Live(s) \ {i} : Apart(t, i, j), Kept(t)
  PROVE  Good(t)
<1>1. Listed(t)
  BY DEF Good, Listed
<1>2. s \in State /\ s.cur \in Nat /\ t.cur \in Nat
  BY StateFields DEF Good
<1>3. ASSUME NEW j \in Live(t) PROVE Placed(t, j)
  <2>1. CASE j = i
    BY <2>1
  <2>2. CASE j # i
    <3>1. t.v[j] = s.v[j] /\ Placed(s, j) /\ s.v[j].at \in Nat
      <4>1. s.v[j] \in Val
        BY <1>2, StateFields
      <4> QED BY <2>2, <4>1, ValFields DEF Good
    <3> QED BY <1>2, <3>1 DEF Placed, InReg, OnStack
  <2> QED BY <2>1, <2>2
<1>4. ASSUME NEW j \in Live(t), NEW k \in Live(t), j # k PROVE Apart(t, j, k)
  <2>1. CASE j # i /\ k # i
    BY <2>1, <1>4 DEF Good, Apart, InReg, OnStack
  <2>2. CASE j = i
    BY <2>2, <1>4
  <2>3. CASE k = i
    BY <2>3, <1>4 DEF Apart
  <2> QED BY <2>1, <2>2, <2>3
<1> QED BY <1>1, <1>3, <1>4 DEF Good

\* What Good says depends only on these fields.
LEMMA GoodSame ==
  ASSUME NEW s, NEW t, Good(s), t \in State, Same(s, t), t.v = s.v, t.list = s.list,
         t.next = s.next, t.cur \in Nat, Below(s, t.cur)
  PROVE  Good(t)
<1>1. Live(t) = Live(s)
  BY DEF Live
<1>2. Listed(t) /\ Kept(t) /\ t.ice = "no"
  BY <1>1 DEF Good, Listed, Kept, Same
<1>3. ASSUME NEW j \in Live(t) PROVE Placed(t, j)
  BY <1>1 DEF Good, Placed, InReg, OnStack, Below, Same
<1>4. ASSUME NEW j \in Live(t), NEW k \in Live(t), j # k PROVE Apart(t, j, k)
  BY <1>1, <1>4 DEF Good, Apart, InReg, OnStack
<1> QED BY <1>2, <1>3, <1>4 DEF Good

LEMMA GoodBelow ==
  ASSUME NEW s, Good(s)
  PROVE  Below(s, s.cur) /\ \A i \in Live(s) : s.v[i].at \in Nat
<1>1. \A i \in Live(s) : s.v[i] \in Val
  BY StateFields DEF Good
<1> QED BY <1>1, ValFields DEF Good, Below, Placed

LEMMA GoodReclaim ==
  ASSUME NEW s, Good(s)
  PROVE  Good(Reclaim(s))
<1>1. s \in State /\ Below(s, s.cur)
  BY GoodBelow DEF Good
<1>2. /\ Reclaim(s) \in State /\ Same(s, Reclaim(s)) /\ Reclaim(s).v = s.v
      /\ Reclaim(s).list = s.list /\ Reclaim(s).next = s.next /\ Below(s, Reclaim(s).cur)
  BY <1>1, ReclaimFields
<1>3. Reclaim(s).cur \in Nat
  BY <1>2, StateFields
<1> QED BY <1>2, <1>3, GoodSame

LEMMA GoodDrop ==
  ASSUME NEW s, Good(s), NEW i \in Live(s)
  PROVE  Good(Drop(s, i))
<1> DEFINE t == Drop(s, i)
<1>1. /\ t \in State /\ Same(s, t) /\ Listed(t) /\ Live(t) = Live(s) \ {i}
      /\ \A j \in Live(s) \ {i} : t.v[j] = s.v[j]
      /\ t.cur = s.cur
  BY DropFields DEF Good
<1> HIDE DEF t
<1>2. Kept(t) /\ t.ice = "no"
  BY <1>1 DEF Good, Kept, Same
<1>3. ASSUME NEW j \in Live(t) PROVE Placed(t, j)
  BY <1>1 DEF Good, Placed, InReg, OnStack, Same
<1>4. ASSUME NEW j \in Live(t), NEW k \in Live(t), j # k PROVE Apart(t, j, k)
  BY <1>1, <1>4 DEF Good, Apart, InReg, OnStack
<1> QED BY <1>1, <1>2, <1>3, <1>4 DEF Good, t

\* A new value in a place of its own.
LEMMA GoodNew ==
  ASSUME NEW s, Good(s), NEW k \in Kinds, NEW at \in Nat, NEW off \in Int,
         NEW c \in Content, NEW t, t = New(s, k, at, off, c),
         c[1] # 0, k # "reg" => off = 0,
         k = "reg" => Free(s, at) /\ (at \in CalleeSave => at \in s.cs),
         k \in {"spilt", "mem"} => /\ at \in DOMAIN s.M /\ at <= s.cur
                                   /\ \A j \in Live(s) : OnStack(s, j) => s.v[j].at # at
  PROVE  Good(t)
<1> DEFINE n == s.next
<1>1. /\ t \in State /\ Same(s, t) /\ Listed(t) /\ n \notin Live(s) /\ Live(t) = Live(s) \cup {n}
      /\ t.v[n] = Value(1, k, at, off, c) /\ \A j \in Live(s) : t.v[j] = s.v[j]
      /\ t.cur = s.cur
  BY NewFields DEF Good
<1> HIDE DEF n
<1>2. Kept(t) /\ t.ice = "no"
  BY <1>1 DEF Good, Kept, Same
<1>3. /\ t.v[n].n = 1 /\ t.v[n].t = k /\ t.v[n].at = at /\ t.v[n].off = off /\ t.v[n].sem = c
  BY <1>1, ValueVal
<1>4. ASSUME NEW j \in Live(t) PROVE Placed(t, j)
  <2>1. CASE j = n
    BY <2>1, <1>1, <1>3 DEF Placed, InReg, OnStack, Same, Free
  <2>2. CASE j \in Live(s)
    BY <2>2, <1>1 DEF Good, Placed, InReg, OnStack, Same
  <2> QED BY <2>1, <2>2, <1>1
<1>5. ASSUME NEW j \in Live(s) PROVE Apart(t, n, j) /\ Apart(t, j, n)
  BY <1>1, <1>3 DEF Apart, InReg, OnStack, Free, InRegAt
<1>6. ASSUME NEW j \in Live(t), NEW l \in Live(t), j # l PROVE Apart(t, j, l)
  <2>1. CASE j \in Live(s) /\ l \in Live(s)
    BY <2>1, <1>1, <1>6 DEF Good, Apart, InReg, OnStack
  <2> QED BY <2>1, <1>1, <1>5, <1>6
<1> QED BY <1>1, <1>2, <1>4, <1>6 DEF Good

\* Releasing: a shared value stays, the last reference takes it away.
LEMMA GoodRelease ==
  ASSUME NEW s, Good(s), NEW i \in Live(s), NEW t, t = Release(s, i)
  PROVE  /\ Good(t) /\ Same(s, t) /\ t.ret = s.ret /\ t.reg = s.reg
         /\ \A j \in Live(s) \ {i} : t.v[j] = s.v[j]
         /\ s.v[i].n > 1 => /\ Live(t) = Live(s) /\ t.list = s.list /\ t.cur = s.cur
                            /\ t.v[i] = Value(s.v[i].n - 1, s.v[i].t, s.v[i].at, s.v[i].off, s.v[i].sem)
         /\ s.v[i].n = 1 => Live(t) = Live(s) \ {i} /\ t.list = Unlink(s.list, i)
         /\ (\E j \in Live(t) : InReg(t, j)) => t.cur = s.cur
<1>0. s \in State /\ Placed(s, i) /\ s.v[i] \in Val /\ s.v \in Vals /\ s.v[i].n \in Nat /\ s.cur \in Nat
  <2>1. s \in State /\ s.v[i] \in Val
    BY StateFields DEF Good
  <2> QED BY <2>1, StateFields, ValFields DEF Good
<1>1. CASE s.v[i].n > 1
  <2> DEFINE x == Value(s.v[i].n - 1, s.v[i].t, s.v[i].at, s.v[i].off, s.v[i].sem)
             v == [s.v EXCEPT ![i] = x]
  <2>1. x \in Val /\ [s.v[i] EXCEPT !.n = @ - 1] = x /\ x.n = s.v[i].n - 1 /\ x.t = s.v[i].t
        /\ x.at = s.v[i].at /\ x.off = s.v[i].off /\ x.sem = s.v[i].sem
    <3>1. s.v[i].n - 1 \in Nat
      BY <1>0, <1>1
    <3>2. s.v[i].t \in Kinds /\ s.v[i].at \in Nat /\ s.v[i].off \in Int /\ s.v[i].sem \in Content
      BY <1>0, ValFields
    <3>3. [s.v[i] EXCEPT !.n = s.v[i].n - 1] = x
      BY <3>1, <1>0, ValFields
    <3> QED BY <3>1, <3>2, <3>3, ValueVal
  <2>2. t = [s EXCEPT !.v = v]
    BY <1>1, <2>1 DEF Release
  <2>3. v \in Vals /\ DOMAIN v = Live(s) /\ v[i] = x /\ \A j \in Live(s) \ {i} : v[j] = s.v[j]
    BY <1>0, <2>1, ValsUpdate DEF Live
  <2> HIDE DEF v, x
  <2>4. t \in State
    BY <1>0, <2>2, <2>3, StateUpdate
  <2>5. /\ Same(s, t) /\ t.v = v /\ t.list = s.list /\ t.next = s.next /\ t.cur = s.cur
        /\ t.ret = s.ret /\ t.reg = s.reg
    <3> HIDE DEF Vals, Mem, Content
    <3> QED BY <1>0, <2>2 DEF Same, State
  <2>6. Live(t) = Live(s)
    BY <2>3, <2>5 DEF Live
  <2>7. Placed(t, i)
    <3>1. x.n >= 1 /\ ~(s.v[i].t = "flag")
      BY <1>0, <1>1, <2>1 DEF Placed
    <3> QED BY <1>0, <2>1, <2>3, <2>5, <3>1 DEF Placed, InReg, OnStack, Same
  <2>8. \A j \in Live(s) \ {i} : Apart(t, i, j)
    BY <2>1, <2>3, <2>5 DEF Good, Apart, InReg, OnStack
  <2>9. Kept(t) /\ t.ice = "no" /\ t.rsv = s.rsv /\ t.cs = s.cs /\ t.M = s.M
    BY <2>5 DEF Good, Kept, Same
  <2>10. Good(t)
    BY <1>0, <2>3, <2>4, <2>5, <2>6, <2>7, <2>8, <2>9, GoodUpdate
  <2> QED BY <1>0, <1>1, <2>1, <2>3, <2>5, <2>6, <2>10 DEF x
<1>2. CASE s.v[i].n = 1
  <2> DEFINE d == Drop(s, i)
  <2>1. t = Reclaim(d)
    BY <1>2 DEF Release
  <2>2. /\ Same(s, d) /\ Live(d) = Live(s) \ {i} /\ \A j \in Live(s) \ {i} : d.v[j] = s.v[j]
        /\ d.list = Unlink(s.list, i) /\ d.cur = s.cur /\ d.ret = s.ret /\ d.reg = s.reg
    BY DropFields DEF Good
  <2>3. Good(d)
    BY GoodDrop
  <2> HIDE DEF d
  <2>4. Good(t)
    BY <2>1, <2>3, GoodReclaim
  <2>5. d \in State /\ Below(d, d.cur)
    BY <2>3, GoodBelow DEF Good
  <2>6. /\ Same(d, t) /\ Live(t) = Live(d) /\ t.v = d.v /\ t.list = d.list
        /\ t.ret = d.ret /\ t.reg = d.reg
        /\ (\E j \in Live(d) : InReg(d, j)) => t = d
    BY <2>1, <2>5, ReclaimFields
  <2>7. Same(s, t)
    BY <2>2, <2>6 DEF Same
  <2>8. (\E j \in Live(t) : InReg(t, j)) => t.cur = s.cur
    BY <2>2, <2>6 DEF InReg
  <2> QED BY <1>2, <2>2, <2>4, <2>6, <2>7, <2>8
<1>3. s.v[i].n > 1 \/ s.v[i].n = 1
  BY <1>0 DEF Placed
<1> QED BY <1>1, <1>2, <1>3

-----------------------------------------------------------------------------
(* Moving and spilling values: what they hold moves with them.             *)

\* Value j of s is in t where it was, or in a register that was free, or in a
\* slot above the old frame, and holds the same.
Follows(s, t, j) ==
  /\ t.v[j].n = s.v[j].n /\ t.v[j].sem = s.v[j].sem
  /\ ~InReg(s, j) => t.v[j] = s.v[j]
  /\ OnStack(s, j) => t.M[s.v[j].at] = s.M[s.v[j].at]
  /\ InReg(s, j) =>
       \/ /\ InReg(t, j) /\ t.v[j].off = s.v[j].off /\ t.R[t.v[j].at] = s.R[s.v[j].at]
          /\ t.v[j].at = s.v[j].at \/ (s.v[j].at \in Scratch /\ Free(s, t.v[j].at))
       \/ /\ t.v[j].t = "spilt" /\ t.v[j].at > s.cur
          /\ t.M[t.v[j].at] = Plus(s.R[s.v[j].at], s.v[j].off)

Moved(s, t) ==
  /\ Live(t) = Live(s) /\ t.list = s.list /\ t.rsv = s.rsv /\ t.read = s.read
  /\ t.F \in {s.F, Sum}
  /\ \A j \in Live(s) : Follows(s, t, j)
  /\ (\E j \in Live(s) : InReg(t, j)) => t.cur >= s.cur

\* Value i has left its register.
Freed(s, t, i) == Good(t) /\ Moved(s, t) /\ ~InRegAt(t, i, s.v[i].at)

LEMMA RegSets ==
  /\ Regs \subseteq Nat /\ Scratch \subseteq Regs /\ CalleeSave \subseteq Regs
  /\ Scratch \cap CalleeSave = {} /\ 1 \in Scratch /\ 2 \in Scratch
  /\ \A r \in Regs : r \in Scratch \/ r \in CalleeSave
BY ValsAssumption DEF Regs, Scratch, CalleeSave

\* The facts about one live value that the steps below keep using.
LEMMA GoodVal ==
  ASSUME NEW s, Good(s), NEW i \in Live(s)
  PROVE  /\ s \in State /\ s.ice = "no" /\ s.v[i] \in Val /\ Placed(s, i)
         /\ s.v[i].n \in Nat /\ s.v[i].t \in Kinds /\ s.v[i].at \in Nat /\ s.v[i].off \in Int
         /\ s.v[i].sem \in Content
<1>1. s \in State /\ s.ice = "no" /\ s.v[i] \in Val /\ Placed(s, i)
  BY StateFields DEF Good
<1> QED BY <1>1, ValFields

LEMMA FreedFree ==
  ASSUME NEW s, Good(s), NEW i \in Live(s), InReg(s, i), NEW t, Freed(s, t, i)
  PROVE  Free(t, s.v[i].at)
<1>1. s.v[i].at \in Regs \ t.rsv
  BY DEF Freed, Moved, Good, Placed
<1>2. ASSUME NEW j \in Live(t), InRegAt(t, j, s.v[i].at) PROVE FALSE
  <2>1. j \in Live(s) /\ j # i /\ Follows(s, t, j) /\ InReg(t, j) /\ t.v[j].at = s.v[i].at
    BY <1>2 DEF Freed, Moved, InRegAt, InReg
  <2>2. CASE ~InReg(s, j)
    BY <2>1, <2>2 DEF Follows, InReg
  <2>3. CASE InReg(s, j)
    <3>1. s.v[j].at # s.v[i].at
      BY <2>1, <2>3 DEF Good, Apart
    <3>2. Free(s, s.v[i].at)
      BY <2>1, <2>3, <3>1 DEF Follows, InReg
    <3> QED BY <3>2 DEF Free, InRegAt, InReg
  <2> QED BY <2>2, <2>3
<1> QED BY <1>1, <1>2 DEF Free

\* impl_reg_cp_no_off() to a free register; a callee-save one is recorded.
LEMMA MoveGood ==
  ASSUME NEW s, Good(s), NEW i \in Live(s), InReg(s, i), s.v[i].at \in Scratch,
         NEW r, Free(s, r), NEW t, t \in State,
         t.v = [s.v EXCEPT ![i] = Value(s.v[i].n, "reg", r, s.v[i].off, s.v[i].sem)],
         t.R = [s.R EXCEPT ![r] = s.R[s.v[i].at]],
         t.list = s.list, t.next = s.next, t.M = s.M, t.F = s.F, t.rsv = s.rsv,
         t.cur = s.cur, t.ice = s.ice, t.read = s.read,
         s.cs \subseteq t.cs, r \in CalleeSave => r \in t.cs
  PROVE  Freed(s, t, i) /\ InReg(t, i)
<1> DEFINE x == Value(s.v[i].n, "reg", r, s.v[i].off, s.v[i].sem)
<1>1. /\ s \in State /\ s.ice = "no" /\ s.v[i] \in Val /\ Placed(s, i)
      /\ s.v[i].n \in Nat /\ s.v[i].t \in Kinds /\ s.v[i].at \in Nat /\ s.v[i].off \in Int
      /\ s.v[i].sem \in Content
  BY GoodVal
<1>2. r \in Regs /\ r \in Nat /\ r \notin s.rsv /\ s.v[i].at # r
  BY RegSets DEF Free, InRegAt, InReg
<1>3. /\ x \in Val /\ x.n = s.v[i].n /\ x.t = "reg" /\ x.at = r /\ x.off = s.v[i].off
      /\ x.sem = s.v[i].sem
  BY <1>1, <1>2, ValueVal DEF Kinds
<1> HIDE DEF x
<1>4. Live(t) = Live(s) /\ t.v[i] = x /\ \A j \in Live(s) \ {i} : t.v[j] = s.v[j]
  <2>1. s.v \in Vals
    BY <1>1, StateFields
  <2> QED BY <2>1, <1>3, ValsUpdate DEF Live, x
<1>5. t.R[r] = s.R[s.v[i].at] /\ \A q \in Regs \ {r} : t.R[q] = s.R[q]
  <2>1. s.R \in [Regs -> Content]
    BY <1>1, StateFields
  <2> HIDE DEF Content
  <2> QED BY <2>1, <1>2
<1>6. Kept(t)
  BY <1>5, RegSets DEF Good, Kept
<1>7. Placed(t, i)
  BY <1>1, <1>2, <1>3, <1>4 DEF Placed, InReg, OnStack
<1>8. \A j \in Live(s) \ {i} : Apart(t, i, j)
  BY <1>3, <1>4 DEF Apart, InReg, OnStack, Free, InRegAt
<1>9. Good(t)
  <2>1. t.cur >= s.cur
    BY <1>1, StateFields
  <2> QED BY <1>1, <1>4, <1>6, <1>7, <1>8, <2>1, GoodUpdate
<1>10. ASSUME NEW j \in Live(s) PROVE Follows(s, t, j)
  <2>1. CASE j = i
    BY <2>1, <1>2, <1>3, <1>4, <1>5 DEF Follows, InReg, OnStack
  <2>2. CASE j # i
    <3>1. t.v[j] = s.v[j] /\ (InReg(s, j) => s.v[j].at \in Regs /\ s.v[j].at # r)
      BY <2>2, <1>4 DEF Good, Placed, Free, InRegAt, InReg
    <3> QED BY <3>1, <1>5 DEF Follows, InReg, OnStack
  <2> QED BY <2>1, <2>2
<1>11. t.cur >= s.cur
  BY <1>1, StateFields
<1>12. Moved(s, t)
  BY <1>4, <1>10, <1>11 DEF Moved
<1> QED BY <1>2, <1>3, <1>4, <1>9, <1>12 DEF Freed, InRegAt, InReg

LEMMA MoveOK ==
  ASSUME NEW s, Good(s), NEW i \in Live(s), InReg(s, i), s.v[i].at \in Scratch,
         NEW r, Free(s, r)
  PROVE  /\ r \in Scratch => Freed(s, MoveTo(s, i, r), i) /\ InReg(MoveTo(s, i, r), i)
         /\ r \in CalleeSave => /\ Freed(s, MarkCalleeSaved(MoveTo(s, i, r), r), i)
                                /\ InReg(MarkCalleeSaved(MoveTo(s, i, r), r), i)
<1> DEFINE x == Value(s.v[i].n, "reg", r, s.v[i].off, s.v[i].sem)
           m == MoveTo(s, i, r)
           k == MarkCalleeSaved(m, r)
           v == [s.v EXCEPT ![i] = x]
           R == [s.R EXCEPT ![r] = s.R[s.v[i].at]]
<1>1. /\ s \in State /\ s.ice = "no" /\ s.v[i] \in Val /\ Placed(s, i)
      /\ s.v[i].n \in Nat /\ s.v[i].t \in Kinds /\ s.v[i].at \in Nat /\ s.v[i].off \in Int
      /\ s.v[i].sem \in Content
  BY GoodVal
<1>2. r \in Regs /\ r \in Nat /\ s.v[i].at \in Regs
  BY RegSets DEF Free
<1>3. x \in Val
  BY <1>1, <1>2, ValueVal DEF Kinds
<1>4. s.v \in Vals /\ s.R \in [Regs -> Content]
  BY <1>1, StateFields
<1>5. [s.v[i] EXCEPT !.at = r] = x
  <2>1. [s.v[i] EXCEPT !.at = r] = Value(s.v[i].n, s.v[i].t, r, s.v[i].off, s.v[i].sem)
    BY <1>1, <1>2, ValFields
  <2> QED BY <2>1 DEF InReg
<1>6. m = [s EXCEPT !.R = R, !.v = v]
  BY <1>5 DEF MoveTo
<1>7. v \in Vals /\ R \in [Regs -> Content]
  <2>1. v \in Vals
    BY <1>3, <1>4, ValsUpdate DEF Live
  <2>2. R \in [Regs -> Content]
    <3> HIDE DEF Content
    <3> QED BY <1>2, <1>4
  <2> QED BY <2>1, <2>2
<1> HIDE DEF v, R, x, m
<1>8. m \in State
  BY <1>1, <1>6, <1>7, StateUpdate
<1>9. /\ m.v = v /\ m.R = R /\ m.list = s.list /\ m.next = s.next /\ m.M = s.M /\ m.F = s.F
      /\ m.rsv = s.rsv /\ m.cur = s.cur /\ m.ice = s.ice /\ m.read = s.read /\ m.cs = s.cs
  <2> HIDE DEF Vals, Mem, Content
  <2> QED BY <1>1, <1>6 DEF State
<1>10. ASSUME r \in Scratch PROVE Freed(s, m, i) /\ InReg(m, i)
  <2>1. r \notin CalleeSave
    BY <1>10, RegSets
  <2> QED BY <2>1, <1>8, <1>9, MoveGood DEF v, R, x
<1>11. ASSUME r \in CalleeSave PROVE Freed(s, k, i) /\ InReg(k, i)
  <2>1. k = [m EXCEPT !.cs = m.cs \cup {r}]
    BY DEF MarkCalleeSaved
  <2> HIDE DEF k
  <2>2. k \in State
    <3> DEFINE CSet == SUBSET CalleeSave
    <3>1. m.cs \cup {r} \in CSet
      BY <1>8, <1>11, StateFields
    <3> HIDE DEF Vals, Mem, Content, CSet
    <3>2. State = [v : Vals, list : Seq(Nat), next : Nat, R : [Regs -> Content], M : Mem,
                   F : Content, rsv : SUBSET {2}, cs : CSet, cur : Nat,
                   ice : {"no", "reg_cp", "operand", "dividend"}, read : {"right", "sum", "wrong"},
                   ret : Nat, reg : Nat]
      BY DEF State, CSet
    <3> HIDE DEF State
    <3> QED BY <1>8, <2>1, <3>1, <3>2
  <2>3. /\ k.v = m.v /\ k.R = m.R /\ k.list = m.list /\ k.next = m.next /\ k.M = m.M /\ k.F = m.F
        /\ k.rsv = m.rsv /\ k.cur = m.cur /\ k.ice = m.ice /\ k.read = m.read
        /\ k.cs = m.cs \cup {r}
    <3> HIDE DEF Vals, Mem, Content
    <3> QED BY <1>8, <2>1 DEF State
  <2> QED BY <2>2, <2>3, <1>9, MoveGood DEF v, R, x
<1> QED BY <1>10, <1>11 DEF m, k

\* A value in a register is given a slot nobody uses.
LEMMA StoreSpiltOK ==
  ASSUME NEW s, Good(s), NEW i \in Live(s), InReg(s, i), NEW slot \in Nat, slot <= s.cur,
         \A j \in Live(s) : OnStack(s, j) => s.v[j].at # slot,
         NEW c \in Content, NEW t, t = StoreSpilt(s, i, slot, c)
  PROVE  /\ Good(t) /\ Live(t) = Live(s) /\ t.list = s.list
         /\ t.R = s.R /\ t.F = s.F /\ t.rsv = s.rsv /\ t.cs = s.cs /\ t.read = s.read
         /\ t.v[i] = Value(s.v[i].n, "spilt", slot, 0, s.v[i].sem)
         /\ \A j \in Live(s) \ {i} : t.v[j] = s.v[j]
         /\ t.M[slot] = c /\ \A m \in DOMAIN s.M \ {slot} : t.M[m] = s.M[m]
         /\ (\E j \in Live(t) : InReg(t, j)) => t.cur = s.cur
<1> DEFINE x == Value(s.v[i].n, "spilt", slot, 0, s.v[i].sem)
           v == [s.v EXCEPT ![i] = x]
           M == [m \in DOMAIN s.M \cup {slot} |-> IF m = slot THEN c ELSE s.M[m]]
           p == Store(s, slot, c)
           w == [p EXCEPT !.v[i] = Value(@.n, "spilt", slot, 0, @.sem)]
<1>1. /\ s \in State /\ s.ice = "no" /\ s.v[i] \in Val /\ Placed(s, i)
      /\ s.v[i].n \in Nat /\ s.v[i].t \in Kinds /\ s.v[i].at \in Nat /\ s.v[i].off \in Int
      /\ s.v[i].sem \in Content
  BY GoodVal
<1>2. s.v \in Vals /\ s.M \in Mem /\ s.cur \in Nat
  BY <1>1, StateFields
<1>3. /\ x \in Val /\ x.n = s.v[i].n /\ x.t = "spilt" /\ x.at = slot /\ x.off = 0
      /\ x.sem = s.v[i].sem
  BY <1>1, ValueVal DEF Kinds
<1>4. v \in Vals /\ DOMAIN v = Live(s) /\ v[i] = x /\ \A j \in Live(s) \ {i} : v[j] = s.v[j]
  BY <1>2, <1>3, ValsUpdate DEF Live
<1>5. /\ M \in Mem /\ DOMAIN M = DOMAIN s.M \cup {slot} /\ M[slot] = c
      /\ \A m \in DOMAIN s.M \ {slot} : M[m] = s.M[m]
  <2> HIDE DEF Content
  <2>1. DOMAIN s.M \subseteq Nat /\ \A m \in DOMAIN s.M : s.M[m] \in Content
    BY <1>2, MemApply
  <2>2. M \in [DOMAIN s.M \cup {slot} -> Content]
    BY <2>1
  <2>3. M \in Mem
    BY <2>1, <2>2, MemIntro
  <2> QED BY <2>3
<1>6. p = [s EXCEPT !.M = M]
  BY DEF Store
<1>7. p \in State
  <2> HIDE DEF M, p
  <2> QED BY <1>1, <1>5, <1>6, StateUpdate
<1>8. /\ p.v = s.v /\ p.list = s.list /\ p.next = s.next /\ p.R = s.R /\ p.M = M /\ p.F = s.F
      /\ p.rsv = s.rsv /\ p.cs = s.cs /\ p.cur = s.cur /\ p.ice = s.ice /\ p.read = s.read
  <2> HIDE DEF Vals, Mem, Content, M, p
  <2> QED BY <1>1, <1>6 DEF State
<1>9. w = [p EXCEPT !.v = v]
  BY <1>8
<1> HIDE DEF v, M, x, p, w
<1>10. w \in State
  BY <1>4, <1>7, <1>9, StateUpdate
<1>11. /\ w.v = v /\ w.list = s.list /\ w.next = s.next /\ w.R = s.R /\ w.M = M /\ w.F = s.F
       /\ w.rsv = s.rsv /\ w.cs = s.cs /\ w.cur = s.cur /\ w.ice = s.ice /\ w.read = s.read
  <2>1. /\ w.v = v /\ w.list = p.list /\ w.next = p.next /\ w.R = p.R /\ w.M = p.M /\ w.F = p.F
        /\ w.rsv = p.rsv /\ w.cs = p.cs /\ w.cur = p.cur /\ w.ice = p.ice /\ w.read = p.read
    <3> HIDE DEF Vals, Mem, Content
    <3> QED BY <1>7, <1>9 DEF State
  <2> QED BY <1>8, <2>1
<1>12. Live(w) = Live(s)
  BY <1>4, <1>11 DEF Live
<1>13. Good(w)
  <2>1. Placed(w, i)
    BY <1>1, <1>3, <1>4, <1>5, <1>11 DEF Placed, InReg, OnStack
  <2>2. \A j \in Live(s) \ {i} : Apart(w, i, j)
    BY <1>3, <1>4, <1>11 DEF Apart, InReg, OnStack
  <2>3. Kept(w)
    BY <1>11 DEF Good, Kept
  <2>4. w.cur >= s.cur /\ DOMAIN s.M \subseteq DOMAIN w.M
    BY <1>2, <1>5, <1>11
  <2> QED BY <1>1, <1>4, <1>10, <1>11, <1>12, <2>1, <2>2, <2>3, <2>4, GoodUpdate
<1>14. t = Reclaim(w)
  BY DEF StoreSpilt, p, w
<1>15. Good(t)
  BY <1>13, <1>14, GoodReclaim
<1>16. /\ Same(w, t) /\ Live(t) = Live(w) /\ t.v = w.v /\ t.list = w.list
       /\ (\E j \in Live(w) : InReg(w, j)) => t = w
  <2>1. Below(w, w.cur)
    BY <1>13, GoodBelow
  <2> QED BY <2>1, <1>10, <1>14, ReclaimFields
<1>17. (\E j \in Live(t) : InReg(t, j)) => t.cur = s.cur
  BY <1>11, <1>16 DEF InReg
<1> QED BY <1>4, <1>5, <1>11, <1>12, <1>15, <1>16, <1>17 DEF Same, x

LEMMA AallocFields ==
  ASSUME NEW s, Good(s)
  PROVE  /\ Good(Aalloc(s)) /\ Same(s, Aalloc(s)) /\ Aalloc(s).v = s.v /\ Aalloc(s).list = s.list
         /\ Live(Aalloc(s)) = Live(s) /\ Aalloc(s).cur = s.cur + 1
<1> DEFINE t == Aalloc(s)
<1>1. s \in State /\ s.cur \in Nat /\ s.cur + 1 \in Nat
  BY StateFields DEF Good
<1>2. t = [s EXCEPT !.cur = s.cur + 1]
  BY DEF Aalloc
<1> HIDE DEF t
<1>3. t \in State
  BY <1>1, <1>2, StateUpdate
<1>4. Same(s, t) /\ t.v = s.v /\ t.list = s.list /\ t.next = s.next /\ t.cur = s.cur + 1
  <2> HIDE DEF Vals, Mem, Content
  <2> QED BY <1>1, <1>2 DEF Same, State
<1>5. Below(s, s.cur + 1)
  <2>1. Below(s, s.cur) /\ \A i \in Live(s) : s.v[i].at \in Nat
    BY GoodBelow
  <2> QED BY <1>1, <2>1 DEF Below
<1>6. Good(t)
  BY <1>1, <1>3, <1>4, <1>5, GoodSame
<1>7. Live(t) = Live(s)
  BY <1>4 DEF Live
<1> QED BY <1>4, <1>6, <1>7 DEF t

LEMMA IceHalts ==
  ASSUME NEW s, s \in State
  PROVE  Halted(RegCpIce(s)) /\ Halted(OperandIce(s)) /\ Halted(LostDividend(s, TRUE))
<1> HIDE DEF Vals, Mem, Content
<1> QED BY DEF State, Halted, RegCpIce, OperandIce, LostDividend

\* What Moved needs when one value has been spilt and the others stayed.
LEMMA SpiltMoved ==
  ASSUME NEW s, Good(s), NEW i \in Live(s), InReg(s, i), NEW t, Good(t), Live(t) = Live(s),
         t.list = s.list, t.rsv = s.rsv, t.read = s.read, t.F \in {s.F, Sum},
         \A j \in Live(s) \ {i} : Follows(s, t, j),
         t.v[i].t = "spilt", t.v[i].n = s.v[i].n, t.v[i].sem = s.v[i].sem, t.v[i].at > s.cur,
         t.M[t.v[i].at] = Plus(s.R[s.v[i].at], s.v[i].off),
         (\E j \in Live(t) : InReg(t, j)) => t.cur >= s.cur
  PROVE  Freed(s, t, i) /\ ~InReg(t, i)
<1>1. Follows(s, t, i)
  BY DEF Follows, InReg, OnStack
<1>2. ~InReg(t, i) /\ ~InRegAt(t, i, s.v[i].at)
  BY DEF InReg, InRegAt
<1>3. Moved(s, t)
  BY <1>1 DEF Moved
<1> QED BY <1>2, <1>3 DEF Freed

LEMMA SpillLastOK ==
  ASSUME NEW s, Good(s), NEW i \in Live(s), InReg(s, i), NEW t, t = SpillLast(s, i)
  PROVE  Halted(t) \/ (Freed(s, t, i) /\ ~InReg(t, i))
<1>1. CASE s.v[i].off # 0
  <2>1. t = RegCpIce(s) /\ s \in State
    BY <1>1 DEF SpillLast, Good
  <2> QED BY <2>1, IceHalts
<1>2. CASE s.v[i].off = 0
  <2> DEFINE a == Aalloc(s)
             slot == s.cur + 1
             c == s.R[s.v[i].at]
  <2>1. t = StoreSpilt(a, i, slot, c)
    BY <1>2 DEF SpillLast
  <2>2. /\ Good(a) /\ Same(s, a) /\ a.v = s.v /\ a.list = s.list /\ Live(a) = Live(s)
        /\ a.cur = slot
    BY AallocFields
  <2>3. /\ s \in State /\ s.cur \in Nat /\ slot \in Nat /\ s.R \in [Regs -> Content]
        /\ s.v[i] \in Val
    BY StateFields DEF Good
  <2>4. Placed(s, i) /\ s.v[i].n \in Nat /\ s.v[i].sem \in Content /\ s.v[i].at \in Regs
    BY <2>3, ValFields DEF Good, Placed
  <2>5. c \in Content
    <3> HIDE DEF Content
    <3> QED BY <2>3, <2>4
  <2>6. ASSUME NEW j \in Live(s), OnStack(s, j) PROVE s.v[j].at # slot
    <3>1. s.v[j].at <= s.cur /\ s.v[j].at \in Nat
      BY <2>6, GoodBelow DEF Below
    <3> QED BY <3>1, <2>3
  <2>7. /\ InReg(a, i) /\ slot <= a.cur
        /\ \A j \in Live(a) : OnStack(a, j) => a.v[j].at # slot
    BY <2>2, <2>3, <2>6 DEF InReg, OnStack
  <2> HIDE DEF a, slot, c
  <2>8. /\ Good(t) /\ Live(t) = Live(s) /\ t.list = s.list /\ t.R = s.R /\ t.F = s.F
        /\ t.rsv = s.rsv /\ t.read = s.read
        /\ t.v[i] = Value(s.v[i].n, "spilt", slot, 0, s.v[i].sem)
        /\ \A j \in Live(s) \ {i} : t.v[j] = s.v[j]
        /\ t.M[slot] = c /\ \A m \in DOMAIN s.M \ {slot} : t.M[m] = s.M[m]
        /\ (\E j \in Live(t) : InReg(t, j)) => t.cur = slot
    <3>1. /\ Good(t) /\ Live(t) = Live(a) /\ t.list = a.list /\ t.R = a.R /\ t.F = a.F
          /\ t.rsv = a.rsv /\ t.read = a.read
          /\ t.v[i] = Value(a.v[i].n, "spilt", slot, 0, a.v[i].sem)
          /\ \A j \in Live(a) \ {i} : t.v[j] = a.v[j]
          /\ t.M[slot] = c /\ \A m \in DOMAIN a.M \ {slot} : t.M[m] = a.M[m]
          /\ (\E j \in Live(t) : InReg(t, j)) => t.cur = a.cur
      BY <2>1, <2>2, <2>3, <2>5, <2>7, StoreSpiltOK
    <3> QED BY <3>1, <2>2 DEF Same
  <2>9. t.v[i].t = "spilt" /\ t.v[i].n = s.v[i].n /\ t.v[i].sem = s.v[i].sem /\ t.v[i].at = slot
    BY <2>3, <2>4, <2>8, ValueVal DEF Kinds
  <2>10. ASSUME NEW j \in Live(s) \ {i} PROVE Follows(s, t, j)
    <3>1. t.v[j] = s.v[j]
      BY <2>8
    <3>2. OnStack(s, j) => s.v[j].at \in DOMAIN s.M \ {slot}
      BY <2>6 DEF Good, Placed
    <3> QED BY <3>1, <3>2, <2>8 DEF Follows, InReg, OnStack
  <2>11. c = Plus(s.R[s.v[i].at], s.v[i].off) /\ slot > s.cur
    <3>1. slot > s.cur
      BY <2>3 DEF slot
    <3>2. Plus(c, 0) = c
      <4> HIDE DEF Content
      <4> QED BY <2>5, Contents
    <3> QED BY <1>2, <3>1, <3>2 DEF c
  <2>12. (\E j \in Live(t) : InReg(t, j)) => t.cur >= s.cur
    BY <2>3, <2>8 DEF slot
  <2> QED BY <2>8, <2>9, <2>10, <2>11, <2>12, SpiltMoved
<1> QED BY <1>1, <1>2

-----------------------------------------------------------------------------
(* Finding a register: virt.c.                                             *)

\* An edit that leaves every value in its place.
LEMMA GoodEdit ==
  ASSUME NEW s, Good(s), NEW t, t \in State, t.ice = "no", t.list = s.list, t.next = s.next,
         t.cur = s.cur, s.cs \subseteq t.cs, t.rsv \subseteq s.rsv, DOMAIN t.M = DOMAIN s.M, Kept(t),
         Live(t) = Live(s),
         \A j \in Live(s) : /\ t.v[j].t = s.v[j].t /\ t.v[j].at = s.v[j].at
                            /\ t.v[j].n >= 1 /\ t.v[j].sem[1] # 0
                            /\ t.v[j].t = "flag" => t.v[j].n = 1
                            /\ t.v[j].t # "reg" => t.v[j].off = 0
  PROVE  Good(t)
<1>1. Listed(t)
  BY DEF Good, Listed
<1>2. ASSUME NEW j \in Live(t) PROVE Placed(t, j)
  BY DEF Good, Placed, InReg, OnStack
<1>3. ASSUME NEW j \in Live(t), NEW k \in Live(t), j # k PROVE Apart(t, j, k)
  BY <1>3 DEF Good, Apart, InReg, OnStack
<1> QED BY <1>1, <1>2, <1>3 DEF Good

LEMMA FreeRegsFree ==
  ASSUME NEW s, NEW class, class \subseteq Regs, FreeRegs(s, class) # {}
  PROVE  Lowest(FreeRegs(s, class)) \in class /\ Free(s, Lowest(FreeRegs(s, class)))
<1> DEFINE T == FreeRegs(s, class)
<1>1. T \in SUBSET Nat /\ T # {}
  BY RegSets DEF FreeRegs
<1>2. \A r \in T : r \in class /\ Free(s, r)
  BY DEF FreeRegs, Free
<1> HIDE DEF T
<1>3. Lowest(T) \in T
  BY <1>1, LowestIn
<1> QED BY <1>2, <1>3 DEF T

\* v_save_reg() and v_freeup_regp(): the value leaves its register, if spilling does.
LEMMA SaveRegOK ==
  ASSUME NEW s, Good(s), NEW i \in Live(s), InReg(s, i), NEW fnty \in BOOLEAN,
         fnty => s.v[i].at \in Scratch, NEW spilt,
         Halted(spilt) \/ (Freed(s, spilt, i) /\ ~InReg(spilt, i)),
         NEW t, t = SaveReg(s, i, fnty, spilt)
  PROVE  \/ Halted(t)
         \/ Freed(s, t, i) /\ (InReg(t, i) => fnty /\ t.v[i].at \in CalleeSave)
<1>1. CASE fnty /\ FreeRegs(s, CalleeSave) # {}
  <2> DEFINE r == Lowest(FreeRegs(s, CalleeSave))
  <2>1. r \in CalleeSave /\ Free(s, r)
    BY <1>1, FreeRegsFree, RegSets
  <2>2. t = MarkCalleeSaved(MoveTo(s, i, r), r)
    BY <1>1 DEF SaveReg
  <2> HIDE DEF r
  <2>3. Freed(s, t, i)
    BY <1>1, <2>1, <2>2, MoveOK
  <2>4. t.v[i].at = r
    <3>1. s \in State /\ s.v \in Vals /\ i \in DOMAIN s.v /\ s.v[i] \in Val /\ r \in Nat
      BY StateFields, <2>1, RegSets DEF Good, Live
    <3>2. t.v = [s.v EXCEPT ![i].at = r]
      <4>1. s \in State
        BY <3>1
      <4> HIDE DEF Vals, Mem, Content
      <4> QED BY <4>1, <2>2 DEF MarkCalleeSaved, MoveTo, State
    <3>3. [s.v[i] EXCEPT !.at = r].at = r
      BY <3>1, ValFields, ValueVal
    <3>4. t.v[i] = [s.v[i] EXCEPT !.at = r]
      BY <3>1, <3>2, ValsApply
    <3> QED BY <3>3, <3>4
  <2> QED BY <1>1, <2>1, <2>3, <2>4
<1>2. CASE ~(fnty /\ FreeRegs(s, CalleeSave) # {})
  <2>1. t = spilt
    BY <1>2 DEF SaveReg
  <2> QED BY <2>1
<1> QED BY <1>1, <1>2

LEMMA FreeupOK ==
  ASSUME NEW s, Good(s), NEW i \in Live(s), InReg(s, i), s.v[i].at \in Scratch, NEW spilt,
         Halted(spilt) \/ (Freed(s, spilt, i) /\ ~InReg(spilt, i)),
         NEW t, t = FreeupRegp(s, i, spilt)
  PROVE  Halted(t) \/ Freed(s, t, i)
<1> DEFINE others == FreeRegs(s, Scratch) \ {s.v[i].at}
<1>1. CASE others # {}
  <2> DEFINE r == Lowest(others)
  <2>1. r \in Scratch /\ Free(s, r)
    <3>1. others \in SUBSET Nat
      BY RegSets DEF FreeRegs
    <3>2. \A q \in others : q \in Scratch /\ Free(s, q)
      BY RegSets DEF FreeRegs, Free
    <3> HIDE DEF others
    <3>3. r \in others
      BY <1>1, <3>1, LowestIn
    <3> QED BY <3>2, <3>3
  <2>2. t = MoveTo(s, i, r)
    BY <1>1 DEF FreeupRegp
  <2> HIDE DEF r
  <2> QED BY <2>1, <2>2, MoveOK
<1>2. CASE others = {}
  <2>1. t = SaveReg(s, i, TRUE, spilt)
    BY <1>2 DEF FreeupRegp
  <2> QED BY <2>1, SaveRegOK
<1> QED BY <1>1, <1>2

\* A change of s.reg only.
LEMMA RegFields ==
  ASSUME NEW s, s \in State, NEW r \in Nat, NEW t, t = [s EXCEPT !.reg = r]
  PROVE  /\ t \in State /\ Same(s, t) /\ t.v = s.v /\ t.list = s.list /\ t.next = s.next
         /\ t.cur = s.cur /\ t.ret = s.ret /\ t.reg = r /\ Live(t) = Live(s)
         /\ Good(s) => Good(t)
<1>1. t \in State
  BY StateUpdate
<1>2. /\ Same(s, t) /\ t.v = s.v /\ t.list = s.list /\ t.next = s.next
      /\ t.cur = s.cur /\ t.ret = s.ret /\ t.reg = r /\ Live(t) = Live(s)
  <2> HIDE DEF Vals, Mem, Content
  <2> QED BY DEF Same, State, Live
<1>3. ASSUME Good(s) PROVE Good(t)
  <2>1. s.cur \in Nat /\ Below(s, s.cur)
    BY <1>3, StateFields, GoodBelow
  <2> QED BY <1>1, <1>2, <1>3, <2>1, GoodSame
<1> QED BY <1>1, <1>2, <1>3

LEMMA MovedSame ==
  ASSUME NEW s, NEW t, NEW u, Moved(s, t), Same(t, u), u.v = t.v, u.list = t.list, u.cur = t.cur
  PROVE  Moved(s, u)
<1>1. \A j \in Live(s) : Follows(s, u, j)
  BY DEF Moved, Follows, Same, InReg, OnStack
<1>2. Live(u) = Live(t)
  BY DEF Live
<1> QED BY <1>1, <1>2 DEF Moved, Same, InReg

LEMMA MovedSelf ==
  ASSUME NEW s, Good(s)
  PROVE  Moved(s, s)
<1>1. s.cur \in Nat
  BY StateFields DEF Good
<1>2. \A j \in Live(s) : Follows(s, s, j)
  BY DEF Follows
<1> QED BY <1>1, <1>2 DEF Moved

\* v_unused_reg()'s newest value in a scratch register, when none is free.
LEMMA FirstOK ==
  ASSUME NEW s, Good(s), FreeRegs(s, Scratch) = {}
  PROVE  /\ FirstInReg(s) \in Live(s) /\ InReg(s, FirstInReg(s))
         /\ s.v[FirstInReg(s)].at \in Scratch
<1> DEFINE T == {k \in DOMAIN s.list : InReg(s, s.list[k]) /\ s.v[s.list[k]].at \in Scratch}
<1>1. s.rsv \in SUBSET {2} /\ s.list \in Seq(Nat) /\ DOMAIN s.list = 1..Len(s.list) /\ Len(s.list) \in Nat
  <2>1. s.rsv \in SUBSET {2} /\ s.list \in Seq(Nat)
    BY StateFields DEF Good
  <2> QED BY <2>1
<1>2. PICK i \in Live(s) : InRegAt(s, i, 1)
  BY <1>1, RegSets DEF FreeRegs
<1>3. PICK k \in DOMAIN s.list : s.list[k] = i
  BY DEF Good, Listed
<1>4. k \in T
  BY <1>2, <1>3, RegSets DEF InReg, InRegAt
<1>5. T \in SUBSET (0..Len(s.list))
  BY <1>1
<1>6. \A l \in T : l \in DOMAIN s.list /\ InReg(s, s.list[l]) /\ s.v[s.list[l]].at \in Scratch
  OBVIOUS
<1>7. FirstInReg(s) = s.list[Highest(T)]
  BY DEF FirstInReg
<1> HIDE DEF T
<1>8. Highest(T) \in T
  BY <1>1, <1>4, <1>5, HighestIn
<1> QED BY <1>6, <1>7, <1>8 DEF Good, Listed

\* A free scratch register has been found, or made.
Found(s, t) == Good(t) /\ Moved(s, t) /\ t.reg \in Scratch /\ Free(t, t.reg)

LEMMA UnusedRegOK ==
  ASSUME NEW s, Good(s), NEW spilt, NEW first, first = FirstInReg(s),
         FreeRegs(s, Scratch) = {}
           => Halted(spilt) \/ (Freed(s, spilt, first) /\ ~InReg(spilt, first)),
         NEW t, t = UnusedReg(s, spilt)
  PROVE  Halted(t) \/ Found(s, t)
<1>0. s \in State
  BY DEF Good
<1>1. CASE FreeRegs(s, Scratch) # {}
  <2> DEFINE r == Lowest(FreeRegs(s, Scratch))
  <2>1. r \in Scratch /\ Free(s, r) /\ r \in Nat
    BY <1>1, FreeRegsFree, RegSets
  <2>2. t = [s EXCEPT !.reg = r]
    BY <1>1 DEF UnusedReg
  <2> HIDE DEF r
  <2>3. Good(t) /\ Same(s, t) /\ t.v = s.v /\ t.list = s.list /\ t.cur = s.cur /\ t.reg = r
        /\ Live(t) = Live(s)
    BY <1>0, <2>1, <2>2, RegFields
  <2>4. Moved(s, t)
    BY <2>3, MovedSelf, MovedSame
  <2>5. Free(t, r)
    BY <2>1, <2>3 DEF Free, InRegAt, Same
  <2> QED BY <2>1, <2>3, <2>4, <2>5 DEF Found
<1>2. CASE FreeRegs(s, Scratch) = {}
  <2> DEFINE u == FreeupRegp(s, first, spilt)
             r == s.v[first].at
  <2>1. first \in Live(s) /\ InReg(s, first) /\ r \in Scratch
    BY <1>2, FirstOK
  <2>2. r \in Nat
    BY <2>1, RegSets
  <2>3. t = [u EXCEPT !.reg = r]
    BY <1>2 DEF UnusedReg
  <2>4. Halted(u) \/ Freed(s, u, first)
    BY <1>2, <2>1, FreeupOK
  <2> HIDE DEF u
  <2>5. CASE Halted(u)
    <3>1. u \in State /\ u.ice # "no"
      BY <2>5 DEF Halted
    <3> HIDE DEF r
    <3>2. t \in State /\ Same(u, t)
      BY <2>2, <2>3, <3>1, RegFields
    <3> QED BY <3>1, <3>2 DEF Halted, Same
  <2>6. CASE Freed(s, u, first)
    <3>1. Good(u) /\ Moved(s, u) /\ u \in State
      BY <2>6 DEF Freed, Good
    <3>2. Free(u, r)
      BY <2>1, <2>6, FreedFree
    <3> HIDE DEF r
    <3>3. Good(t) /\ Same(u, t) /\ t.v = u.v /\ t.list = u.list /\ t.cur = u.cur /\ t.reg = r
          /\ Live(t) = Live(u)
      BY <2>2, <2>3, <3>1, RegFields
    <3>4. Moved(s, t)
      BY <3>1, <3>3, MovedSame
    <3>5. Free(t, r)
      BY <3>2, <3>3 DEF Free, InRegAt, Same
    <3> QED BY <2>1, <3>3, <3>4, <3>5 DEF Found, r
  <2> QED BY <2>4, <2>5, <2>6
<1> QED BY <1>1, <1>2

LEMMA UnusedLastOK ==
  ASSUME NEW s, Good(s), NEW t, t = UnusedLast(s)
  PROVE  Halted(t) \/ Found(s, t)
<1> DEFINE first == FirstInReg(s)
           spilt == SpillLast(s, first)
<1>1. t = UnusedReg(s, spilt)
  BY DEF UnusedLast
<1>2. ASSUME FreeRegs(s, Scratch) = {}
      PROVE  Halted(spilt) \/ (Freed(s, spilt, first) /\ ~InReg(spilt, first))
  <2>1. first \in Live(s) /\ InReg(s, first)
    BY <1>2, FirstOK
  <2> HIDE DEF first
  <2> QED BY <2>1, SpillLastOK
<1> HIDE DEF first, spilt
<1> QED BY <1>1, <1>2, UnusedRegOK DEF first

-----------------------------------------------------------------------------
(* Copying a value, applying its offset, spilling.                         *)

\* Register r is written; value i is changed.
Write(s, r, c) == [s EXCEPT !.R[r] = c]
Revalue(s, i, x) == [s EXCEPT !.v = [s.v EXCEPT ![i] = x]]

LEMMA WriteFields ==
  ASSUME NEW s, s \in State, NEW r \in Regs, NEW c \in Content, NEW t, t = Write(s, r, c)
  PROVE  /\ t \in State /\ t.v = s.v /\ t.list = s.list /\ t.next = s.next /\ t.M = s.M /\ t.F = s.F
         /\ t.rsv = s.rsv /\ t.cs = s.cs /\ t.cur = s.cur /\ t.ice = s.ice /\ t.read = s.read
         /\ t.ret = s.ret /\ t.reg = s.reg /\ Live(t) = Live(s)
         /\ t.R[r] = c /\ \A q \in Regs \ {r} : t.R[q] = s.R[q]
<1> DEFINE R == [s.R EXCEPT ![r] = c]
<1>1. s.R \in [Regs -> Content]
  BY StateFields
<1>2. R \in [Regs -> Content] /\ R[r] = c /\ \A q \in Regs \ {r} : R[q] = s.R[q]
  <2> HIDE DEF Content
  <2> QED BY <1>1
<1>3. t = [s EXCEPT !.R = R]
  BY DEF Write
<1> HIDE DEF R
<1>4. t \in State
  BY <1>2, <1>3, StateUpdate
<1>5. /\ t.v = s.v /\ t.list = s.list /\ t.next = s.next /\ t.M = s.M /\ t.F = s.F
      /\ t.rsv = s.rsv /\ t.cs = s.cs /\ t.cur = s.cur /\ t.ice = s.ice /\ t.read = s.read
      /\ t.ret = s.ret /\ t.reg = s.reg /\ Live(t) = Live(s) /\ t.R = R
  <2> HIDE DEF Vals, Mem, Content
  <2> QED BY <1>3 DEF State, Live
<1> QED BY <1>2, <1>4, <1>5

\* Registers may be written if the prologue saves them.
LEMMA GoodWrite ==
  ASSUME NEW s, Good(s), NEW r \in Regs, r \in CalleeSave => r \in s.cs,
         NEW c \in Content, NEW t, t = Write(s, r, c)
  PROVE  Good(t)
<1>0. s \in State
  BY DEF Good
<1>1. /\ t \in State /\ t.v = s.v /\ t.list = s.list /\ t.next = s.next /\ t.M = s.M /\ t.F = s.F
      /\ t.rsv = s.rsv /\ t.cs = s.cs /\ t.cur = s.cur /\ t.ice = s.ice
      /\ Live(t) = Live(s) /\ \A q \in Regs \ {r} : t.R[q] = s.R[q]
  BY <1>0, WriteFields
<1>2. Kept(t)
  BY <1>1, RegSets DEF Good, Kept
<1>3. \A j \in Live(s) : Placed(s, j)
  BY DEF Good
<1> QED BY <1>1, <1>2, <1>3, GoodEdit DEF Good, Placed, InReg

\* A change of one value's reference count, offset or meaning.
LEMMA ValFieldsOf ==
  ASSUME NEW s, s \in State, NEW i \in Live(s), NEW x \in Val, NEW t,
         t = Revalue(s, i, x)
  PROVE  /\ t \in State /\ Same(s, t) /\ t.list = s.list /\ t.next = s.next /\ t.cur = s.cur
         /\ t.ret = s.ret /\ t.reg = s.reg /\ Live(t) = Live(s)
         /\ t.v[i] = x /\ \A j \in Live(s) \ {i} : t.v[j] = s.v[j]
<1> DEFINE v == [s.v EXCEPT ![i] = x]
<1>1. s.v \in Vals /\ i \in DOMAIN s.v
  BY StateFields DEF Live
<1>2. v \in Vals /\ DOMAIN v = Live(s) /\ v[i] = x /\ \A j \in Live(s) \ {i} : v[j] = s.v[j]
  BY <1>1, ValsUpdate DEF Live
<1> HIDE DEF v
<1>3. t = [s EXCEPT !.v = v]
  BY DEF v, Revalue
<1>4. t \in State
  BY <1>2, <1>3, StateUpdate
<1>5. /\ Same(s, t) /\ t.list = s.list /\ t.next = s.next /\ t.cur = s.cur
      /\ t.ret = s.ret /\ t.reg = s.reg /\ t.v = v
  <2> HIDE DEF Vals, Mem, Content
  <2> QED BY <1>3 DEF State, Same
<1>6. Live(t) = Live(s)
  BY <1>2, <1>5 DEF Live
<1> QED BY <1>2, <1>4, <1>5, <1>6

LEMMA RevalueGood ==
  ASSUME NEW s, Good(s), NEW i \in Live(s), NEW x \in Val, x.t = s.v[i].t, x.at = s.v[i].at,
         x.n >= 1, x.sem[1] # 0, x.t = "flag" => x.n = 1, x.t # "reg" => x.off = 0,
         NEW t, t = Revalue(s, i, x)
  PROVE  /\ Good(t) /\ Same(s, t) /\ t.list = s.list /\ t.next = s.next /\ t.cur = s.cur
         /\ t.ret = s.ret /\ t.reg = s.reg /\ Live(t) = Live(s)
         /\ t.v[i] = x /\ \A j \in Live(s) \ {i} : t.v[j] = s.v[j]
<1>0. s \in State
  BY DEF Good
<1>2. /\ t \in State /\ Same(s, t) /\ t.list = s.list /\ t.next = s.next /\ t.cur = s.cur
      /\ t.ret = s.ret /\ t.reg = s.reg /\ Live(t) = Live(s)
      /\ t.v[i] = x /\ \A j \in Live(s) \ {i} : t.v[j] = s.v[j]
  BY <1>0, ValFieldsOf
<1>3. /\ t.ice = "no" /\ s.cs \subseteq t.cs /\ t.rsv \subseteq s.rsv /\ DOMAIN t.M = DOMAIN s.M
      /\ Kept(t)
  BY <1>2 DEF Good, Same, Kept
<1>4. ASSUME NEW j \in Live(s)
      PROVE  /\ t.v[j].t = s.v[j].t /\ t.v[j].at = s.v[j].at
             /\ t.v[j].n >= 1 /\ t.v[j].sem[1] # 0
             /\ t.v[j].t = "flag" => t.v[j].n = 1
             /\ t.v[j].t # "reg" => t.v[j].off = 0
  <2>1. CASE j = i
    BY <2>1, <1>2
  <2>2. CASE j # i
    BY <2>2, <1>2 DEF Good, Placed, InReg
  <2> QED BY <2>1, <2>2
<1>5. Good(t)
  BY <1>2, <1>3, <1>4, GoodEdit
<1> QED BY <1>2, <1>5

LEMMA RetainOK ==
  ASSUME NEW s, Good(s), NEW i \in Live(s), s.v[i].t # "flag", NEW t, t = Retain(s, i)
  PROVE  /\ Good(t) /\ Same(s, t) /\ t.list = s.list /\ t.next = s.next /\ t.cur = s.cur
         /\ Live(t) = Live(s) /\ t.v[i].n = s.v[i].n + 1 /\ t.v[i].t = s.v[i].t
         /\ t.v[i].at = s.v[i].at /\ t.v[i].off = s.v[i].off /\ t.v[i].sem = s.v[i].sem
         /\ \A j \in Live(s) \ {i} : t.v[j] = s.v[j]
<1> DEFINE x == Value(s.v[i].n + 1, s.v[i].t, s.v[i].at, s.v[i].off, s.v[i].sem)
<1>1. /\ s.v[i] \in Val /\ Placed(s, i) /\ s.v[i].n \in Nat /\ s.v[i].t \in Kinds
      /\ s.v[i].at \in Nat /\ s.v[i].off \in Int /\ s.v[i].sem \in Content
  BY GoodVal
<1>2. s.v[i].n + 1 \in Nat /\ s.v[i].n + 1 >= 1
  BY <1>1
<1>3. t = Revalue(s, i, x)
  <2>1. [s.v[i] EXCEPT !.n = s.v[i].n + 1] = x
    BY <1>1, <1>2, ValFields
  <2> QED BY <2>1 DEF Retain, Revalue
<1>4. /\ x \in Val /\ x.n = s.v[i].n + 1 /\ x.t = s.v[i].t /\ x.at = s.v[i].at
      /\ x.off = s.v[i].off /\ x.sem = s.v[i].sem
  BY <1>1, <1>2, ValueVal
<1> HIDE DEF x
<1>5. x.n >= 1 /\ x.sem[1] # 0 /\ x.t # "flag" /\ (x.t # "reg" => x.off = 0)
  BY <1>1, <1>2, <1>4 DEF Placed, InReg
<1>6. /\ Good(t) /\ Same(s, t) /\ t.list = s.list /\ t.next = s.next /\ t.cur = s.cur
      /\ Live(t) = Live(s) /\ t.v[i] = x /\ \A j \in Live(s) \ {i} : t.v[j] = s.v[j]
  BY <1>3, <1>4, <1>5, RevalueGood
<1> QED BY <1>4, <1>6

LEMMA PlainOK ==
  ASSUME NEW s, Good(s), NEW i \in Live(s), NEW t, t = Plain(s, i)
  PROVE  /\ Good(t) /\ Same(s, t) /\ t.list = s.list /\ t.next = s.next /\ t.cur = s.cur
         /\ Live(t) = Live(s) /\ t.v[i].n = s.v[i].n /\ t.v[i].t = s.v[i].t
         /\ t.v[i].at = s.v[i].at /\ t.v[i].off = 0 /\ t.v[i].sem = s.v[i].sem
         /\ t.ret = s.ret /\ t.reg = s.reg /\ \A j \in Live(s) \ {i} : t.v[j] = s.v[j]
<1> DEFINE x == Value(s.v[i].n, s.v[i].t, s.v[i].at, 0, s.v[i].sem)
<1>1. /\ s.v[i] \in Val /\ Placed(s, i) /\ s.v[i].n \in Nat /\ s.v[i].t \in Kinds
      /\ s.v[i].at \in Nat /\ s.v[i].sem \in Content
  BY GoodVal
<1>3. t = Revalue(s, i, x)
  <2>1. [s.v[i] EXCEPT !.off = 0] = x
    BY <1>1, ValFields
  <2> QED BY <2>1 DEF Plain, Revalue
<1>4. /\ x \in Val /\ x.n = s.v[i].n /\ x.t = s.v[i].t /\ x.at = s.v[i].at
      /\ x.off = 0 /\ x.sem = s.v[i].sem
  BY <1>1, ValueVal
<1> HIDE DEF x
<1>5. x.n >= 1 /\ x.sem[1] # 0 /\ (x.t = "flag" => x.n = 1)
  BY <1>1, <1>4 DEF Placed
<1>6. /\ Good(t) /\ Same(s, t) /\ t.list = s.list /\ t.next = s.next /\ t.cur = s.cur
      /\ t.ret = s.ret /\ t.reg = s.reg
      /\ Live(t) = Live(s) /\ t.v[i] = x /\ \A j \in Live(s) \ {i} : t.v[j] = s.v[j]
  BY <1>3, <1>4, <1>5, RevalueGood
<1> QED BY <1>4, <1>6

\* v_dup() of a shared value in a register.
LEMMA CopyOK ==
  ASSUME NEW s, Good(s), NEW i \in Live(s), InReg(s, i), s.v[i].n > 1,
         s.reg \in Scratch, Free(s, s.reg), NEW t, t = CopyToReg(s, i)
  PROVE  /\ Good(t) /\ Live(t) = Live(s) \cup {s.next} /\ s.next \notin Live(s) /\ t.ret = s.next
         /\ t.v[s.next] = Value(1, "reg", s.reg, s.v[i].off, s.v[i].sem)
         /\ t.v[i] = Value(s.v[i].n - 1, "reg", s.v[i].at, s.v[i].off, s.v[i].sem)
         /\ \A j \in Live(s) \ {i} : t.v[j] = s.v[j]
         /\ t.list = Append(s.list, s.next) /\ t.cur = s.cur
         /\ t.R[s.reg] = s.R[s.v[i].at] /\ \A q \in Regs \ {s.reg} : t.R[q] = s.R[q]
         /\ t.M = s.M /\ t.F = s.F /\ t.rsv = s.rsv /\ t.cs = s.cs /\ t.read = s.read
<1> DEFINE u == Release(s, i)
           c == s.R[s.v[i].at]
           r == s.reg
           w == Write(u, r, c)
<1>1. /\ s \in State /\ s.ice = "no" /\ s.v[i] \in Val /\ Placed(s, i)
      /\ s.v[i].n \in Nat /\ s.v[i].t \in Kinds /\ s.v[i].at \in Nat /\ s.v[i].off \in Int
      /\ s.v[i].sem \in Content
  BY GoodVal
<1>2. s.R \in [Regs -> Content] /\ s.v[i].at \in Regs /\ r \in Regs /\ r \in Nat /\ r \notin CalleeSave
  BY <1>1, StateFields, RegSets DEF Placed
<1>3. c \in Content
  <2> HIDE DEF Content
  <2> QED BY <1>2
<1>4. t = New(w, "reg", r, s.v[i].off, s.v[i].sem)
  BY <1>1 DEF CopyToReg, Stopped, Write
<1>5. /\ Good(u) /\ Same(s, u) /\ Live(u) = Live(s) /\ u.list = s.list /\ u.cur = s.cur
      /\ \A j \in Live(s) \ {i} : u.v[j] = s.v[j]
      /\ u.v[i] = Value(s.v[i].n - 1, "reg", s.v[i].at, s.v[i].off, s.v[i].sem)
  BY <1>1, GoodRelease DEF InReg
<1>6. u.next = s.next
  <2> HIDE DEF Vals, Mem, Content
  <2> QED BY <1>1 DEF Release, State
<1>0. Free(s, r) /\ t = New(w, "reg", r, s.v[i].off, s.v[i].sem)
  BY <1>4
<1> HIDE DEF u, c, r
<1>7. /\ w \in State /\ w.v = u.v /\ w.list = u.list /\ w.next = u.next /\ w.M = u.M /\ w.F = u.F
      /\ w.rsv = u.rsv /\ w.cs = u.cs /\ w.cur = u.cur /\ w.ice = u.ice /\ w.read = u.read
      /\ Live(w) = Live(u) /\ w.R[r] = c /\ \A q \in Regs \ {r} : w.R[q] = u.R[q]
  <2>1. u \in State
    BY <1>5 DEF Good
  <2> QED BY <2>1, <1>2, <1>3, WriteFields
<1>8. Good(w)
  BY <1>2, <1>3, <1>5, GoodWrite
<1> HIDE DEF w
<1>9. Free(w, r) /\ w.next = s.next
  <2>1. \A j \in Live(s) : w.v[j].t = s.v[j].t /\ w.v[j].at = s.v[j].at
    <3>1. w.v[i].t = s.v[i].t /\ w.v[i].at = s.v[i].at
      <4>1. s.v[i].n - 1 \in Nat
        BY <1>1
      <4> QED BY <1>1, <1>5, <1>7, <4>1, ValueVal DEF InReg
    <3> QED BY <3>1, <1>5, <1>7
  <2> QED BY <2>1, <1>0, <1>5, <1>6, <1>7 DEF Free, InRegAt, Same
<1>10. Good(t)
  <2>1. s.v[i].sem[1] # 0 /\ "reg" \in Kinds
    BY <1>1 DEF Placed, Kinds
  <2> QED BY <2>1, <1>1, <1>2, <1>4, <1>8, <1>9, GoodNew
<1>11. /\ Same(w, t) /\ w.next \notin Live(w) /\ Live(t) = Live(w) \cup {w.next}
       /\ t.v[w.next] = Value(1, "reg", r, s.v[i].off, s.v[i].sem)
       /\ \A j \in Live(w) : t.v[j] = w.v[j]
       /\ t.list = Append(w.list, w.next) /\ t.cur = w.cur /\ t.ret = w.next
  <2>1. Listed(w) /\ "reg" \in Kinds
    BY <1>8 DEF Good, Kinds
  <2> QED BY <2>1, <1>1, <1>2, <1>4, <1>7, NewFields
<1> QED BY <1>5, <1>7, <1>9, <1>10, <1>11 DEF Same, c, r

LEMMA AddFields ==
  ASSUME NEW s, s \in State, NEW r \in Regs, NEW d, d \in Int, NEW t, t = AddTo(s, r, d)
  PROVE  /\ t \in State /\ t.v = s.v /\ t.list = s.list /\ t.next = s.next /\ t.M = s.M /\ t.F = Sum
         /\ t.rsv = s.rsv /\ t.cs = s.cs /\ t.cur = s.cur /\ t.ice = s.ice /\ t.read = s.read
         /\ t.ret = s.ret /\ t.reg = s.reg /\ Live(t) = Live(s)
         /\ t.R[r] = Plus(s.R[r], d) /\ \A q \in Regs \ {r} : t.R[q] = s.R[q]
<1> DEFINE c == Plus(s.R[r], d)
           R == [s.R EXCEPT ![r] = c]
<1>1. s.R \in [Regs -> Content]
  BY StateFields
<1>2. c \in Content /\ Sum \in Content
  <2> HIDE DEF Content
  <2>1. s.R[r] \in Content
    BY <1>1
  <2> QED BY <2>1, Contents
<1> HIDE DEF c
<1>3. R \in [Regs -> Content] /\ R[r] = c /\ \A q \in Regs \ {r} : R[q] = s.R[q]
  <2> HIDE DEF Content
  <2> QED BY <1>1, <1>2
<1>4. t = [s EXCEPT !.R = R, !.F = Sum]
  BY DEF AddTo, c
<1> HIDE DEF R
<1>5. t \in State
  <2> DEFINE RSet == [Regs -> Content]
             LSet == Seq(Nat)
             CSet == SUBSET CalleeSave
  <2> HIDE DEF Vals, Mem, Content, RSet, LSet, CSet
  <2>1. State = [v : Vals, list : LSet, next : Nat, R : RSet, M : Mem,
                 F : Content, rsv : SUBSET {2}, cs : CSet, cur : Nat,
                 ice : {"no", "reg_cp", "operand", "dividend"}, read : {"right", "sum", "wrong"},
                 ret : Nat, reg : Nat]
    BY DEF State, RSet, LSet, CSet
  <2>2. R \in RSet
    BY <1>3 DEF RSet
  <2> HIDE DEF State
  <2> QED BY <1>2, <1>4, <2>1, <2>2
<1>6. /\ t.v = s.v /\ t.list = s.list /\ t.next = s.next /\ t.M = s.M /\ t.F = Sum
      /\ t.rsv = s.rsv /\ t.cs = s.cs /\ t.cur = s.cur /\ t.ice = s.ice /\ t.read = s.read
      /\ t.ret = s.ret /\ t.reg = s.reg /\ Live(t) = Live(s) /\ t.R = R
  <2> HIDE DEF Vals, Mem, Content
  <2> QED BY <1>4 DEF State, Live
<1> QED BY <1>3, <1>5, <1>6 DEF c

LEMMA GoodAdd ==
  ASSUME NEW s, Good(s), NEW r \in Regs, r \in CalleeSave => r \in s.cs,
         NEW d, d \in Int, NEW t, t = AddTo(s, r, d)
  PROVE  Good(t)
<1>0. s \in State
  BY DEF Good
<1>1. /\ t \in State /\ t.v = s.v /\ t.list = s.list /\ t.next = s.next /\ t.M = s.M
      /\ t.rsv = s.rsv /\ t.cs = s.cs /\ t.cur = s.cur /\ t.ice = s.ice
      /\ Live(t) = Live(s) /\ \A q \in Regs \ {r} : t.R[q] = s.R[q]
  BY <1>0, AddFields
<1>2. Kept(t)
  BY <1>1, RegSets DEF Good, Kept
<1>3. \A j \in Live(s) : Placed(s, j)
  BY DEF Good
<1> QED BY <1>1, <1>2, <1>3, GoodEdit DEF Good, Placed, InReg

\* v_reg_apply_offset() on a copy: the offset d, put aside while the register for the copy was
\* looked for (s, where value i has none), is added to the copy and given back to the value.
LEMMA AddToCopyOK ==
  ASSUME NEW s, Good(s), NEW i \in Live(s), InReg(s, i), s.v[i].n > 1, s.v[i].off = 0,
         s.reg \in Scratch, Free(s, s.reg), NEW d, d \in Int,
         NEW t, t = AddToCopy(CopyToReg(s, i), i, d)
  PROVE  /\ Good(t) /\ Live(t) = Live(s) \cup {s.next} /\ s.next \notin Live(s) /\ t.ret = s.next
         /\ t.v[s.next] = Value(1, "reg", s.reg, 0, s.v[i].sem)
         /\ t.v[i] = Value(s.v[i].n - 1, "reg", s.v[i].at, d, s.v[i].sem)
         /\ \A j \in Live(s) \ {i} : t.v[j] = s.v[j]
         /\ t.list = Append(s.list, s.next) /\ t.cur = s.cur
         /\ t.R[s.reg] = Plus(s.R[s.v[i].at], d) /\ \A q \in Regs \ {s.reg} : t.R[q] = s.R[q]
         /\ t.M = s.M /\ t.F = Sum /\ t.rsv = s.rsv /\ t.cs = s.cs /\ t.read = s.read
<1> DEFINE c == CopyToReg(s, i)
           n == s.next
           r == s.reg
           a == AddTo(c, r, d)
           at == s.v[i].at
           m == s.v[i].n - 1
           sem == s.v[i].sem
           off == s.v[i].off
<1>1. /\ Good(c) /\ Live(c) = Live(s) \cup {n} /\ n \notin Live(s) /\ c.ret = n
      /\ c.v[n] = Value(1, "reg", r, off, sem) /\ c.v[i] = Value(m, "reg", at, off, sem)
      /\ \A j \in Live(s) \ {i} : c.v[j] = s.v[j]
      /\ c.list = Append(s.list, n) /\ c.cur = s.cur
      /\ c.R[r] = s.R[at] /\ \A q \in Regs \ {r} : c.R[q] = s.R[q]
      /\ c.M = s.M /\ c.F = s.F /\ c.rsv = s.rsv /\ c.cs = s.cs /\ c.read = s.read
  BY CopyOK
<1>2. /\ s.v[i].n \in Nat /\ at \in Nat /\ sem \in Content /\ m \in Nat /\ m >= 1 /\ sem[1] # 0
      /\ r \in Regs /\ r \in Nat /\ r \notin CalleeSave /\ off = 0
  <2>1. s.v[i].n \in Nat /\ at \in Nat /\ sem \in Content /\ Placed(s, i)
    BY GoodVal
  <2>2. m \in Nat /\ m >= 1
    BY <2>1
  <2> QED BY <2>1, <2>2, RegSets DEF Placed
<1>3. c.v[n].at = r /\ c.v[i].t = "reg" /\ c.v[i].at = at /\ c.v[i].n = m /\ c.v[i].sem = sem
  <2>1. "reg" \in Kinds /\ 0 \in Int /\ m \in Nat
    BY <1>2 DEF Kinds
  <2> HIDE DEF c, n, r, at, m, sem, off
  <2> QED BY <1>1, <1>2, <2>1, ValueVal
<1>4. t = [a EXCEPT !.v[i].off = d]
  <2>1. c.ice = "no" /\ c.v[c.ret].at = r
    BY <1>1, <1>3 DEF Good
  <2> QED BY <2>1 DEF AddToCopy, Stopped
<1> HIDE DEF c, n, r, at, m, sem, off
<1>5. /\ a \in State /\ a.v = c.v /\ a.list = c.list /\ a.next = c.next /\ a.M = c.M /\ a.F = Sum
      /\ a.rsv = c.rsv /\ a.cs = c.cs /\ a.cur = c.cur /\ a.ice = c.ice /\ a.read = c.read
      /\ a.ret = c.ret /\ Live(a) = Live(c)
      /\ a.R[r] = Plus(c.R[r], d) /\ \A q \in Regs \ {r} : a.R[q] = c.R[q]
  <2>1. c \in State /\ a = AddTo(c, r, d) /\ r \in Regs
    BY <1>1, <1>2 DEF Good
  <2> HIDE DEF a
  <2> QED BY <2>1, AddFields
<1>6. Good(a)
  BY <1>1, <1>2, GoodAdd
<1> HIDE DEF a
<1> DEFINE x == Value(m, "reg", at, d, sem)
<1>7. t = Revalue(a, i, x)
  <2>1. a.v[i] \in Val
    BY <1>1, <1>6, <1>5, GoodVal
  <2>2. [a.v[i] EXCEPT !.off = d] = Value(a.v[i].n, a.v[i].t, a.v[i].at, d, a.v[i].sem)
    BY <2>1, ValFields, Zenon
  <2>3. [a.v[i] EXCEPT !.off = d] = x
    BY <2>2, <1>3, <1>5
  <2> QED BY <1>4, <2>3 DEF Revalue
<1>10. x \in Val /\ x.n = m /\ x.t = "reg" /\ x.at = at /\ x.off = d /\ x.sem = sem
  <2>1. "reg" \in Kinds /\ m \in Nat /\ at \in Nat /\ sem \in Content
    BY <1>2 DEF Kinds
  <2>2. x \in Val
    BY <2>1, ValueVal
  <2>3. x.n = m /\ x.t = "reg" /\ x.at = at
    BY <2>1, ValueVal
  <2>4. x.off = d
    BY <2>1, ValueVal
  <2>5. x.sem = sem
    BY <2>1, ValueVal
  <2> QED BY <2>2, <2>3, <2>4, <2>5
<1> HIDE DEF x
<1>11. i \in Live(a) /\ a.v[i].t = "reg" /\ a.v[i].at = at
  BY <1>1, <1>3, <1>5
<1>8. /\ Good(t) /\ Same(a, t) /\ t.list = a.list /\ t.cur = a.cur /\ t.ret = a.ret
      /\ Live(t) = Live(a) /\ t.v[i] = x /\ \A j \in Live(a) \ {i} : t.v[j] = a.v[j]
  BY <1>2, <1>6, <1>7, <1>10, <1>11, RevalueGood
<1>9. n # i
  BY <1>1
<1> QED BY <1>1, <1>2, <1>3, <1>5, <1>8, <1>9 DEF Same, n, r, at, m, sem, off, x

\* v_spill_reg(): the value is in a slot of its own, holding what it held.
LEMMA SpillOK ==
  ASSUME NEW s, Good(s), NEW i \in Live(s), InReg(s, i), NEW t, t = SpillReg(s, i)
  PROVE  Halted(t) \/ (Freed(s, t, i) /\ ~InReg(t, i))
<1> DEFINE d == s.v[i].off
           slot == s.cur + 1
           a == Aalloc(s)
           b == Retain(a, i)
           p == Plain(b, i)
           f == UnusedLast(p)
           w == AddToCopy(CopyToReg(f, i), i, d)
<1>1. CASE d = 0
  <2>1. t = SpillLast(s, i)
    BY <1>1 DEF SpillReg
  <2> HIDE DEF d
  <2> QED BY <2>1, SpillLastOK
<1>2. CASE d # 0
  <2>1. /\ s \in State /\ s.cur \in Nat /\ slot \in Nat /\ slot > s.cur
        /\ s.v[i].n \in Nat /\ s.v[i].n >= 1 /\ s.v[i].at \in Regs /\ d \in Int
        /\ s.v[i].sem \in Content
    <3>1. s \in State /\ s.v[i].n \in Nat /\ Placed(s, i) /\ d \in Int /\ s.v[i].sem \in Content
      BY GoodVal
    <3>2. s.cur \in Nat
      BY <3>1, StateFields
    <3> QED BY <3>1, <3>2 DEF Placed
  <2>2. /\ Good(a) /\ Same(s, a) /\ a.v = s.v /\ a.list = s.list /\ Live(a) = Live(s)
        /\ a.cur = slot
    BY AallocFields
  <2>3. i \in Live(a) /\ a.v[i].t = "reg"
    BY <2>2 DEF InReg
  <2>4. /\ Good(b) /\ Same(a, b) /\ b.list = a.list /\ b.cur = a.cur /\ Live(b) = Live(a)
        /\ b.v[i].n = a.v[i].n + 1 /\ b.v[i].t = a.v[i].t /\ b.v[i].at = a.v[i].at
        /\ b.v[i].off = a.v[i].off /\ b.v[i].sem = a.v[i].sem
        /\ \A j \in Live(a) \ {i} : b.v[j] = a.v[j]
    <3> HIDE DEF a
    <3> QED BY <2>2, <2>3, RetainOK
  <2>5. /\ Good(p) /\ Same(b, p) /\ p.list = b.list /\ p.cur = b.cur /\ Live(p) = Live(b)
        /\ p.v[i].n = b.v[i].n /\ p.v[i].t = b.v[i].t /\ p.v[i].at = b.v[i].at
        /\ p.v[i].off = 0 /\ p.v[i].sem = b.v[i].sem
        /\ \A j \in Live(b) \ {i} : p.v[j] = b.v[j]
    <3> HIDE DEF b
    <3> QED BY <2>2, <2>3, <2>4, PlainOK
  <2>6. /\ Good(p) /\ Same(s, p) /\ p.list = s.list /\ p.cur = slot /\ Live(p) = Live(s)
        /\ p.v[i].n = s.v[i].n + 1 /\ p.v[i].t = "reg" /\ p.v[i].at = s.v[i].at
        /\ p.v[i].off = 0 /\ p.v[i].sem = s.v[i].sem
        /\ \A j \in Live(s) \ {i} : p.v[j] = s.v[j]
    BY <2>2, <2>3, <2>4, <2>5 DEF Same
  <2>7. t = SpillCopy(w, i, slot)
    <3>1. b.v[i].off = d /\ b.v[i].n # 1
      BY <2>1, <2>2, <2>4
    <3>2. ApplyLast(b, i) = w
      BY <1>2, <3>1 DEF ApplyLast, ApplyOffset
    <3> QED BY <1>2, <3>2 DEF SpillReg
  <2>8. Halted(f) \/ Found(p, f)
    <3> HIDE DEF p
    <3> QED BY <2>6, UnusedLastOK
  <2> HIDE DEF p, b, a, f, d
  <2>9. CASE Halted(f)
    <3>1. f \in State /\ f.ice # "no" /\ Stopped(f)
      BY <2>9 DEF Halted, Stopped
    <3>2. w = f
      BY <3>1 DEF CopyToReg, AddToCopy
    <3>3. t = f
      BY <2>7, <3>1, <3>2 DEF SpillCopy
    <3> QED BY <2>9, <3>3
  <2>10. CASE Found(p, f) /\ ~InReg(f, i)
    <3>1. f \in State /\ f.ice = "no"
      BY <2>10 DEF Found, Good
    <3>2. CopyToReg(f, i) = RegCpIce(f)
      BY <2>10, <3>1 DEF CopyToReg, Stopped
    <3> DEFINE h == RegCpIce(f)
    <3>3. Halted(h)
      BY <3>1, IceHalts
    <3> HIDE DEF h
    <3>4. w = h
      BY <3>2, <3>3 DEF AddToCopy, Halted, Stopped, h
    <3>5. t = h
      BY <2>7, <3>3, <3>4 DEF SpillCopy, Halted, Stopped
    <3> QED BY <3>3, <3>5
  <2>11. CASE Found(p, f) /\ InReg(f, i)
    <3> DEFINE n == f.next
               r == f.reg
               u == Release(w, n)
               x == w.R[r]
    <3>1. Good(f) /\ Moved(p, f) /\ r \in Scratch /\ Free(f, r)
      BY <2>11 DEF Found
    <3>2. /\ Live(f) = Live(s) /\ f.list = s.list /\ f.rsv = s.rsv /\ f.read = s.read
          /\ f.F \in {s.F, Sum} /\ \A j \in Live(s) : Follows(p, f, j)
          /\ f.cur >= slot /\ f.cur \in Nat
      <4>1. f.cur \in Nat /\ p.cur = slot
        BY <3>1, <2>6, StateFields DEF Good
      <4> QED BY <4>1, <2>6, <2>11, <3>1 DEF Moved, Same
    <3>3. /\ f.v[i].n = s.v[i].n + 1 /\ f.v[i].sem = s.v[i].sem /\ f.v[i].off = 0
          /\ f.R[f.v[i].at] = s.R[s.v[i].at] /\ f.v[i].t = "reg"
      BY <2>6, <2>11, <3>2 DEF Follows, InReg, Same
    <3>4. /\ Good(w) /\ Live(w) = Live(f) \cup {n} /\ n \notin Live(f) /\ w.ret = n
          /\ w.v[n] = Value(1, "reg", r, 0, f.v[i].sem)
          /\ w.v[i] = Value(f.v[i].n - 1, "reg", f.v[i].at, d, f.v[i].sem)
          /\ \A j \in Live(f) \ {i} : w.v[j] = f.v[j]
          /\ w.list = Append(f.list, n) /\ w.cur = f.cur
          /\ w.R[r] = Plus(f.R[f.v[i].at], d) /\ \A q \in Regs \ {r} : w.R[q] = f.R[q]
          /\ w.M = f.M /\ w.F = Sum /\ w.rsv = f.rsv /\ w.cs = f.cs /\ w.read = f.read
      <4>1. i \in Live(f) /\ f.v[i].n > 1
        BY <2>1, <3>2, <3>3
      <4>2. /\ Good(f) /\ InReg(f, i) /\ f.v[i].off = 0 /\ f.reg \in Scratch /\ Free(f, f.reg)
            /\ d \in Int /\ w = AddToCopy(CopyToReg(f, i), i, d)
        BY <2>1, <2>11, <3>1, <3>3
      <4> HIDE DEF w, d
      <4> QED BY <4>1, <4>2, AddToCopyOK
    <3>5. /\ w.v[i].t = "reg" /\ w.v[i].n = s.v[i].n /\ w.v[i].sem = s.v[i].sem
          /\ w.v[n].n = 1 /\ w.v[n].at = r /\ r \in Regs /\ i # n /\ i \in Live(w) /\ n \in Live(w)
      <4>1. r \in Regs /\ r \in Nat /\ f.v[i].at \in Nat /\ f.v[i].sem \in Content
            /\ f.v[i].n - 1 = s.v[i].n /\ "reg" \in Kinds
        <5>1. f.v[i].at \in Nat /\ f.v[i].sem \in Content
          BY <3>1, <3>2, GoodVal
        <5>2. f.v[i].n - 1 = s.v[i].n
          BY <2>1, <3>3
        <5> QED BY <3>1, <5>1, <5>2, RegSets DEF Kinds
      <4>2. w.v[n].n = 1 /\ w.v[n].at = r
        BY <3>4, <4>1, ValueVal
      <4>3. w.v[i].t = "reg" /\ w.v[i].n = s.v[i].n /\ w.v[i].sem = s.v[i].sem
        BY <2>1, <3>3, <3>4, <4>1, ValueVal
      <4> QED BY <3>2, <3>4, <4>1, <4>2, <4>3
    <3>6. t = StoreSpilt(u, i, slot, x)
      <4>1. w.ice = "no"
        BY <3>4 DEF Good
      <4> QED BY <2>7, <3>4, <3>5, <4>1 DEF SpillCopy, Stopped
    <3>18. u = Release(w, n)
      OBVIOUS
    <3> HIDE DEF w, n, r, u, x, slot
    <3>7. /\ Good(u) /\ Same(w, u) /\ Live(u) = Live(s) /\ u.cur = f.cur
          /\ \A j \in Live(s) : u.v[j] = w.v[j]
          /\ u.list = Unlink(w.list, n)
      <4>1. /\ Good(u) /\ Same(w, u) /\ Live(u) = Live(w) \ {n} /\ u.list = Unlink(w.list, n)
            /\ \A j \in Live(w) \ {n} : u.v[j] = w.v[j]
            /\ (\E j \in Live(u) : InReg(u, j)) => u.cur = w.cur
        <5>1. Good(w) /\ n \in Live(w) /\ w.v[n].n = 1
          BY <3>4, <3>5
        <5> QED BY <5>1, <3>18, GoodRelease
      <4>2. Live(u) = Live(s) /\ \A j \in Live(s) : u.v[j] = w.v[j]
        BY <3>2, <3>4, <4>1
      <4>3. u.cur = w.cur
        BY <3>5, <4>1, <4>2 DEF InReg
      <4> QED BY <3>4, <4>1, <4>2, <4>3
    <3>8. u.list = s.list
      <4>1. f.list \in Seq(Nat) /\ n \in Nat
        BY <3>1, StateFields DEF Good, n
      <4>2. \A k \in DOMAIN f.list : f.list[k] # n
        BY <3>1, <3>4 DEF Good, Listed
      <4> QED BY <3>2, <3>4, <3>7, <4>1, <4>2, UnlinkNewest
    <3>9. ASSUME NEW j \in Live(s), j # i, OnStack(u, j) PROVE u.v[j].at # slot
      <4>1. u.v[j] = f.v[j] /\ Follows(p, f, j) /\ p.v[j] = s.v[j] /\ s.v[j].at \in Nat
            /\ f.v[j].at \in Nat
        <5>1. s.v[j].at \in Nat /\ f.v[j].at \in Nat
          BY <3>1, <3>2, GoodVal
        <5> QED BY <5>1, <3>9, <2>6, <3>2, <3>4, <3>7
      <4>2. CASE InReg(p, j)
        <5>1. f.v[j].at > slot
          BY <2>6, <3>9, <4>1, <4>2 DEF Follows, InReg, OnStack
        <5> QED BY <4>1, <5>1, <2>1
      <4>3. CASE ~InReg(p, j)
        <5>1. u.v[j] = s.v[j] /\ OnStack(s, j)
          BY <3>9, <4>1, <4>3 DEF Follows, OnStack
        <5>2. s.v[j].at <= s.cur
          BY <5>1 DEF Good, Placed
        <5> QED BY <4>1, <5>1, <5>2, <2>1
      <4> QED BY <4>2, <4>3
    <3>10. x \in Content /\ x = Plus(s.R[s.v[i].at], d)
      <4>1. w.R \in [Regs -> Content]
        BY <3>4, StateFields DEF Good
      <4>2. x \in Content
        <5> HIDE DEF Content
        <5> QED BY <3>5, <4>1 DEF x
      <4> QED BY <3>3, <3>4, <4>2 DEF x
    <3>11. /\ InReg(u, i) /\ slot <= u.cur /\ i \in Live(u)
           /\ \A j \in Live(u) : OnStack(u, j) => u.v[j].at # slot
      <4>1. InReg(u, i) /\ ~OnStack(u, i) /\ i \in Live(u)
        BY <3>5, <3>7 DEF InReg, OnStack
      <4> QED BY <4>1, <2>1, <3>2, <3>7, <3>9
    <3>12. /\ Good(t) /\ Live(t) = Live(u) /\ t.list = u.list
           /\ t.R = u.R /\ t.F = u.F /\ t.rsv = u.rsv /\ t.read = u.read
           /\ t.v[i] = Value(u.v[i].n, "spilt", slot, 0, u.v[i].sem)
           /\ \A j \in Live(u) \ {i} : t.v[j] = u.v[j]
           /\ t.M[slot] = x /\ \A m \in DOMAIN u.M \ {slot} : t.M[m] = u.M[m]
           /\ (\E j \in Live(t) : InReg(t, j)) => t.cur = u.cur
      <4>1. Good(u) /\ slot \in Nat /\ x \in Content
        BY <2>1, <3>7, <3>10
      <4> QED BY <4>1, <3>6, <3>11, StoreSpiltOK
    <3>13. t.v[i].t = "spilt" /\ t.v[i].n = s.v[i].n /\ t.v[i].sem = s.v[i].sem /\ t.v[i].at = slot
      <4>1. u.v[i].n = s.v[i].n /\ u.v[i].sem = s.v[i].sem /\ "spilt" \in Kinds
        BY <3>5, <3>7 DEF Kinds
      <4> QED BY <4>1, <2>1, <3>12, ValueVal
    <3>14. ASSUME NEW j \in Live(s) \ {i} PROVE Follows(s, t, j)
      <4>1. /\ t.v[j] = f.v[j] /\ Follows(p, f, j) /\ p.v[j] = s.v[j] /\ j \in Live(p)
            /\ p.R = s.R /\ p.M = s.M /\ p.rsv = s.rsv /\ p.cur = slot /\ u.v[j] = f.v[j]
        BY <2>6, <3>2, <3>4, <3>7, <3>12 DEF Same
      <4>2. ASSUME OnStack(f, j) PROVE t.M[f.v[j].at] = f.M[f.v[j].at]
        <5>1. f.v[j].at # slot
          BY <4>1, <4>2, <3>9 DEF OnStack
        <5>2. f.v[j].at \in DOMAIN f.M
          BY <4>2, <3>1, <3>2 DEF Good, Placed
        <5> QED BY <5>1, <5>2, <3>4, <3>7, <3>12 DEF Same
      <4>3. ASSUME InReg(f, j) PROVE t.R[f.v[j].at] = f.R[f.v[j].at]
        <5>1. f.v[j].at \in Regs \ {r}
          BY <4>3, <3>1, <3>2 DEF Good, Placed, Free, InReg, InRegAt
        <5> QED BY <5>1, <3>4, <3>7, <3>12 DEF Same
      <4>4. ASSUME NEW q, Free(p, q) PROVE Free(s, q)
        <5>1. \A k \in Live(s) : p.v[k].t = s.v[k].t /\ p.v[k].at = s.v[k].at
          BY <2>6 DEF InReg
        <5> QED BY <4>1, <4>4, <5>1, <2>6 DEF Free, InRegAt
      <4>5. CASE ~InReg(s, j)
        BY <4>1, <4>2, <4>5 DEF Follows, InReg, OnStack
      <4>6. CASE InReg(s, j) /\ InReg(f, j)
        BY <4>1, <4>3, <4>4, <4>6 DEF Follows, InReg, OnStack
      <4>7. CASE InReg(s, j) /\ ~InReg(f, j)
        <5>1. f.v[j].t = "spilt" /\ f.v[j].at > slot /\ f.v[j].at \in Nat
              /\ f.M[f.v[j].at] = Plus(s.R[s.v[j].at], s.v[j].off)
          BY <4>1, <4>7, <3>1, <3>2, GoodVal DEF Follows, InReg
        <5>2. f.v[j].at > s.cur
          BY <5>1, <2>1
        <5>3. t.M[f.v[j].at] = f.M[f.v[j].at]
          BY <4>2, <5>1 DEF OnStack
        <5> QED BY <4>1, <4>7, <5>1, <5>2, <5>3 DEF Follows, InReg, OnStack
      <4> QED BY <4>5, <4>6, <4>7
    <3>15. t.F = Sum /\ t.rsv = s.rsv /\ t.read = s.read /\ t.list = s.list /\ Live(t) = Live(s)
      BY <3>2, <3>4, <3>7, <3>8, <3>12 DEF Same
    <3>16. (\E j \in Live(t) : InReg(t, j)) => t.cur >= s.cur
      <4>1. f.cur >= s.cur
        BY <2>1, <3>2
      <4> QED BY <4>1, <3>7, <3>12
    <3>17. t.M[t.v[i].at] = Plus(s.R[s.v[i].at], s.v[i].off) /\ t.v[i].at > s.cur
      BY <2>1, <3>10, <3>12, <3>13 DEF d
    <3> QED BY <3>12, <3>13, <3>14, <3>15, <3>16, <3>17, SpiltMoved
  <2> QED BY <2>8, <2>9, <2>10, <2>11
<1> QED BY <1>1, <1>2

\* v_unused_reg(), v_save_reg() and v_freeup_regp() with all of v_spill_reg().
LEMMA UnusedOK ==
  ASSUME NEW s, Good(s), NEW t, t = Unused(s)
  PROVE  Halted(t) \/ Found(s, t)
<1> DEFINE first == FirstInReg(s)
           spilt == SpillReg(s, first)
<1>1. t = UnusedReg(s, spilt)
  BY DEF Unused
<1>2. ASSUME FreeRegs(s, Scratch) = {}
      PROVE  Halted(spilt) \/ (Freed(s, spilt, first) /\ ~InReg(spilt, first))
  <2>1. first \in Live(s) /\ InReg(s, first)
    BY <1>2, FirstOK
  <2> HIDE DEF first
  <2> QED BY <2>1, SpillOK
<1> HIDE DEF first, spilt
<1> QED BY <1>1, <1>2, UnusedRegOK DEF first

LEMMA SaveOK ==
  ASSUME NEW s, Good(s), NEW i \in Live(s), InReg(s, i), NEW fnty \in BOOLEAN,
         fnty => s.v[i].at \in Scratch, NEW t, t = Save(s, i, fnty)
  PROVE  \/ Halted(t)
         \/ Good(t) /\ Moved(s, t) /\ ~NeedsSave(t, i, fnty)
<1> DEFINE spilt == SpillReg(s, i)
<1>1. t = SaveReg(s, i, fnty, spilt)
  BY DEF Save
<1>2. Halted(spilt) \/ (Freed(s, spilt, i) /\ ~InReg(spilt, i))
  BY SpillOK
<1> HIDE DEF spilt
<1>3. Halted(t) \/ (Freed(s, t, i) /\ (InReg(t, i) => fnty /\ t.v[i].at \in CalleeSave))
  BY <1>1, <1>2, SaveRegOK
<1>4. ASSUME Freed(s, t, i), InReg(t, i) => fnty /\ t.v[i].at \in CalleeSave
      PROVE  Good(t) /\ Moved(s, t) /\ ~NeedsSave(t, i, fnty)
  <2>1. Good(t) /\ Moved(s, t) /\ Follows(s, t, i)
    BY <1>4 DEF Freed, Moved
  <2>2. t.v[i].t \in {"reg", "spilt"}
    BY <2>1 DEF Follows, InReg
  <2> QED BY <1>4, <2>1, <2>2 DEF NeedsSave, InReg
<1> QED BY <1>3, <1>4

LEMMA FreeupAllOK ==
  ASSUME NEW s, Good(s), NEW i \in Live(s), InReg(s, i), s.v[i].at \in Scratch,
         NEW t, t = Freeup(s, i)
  PROVE  Halted(t) \/ Freed(s, t, i)
<1> DEFINE spilt == SpillReg(s, i)
<1>1. t = FreeupRegp(s, i, spilt)
  BY DEF Freeup
<1>2. Halted(spilt) \/ (Freed(s, spilt, i) /\ ~InReg(spilt, i))
  BY SpillOK
<1> HIDE DEF spilt
<1> QED BY <1>1, <1>2, FreeupOK

-----------------------------------------------------------------------------
(* What values hold.                                                       *)

\* The place value i names holds what it stands for; for flags, unless an
\* applied offset destroyed them; for others, unless such flags were read.
Holds(s, i) ==
  /\ s.v[i].t = "flag" => s.F \in {s.v[i].sem, Sum}
  /\ InReg(s, i) /\ s.read = "right" => Plus(s.R[s.v[i].at], s.v[i].off) = s.v[i].sem
  /\ OnStack(s, i) /\ s.read = "right" => s.M[s.v[i].at] = s.v[i].sem

\* All values do.
Right(s) == s.read # "wrong" /\ \A i \in Live(s) : Holds(s, i)

Inv(s) == Good(s) /\ Right(s)

LEMMA MovedHolds ==
  ASSUME NEW s, NEW t, Moved(s, t), NEW i \in Live(s), Holds(s, i)
  PROVE  Holds(t, i)
<1>1. Follows(s, t, i) /\ t.read = s.read /\ t.F \in {s.F, Sum}
  BY DEF Moved
<1>2. CASE InReg(s, i) /\ InReg(t, i)
  BY <1>1, <1>2 DEF Follows, Holds, InReg, OnStack
<1>3. CASE InReg(s, i) /\ t.v[i].t = "spilt"
  BY <1>1, <1>3 DEF Follows, Holds, InReg, OnStack
<1>4. CASE ~InReg(s, i)
  BY <1>1, <1>4 DEF Follows, Holds, InReg, OnStack
<1> QED BY <1>1, <1>2, <1>3, <1>4 DEF Follows

LEMMA MovedInv ==
  ASSUME NEW s, NEW t, Moved(s, t), Inv(s), Good(t)
  PROVE  Inv(t)
<1>1. \A i \in Live(t) : Holds(t, i)
  BY MovedHolds DEF Moved, Inv, Right
<1> QED BY <1>1 DEF Inv, Right, Moved

\* What a value holds depends on these places only.
LEMMA HoldsSame ==
  ASSUME NEW s, NEW t, NEW i, Holds(s, i), t.v[i].t = s.v[i].t, t.v[i].at = s.v[i].at,
         t.v[i].off = s.v[i].off, t.v[i].sem = s.v[i].sem, t.read = "right" => s.read = "right",
         s.v[i].t = "flag" => t.F \in {s.F, Sum},
         InReg(s, i) => t.R[s.v[i].at] = s.R[s.v[i].at],
         OnStack(s, i) => t.M[s.v[i].at] = s.M[s.v[i].at]
  PROVE  Holds(t, i)
<1>1. (InReg(t, i) <=> InReg(s, i)) /\ (OnStack(t, i) <=> OnStack(s, i))
  BY DEF InReg, OnStack
<1>2. t.v[i].t = "flag" => t.F \in {t.v[i].sem, Sum}
  BY DEF Holds
<1>3. InReg(t, i) /\ t.read = "right" => Plus(t.R[t.v[i].at], t.v[i].off) = t.v[i].sem
  BY <1>1 DEF Holds
<1>4. OnStack(t, i) /\ t.read = "right" => t.M[t.v[i].at] = t.v[i].sem
  BY <1>1 DEF Holds
<1> QED BY <1>2, <1>3, <1>4 DEF Holds

LEMMA LoadedBy ==
  ASSUME NEW s, NEW i
  PROVE  /\ InReg(s, i) => Loaded(s, i) = Plus(s.R[s.v[i].at], s.v[i].off)
         /\ OnStack(s, i) => Loaded(s, i) = s.M[s.v[i].at]
         /\ s.v[i].t = "flag" => Loaded(s, i) = s.F
         /\ s.v[i].t = "const" => Loaded(s, i) = s.v[i].sem
<1>1. CASE InReg(s, i)
  BY <1>1 DEF Loaded, InReg, OnStack
<1>2. CASE OnStack(s, i)
  BY <1>2 DEF Loaded, InReg, OnStack
<1>3. CASE s.v[i].t = "flag"
  BY <1>3 DEF Loaded, InReg, OnStack
<1>4. CASE s.v[i].t = "const"
  BY <1>4 DEF Loaded, InReg, OnStack
<1> QED BY <1>1, <1>2, <1>3, <1>4

LEMMA PlusContent ==
  ASSUME NEW c, c \in Content, NEW d, d \in Int
  PROVE  /\ Plus(c, d) \in Content /\ Plus(c, 0) = c /\ Plus(c, d)[1] = c[1]
         /\ \A e \in Int : Plus(Plus(c, d), e) = Plus(c, d + e)
BY DEF Content, Plus

LEMMA LoadedContent ==
  ASSUME NEW s, Good(s), NEW i \in Live(s)
  PROVE  Loaded(s, i) \in Content
<1>1. /\ s \in State /\ s.v[i] \in Val /\ Placed(s, i) /\ s.v[i].t \in Kinds /\ s.v[i].off \in Int
      /\ s.v[i].sem \in Content
  BY GoodVal
<1>2. s.R \in [Regs -> Content] /\ s.M \in Mem /\ s.F \in Content
  BY <1>1, StateFields
<1>3. CASE InReg(s, i)
  <2>1. s.R[s.v[i].at] \in Content
    <3> HIDE DEF Content
    <3> QED BY <1>1, <1>2, <1>3 DEF Placed
  <2>2. Plus(s.R[s.v[i].at], s.v[i].off) \in Content
    BY <1>1, <2>1, PlusContent
  <2> HIDE DEF Content
  <2> QED BY <1>3, <2>2, LoadedBy
<1>4. CASE OnStack(s, i)
  <2>1. s.M[s.v[i].at] \in Content
    BY <1>1, <1>2, <1>4, MemApply DEF Placed
  <2> HIDE DEF Content
  <2> QED BY <1>4, <2>1, LoadedBy
<1>5. CASE s.v[i].t \in {"flag", "const"}
  <2> HIDE DEF Content
  <2> QED BY <1>1, <1>2, <1>5, LoadedBy
<1> QED BY <1>1, <1>3, <1>4, <1>5 DEF Kinds, InReg, OnStack

-----------------------------------------------------------------------------
(* Values given a new place: v_reuse, v_to_reg, v_reg_apply_offset.        *)

LEMMA RetFields ==
  ASSUME NEW s, s \in State, NEW r, r \in Nat, NEW t, t = Ret(s, r)
  PROVE  /\ t \in State /\ Same(s, t) /\ t.v = s.v /\ t.list = s.list /\ t.next = s.next
         /\ t.cur = s.cur /\ t.ret = r /\ t.reg = s.reg /\ Live(t) = Live(s)
         /\ Good(s) => Good(t)
         /\ Inv(s) => Inv(t)
<1>1. t = [s EXCEPT !.ret = r]
  BY DEF Ret
<1>2. t \in State
  BY <1>1, StateUpdate
<1>3. /\ Same(s, t) /\ t.v = s.v /\ t.list = s.list /\ t.next = s.next
      /\ t.cur = s.cur /\ t.ret = r /\ t.reg = s.reg /\ Live(t) = Live(s)
  <2> HIDE DEF Vals, Mem, Content
  <2> QED BY <1>1 DEF Same, State, Live
<1>4. ASSUME Good(s) PROVE Good(t)
  <2>1. s.cur \in Nat /\ Below(s, s.cur)
    BY <1>4, StateFields, GoodBelow
  <2> QED BY <1>2, <1>3, <1>4, <2>1, GoodSame
<1>5. ASSUME Inv(s) PROVE Inv(t)
  <2>1. \A i \in Live(t) : Holds(t, i)
    BY <1>3, <1>5 DEF Inv, Right, Holds, Same, InReg, OnStack
  <2> QED BY <1>3, <1>4, <1>5, <2>1 DEF Inv, Right, Same
<1> QED BY <1>2, <1>3, <1>4, <1>5

\* Become(): value i, or a new one if i is shared, in register at or in the flags.
LEMMA BecomeOK ==
  ASSUME NEW s, Good(s), NEW i \in Live(s), NEW k, k \in {"reg", "flag"}, NEW at, at \in Nat,
         NEW c, c \in Content, c[1] # 0,
         k = "reg" => /\ at \in CalleeSave => at \in s.cs
                      /\ Free(s, at) \/ (InRegAt(s, i, at) /\ s.v[i].n = 1),
         NEW t, t = Become(s, i, k, at, c)
  PROVE  /\ Good(t) /\ Same(s, t) /\ t.ret \in Live(t) /\ t.v[t.ret] = Value(1, k, at, 0, c)
         /\ \A j \in Live(s) \ {i} : j \in Live(t) /\ j # t.ret /\ t.v[j] = s.v[j]
         /\ \A j \in Live(t) : j \in Live(s) \/ j = t.ret
         /\ s.v[i].n = 1 => t.ret = i /\ Live(t) = Live(s) /\ t.list = s.list
         /\ s.v[i].n > 1 => /\ t.ret \notin Live(s) /\ i \in Live(t)
                            /\ t.v[i] = Value(s.v[i].n - 1, s.v[i].t, s.v[i].at, s.v[i].off, s.v[i].sem)
<1>1. /\ s \in State /\ s.ice = "no" /\ s.v[i] \in Val /\ Placed(s, i)
      /\ s.v[i].n \in Nat /\ s.v[i].t \in Kinds /\ s.v[i].at \in Nat /\ s.v[i].off \in Int
      /\ s.v[i].sem \in Content
  BY GoodVal
<1>2. k \in Kinds /\ 1 \in Nat /\ 0 \in Int
  BY DEF Kinds
<1>3. CASE s.v[i].n > 1
  <2> DEFINE u == Release(s, i)
  <2>1. t = New(u, k, at, 0, c)
    BY <1>3 DEF Become
  <2>2. /\ Good(u) /\ Same(s, u) /\ Live(u) = Live(s)
        /\ \A j \in Live(s) \ {i} : u.v[j] = s.v[j]
        /\ u.v[i] = Value(s.v[i].n - 1, s.v[i].t, s.v[i].at, s.v[i].off, s.v[i].sem)
    BY <1>3, GoodRelease
  <2> HIDE DEF u
  <2>3. u.v[i].t = s.v[i].t /\ u.v[i].at = s.v[i].at
    <3>1. s.v[i].n - 1 \in Nat
      BY <1>1, <1>3
    <3> QED BY <1>1, <2>2, <3>1, ValueVal
  <2>4. k = "reg" => Free(u, at) /\ (at \in CalleeSave => at \in u.cs)
    <3>1. ASSUME k = "reg" PROVE Free(s, at) /\ (at \in CalleeSave => at \in s.cs)
      BY <1>3, <1>1, <3>1
    <3>2. Free(s, at) => Free(u, at)
      BY <2>2, <2>3 DEF Free, InRegAt, Same
    <3> QED BY <2>2, <3>1, <3>2 DEF Same
  <2>5. Good(t)
    <3>1. k \notin {"spilt", "mem"}
      OBVIOUS
    <3> QED BY <1>2, <2>1, <2>2, <2>4, <3>1, GoodNew
  <2>6. /\ Same(u, t) /\ u.next \notin Live(u) /\ Live(t) = Live(u) \cup {u.next}
        /\ t.v[u.next] = Value(1, k, at, 0, c) /\ \A j \in Live(u) : t.v[j] = u.v[j]
        /\ t.ret = u.next
    <3>1. u \in State /\ Listed(u)
      BY <2>2 DEF Good
    <3> QED BY <1>2, <2>1, <3>1, NewFields
  <2>7. Same(s, t)
    BY <2>2, <2>6 DEF Same
  <2>8. \A j \in Live(s) \ {i} : j \in Live(t) /\ j # t.ret /\ t.v[j] = s.v[j]
    BY <2>2, <2>6
  <2>9. s.v[i].n # 1
    BY <1>1, <1>3
  <2> QED BY <1>3, <2>2, <2>5, <2>6, <2>7, <2>8, <2>9
<1>4. CASE s.v[i].n = 1
  <2> DEFINE x == Value(1, k, at, 0, c)
             u == Revalue(s, i, x)
  <2>1. t = Ret(u, i)
    <3> HIDE DEF x
    <3>1. t = [s EXCEPT !.v[i] = x, !.ret = i]
      BY <1>4 DEF Become, x
    <3> QED BY <3>1 DEF Ret, Revalue
  <2>2. x \in Val /\ x.n = 1 /\ x.t = k /\ x.at = at /\ x.off = 0 /\ x.sem = c
    BY <1>2, ValueVal
  <2> HIDE DEF x
  <2>3. /\ u \in State /\ Same(s, u) /\ u.list = s.list /\ u.next = s.next /\ u.cur = s.cur
        /\ Live(u) = Live(s) /\ u.v[i] = x /\ \A j \in Live(s) \ {i} : u.v[j] = s.v[j]
    BY <1>1, <2>2, ValFieldsOf
  <2> HIDE DEF u
  <2>4. Placed(u, i)
    <3>1. at \in Regs \ s.rsv \/ k = "flag"
      BY <1>1 DEF Free, InRegAt, Placed, InReg
    <3> QED BY <2>2, <2>3, <3>1 DEF Placed, InReg, OnStack, Same
  <2>5. ASSUME NEW j \in Live(s) \ {i} PROVE Apart(u, i, j)
    <3>1. u.v[j] = s.v[j] /\ j # i
      BY <2>3
    <3>2. ASSUME k = "reg", InReg(s, j) PROVE s.v[j].at # at
      <4>1. CASE Free(s, at)
        BY <3>2, <4>1 DEF Free, InRegAt, InReg
      <4>2. CASE InRegAt(s, i, at)
        BY <3>1, <3>2, <4>2 DEF Good, Apart, InRegAt, InReg
      <4> QED BY <3>2, <4>1, <4>2
    <3> QED BY <2>2, <2>3, <3>1, <3>2 DEF Apart, InReg, OnStack
  <2>6. Good(u)
    <3>1. u.ice = "no" /\ u.rsv = s.rsv /\ u.cs = s.cs /\ u.M = s.M /\ Kept(u) /\ s.cur \in Nat
      BY <1>1, <2>3, StateFields DEF Same, Good, Kept
    <3>2. u.cur >= s.cur
      BY <2>3, <3>1
    <3> QED BY <2>3, <2>4, <2>5, <3>1, <3>2, GoodUpdate
  <2>7. /\ Good(t) /\ Same(u, t) /\ t.v = u.v /\ t.list = u.list /\ t.ret = i /\ Live(t) = Live(u)
    <3>1. i \in Nat
      BY <1>1, StateFields
    <3> QED BY <2>1, <2>3, <2>6, <3>1, RetFields
  <2>8. Same(s, t)
    BY <2>3, <2>7 DEF Same
  <2> QED BY <1>1, <1>4, <2>3, <2>7, <2>8 DEF x
<1> QED BY <1>1, <1>3, <1>4 DEF Placed

\* Value j stays where it is, or moves as v_save_reg() or v_spill_reg() moves it.
Stays(s, t, j) ==
  /\ t.v[j].n = s.v[j].n
  /\ t.v[j].t = s.v[j].t \/ (InReg(s, j) /\ t.v[j].t = "spilt")
  /\ s.v[j].off = 0 => t.v[j].off = 0
  /\ InReg(s, j) /\ InReg(t, j) /\ s.v[j].at \in CalleeSave => t.v[j].at \in CalleeSave

\* What a function that takes value i and returns it in another place does to the
\* rest: t.ret is i or, if i is shared, may be a new value; the others stay.
Carried(s, t, i) ==
  /\ t.ret \in Live(t) /\ (t.ret = i \/ t.ret \notin Live(s)) /\ t.rsv = s.rsv
  /\ s.v[i].n = 1 => t.ret = i /\ Live(t) = Live(s) /\ t.list = s.list /\ t.v[i].n = 1
  /\ \A j \in Live(s) \ {i} : j \in Live(t) /\ Stays(s, t, j)
  /\ \A j \in Live(t) : t.v[j].t = "flag" => j \in Live(s) \ {i}

LEMMA CarriedTrans ==
  ASSUME NEW s, NEW t, NEW u, NEW i, Carried(s, t, i), Carried(t, u, t.ret)
  PROVE  Carried(s, u, i)
<1>1. /\ t.ret \in Live(t) /\ (t.ret = i \/ t.ret \notin Live(s)) /\ t.rsv = s.rsv
      /\ \A j \in Live(s) \ {i} : j \in Live(t) /\ Stays(s, t, j)
      /\ \A j \in Live(t) : t.v[j].t = "flag" => j \in Live(s) \ {i}
  BY DEF Carried
<1>2. /\ u.ret \in Live(u) /\ (u.ret = t.ret \/ u.ret \notin Live(t)) /\ u.rsv = t.rsv
      /\ \A j \in Live(t) \ {t.ret} : j \in Live(u) /\ Stays(t, u, j)
      /\ \A j \in Live(u) : u.v[j].t = "flag" => j \in Live(t) \ {t.ret}
  BY DEF Carried
<1>3. s.v[i].n = 1 => u.ret = i /\ Live(u) = Live(s) /\ u.list = s.list /\ u.v[i].n = 1
  BY DEF Carried
<1>4. ASSUME NEW j \in Live(s) \ {i} PROVE j \in Live(u) /\ Stays(s, u, j)
  <2>1. j \in Live(t) \ {t.ret} /\ Stays(s, t, j)
    BY <1>1
  <2>2. j \in Live(u) /\ Stays(t, u, j)
    BY <1>2, <2>1
  <2> QED BY <2>1, <2>2 DEF Stays, InReg
<1>5. ASSUME NEW j \in Live(u), u.v[j].t = "flag" PROVE j \in Live(s) \ {i}
  <2>1. j \in Live(t) \ {t.ret} /\ Stays(t, u, j)
    BY <1>2, <1>5
  <2>2. t.v[j].t = "flag"
    BY <1>5, <2>1 DEF Stays
  <2> QED BY <1>1, <2>1, <2>2
<1>6. u.ret = i \/ u.ret \notin Live(s)
  BY <1>1, <1>2
<1> QED BY <1>1, <1>2, <1>3, <1>4, <1>5, <1>6 DEF Carried

LEMMA MovedStays ==
  ASSUME NEW s, NEW t, Moved(s, t), Good(t), NEW j \in Live(s)
  PROVE  Stays(s, t, j)
<1>1. Follows(s, t, j) /\ j \in Live(t)
  BY DEF Moved
<1>2. t.v[j].t # "reg" => t.v[j].off = 0
  BY <1>1 DEF Good, Placed, InReg
<1>3. CASE InReg(s, j) /\ InReg(t, j)
  BY <1>1, <1>3, RegSets DEF Follows, Stays, InReg
<1>4. CASE InReg(s, j) /\ t.v[j].t = "spilt"
  BY <1>1, <1>2, <1>4 DEF Follows, Stays, InReg
<1>5. CASE ~InReg(s, j)
  BY <1>1, <1>5 DEF Follows, Stays, InReg
<1> QED BY <1>1, <1>3, <1>4, <1>5 DEF Follows

\* A register is looked for, then something is done with value i.
LEMMA MovedCarried ==
  ASSUME NEW s, NEW t, NEW u, NEW i \in Live(s), Moved(s, t), Good(t), Carried(t, u, i)
  PROVE  Carried(s, u, i)
<1>1. Live(t) = Live(s) /\ t.list = s.list /\ t.rsv = s.rsv
  BY DEF Moved
<1>2. \A j \in Live(s) : Stays(s, t, j)
  BY MovedStays
<1>3. ASSUME NEW j \in Live(s) \ {i} PROVE j \in Live(u) /\ Stays(s, u, j)
  <2>1. j \in Live(u) /\ Stays(t, u, j) /\ Stays(s, t, j)
    BY <1>1, <1>2 DEF Carried
  <2> QED BY <2>1 DEF Stays, InReg
<1>4. t.v[i].n = s.v[i].n
  BY <1>2 DEF Stays
<1> QED BY <1>1, <1>3, <1>4 DEF Carried

\* setcc and jcc: reading flags that still hold the comparison, or an applied
\* offset's, is never reading wrong ones.
LEMMA ReadFields ==
  ASSUME NEW s, Good(s), NEW i \in Live(s), NEW t, t = ReadFlags(s, i)
  PROVE  /\ Good(t) /\ Live(t) = Live(s) /\ t.v = s.v /\ t.list = s.list /\ t.next = s.next
         /\ t.R = s.R /\ t.M = s.M /\ t.F = s.F /\ t.rsv = s.rsv /\ t.cs = s.cs /\ t.cur = s.cur
         /\ t.ret = s.ret /\ t.reg = s.reg
         /\ t.read = "right" => s.read = "right" /\ (s.v[i].t = "flag" => s.F = s.v[i].sem)
         /\ s.read # "wrong" /\ Holds(s, i) => t.read # "wrong"
<1> DEFINE x == IF s.v[i].t # "flag" \/ s.F = s.v[i].sem THEN s.read
                ELSE IF s.F = Sum THEN "sum" ELSE "wrong"
<1>0. s \in State /\ s.ice = "no" /\ s.read \in {"right", "sum", "wrong"}
  BY StateFields DEF Good
<1>1. t = [s EXCEPT !.read = x]
  BY DEF ReadFlags
<1>2. /\ x \in {"right", "sum", "wrong"}
      /\ x = "right" => s.read = "right" /\ (s.v[i].t = "flag" => s.F = s.v[i].sem)
      /\ s.read # "wrong" /\ Holds(s, i) => x # "wrong"
  BY <1>0 DEF Holds
<1> HIDE DEF x
<1>3. t \in State
  <2> DEFINE RSet == [Regs -> Content]
             LSet == Seq(Nat)
             CSet == SUBSET CalleeSave
  <2> HIDE DEF Vals, Mem, Content, RSet, LSet, CSet
  <2>1. State = [v : Vals, list : LSet, next : Nat, R : RSet, M : Mem,
                 F : Content, rsv : SUBSET {2}, cs : CSet, cur : Nat,
                 ice : {"no", "reg_cp", "operand", "dividend"}, read : {"right", "sum", "wrong"},
                 ret : Nat, reg : Nat]
    BY DEF State, RSet, LSet, CSet
  <2> HIDE DEF State
  <2> QED BY <1>0, <1>1, <1>2, <2>1
<1>4. /\ Live(t) = Live(s) /\ t.v = s.v /\ t.list = s.list /\ t.next = s.next
      /\ t.R = s.R /\ t.M = s.M /\ t.F = s.F /\ t.rsv = s.rsv /\ t.cs = s.cs /\ t.cur = s.cur
      /\ t.ret = s.ret /\ t.reg = s.reg /\ t.read = x /\ t.ice = s.ice
  <2> HIDE DEF Vals, Mem, Content
  <2> QED BY <1>0, <1>1 DEF State, Live
<1>5. Good(t)
  <2>1. Kept(t)
    BY <1>4 DEF Good, Kept
  <2>2. \A j \in Live(s) : Placed(s, j)
    BY DEF Good
  <2> QED BY <1>0, <1>3, <1>4, <2>1, <2>2, GoodEdit DEF Placed, InReg
<1> QED BY <1>2, <1>4, <1>5

\* A read of value i from where it is gives what it stands for.
LEMMA LoadedRight ==
  ASSUME NEW s, Good(s), NEW i \in Live(s), Holds(s, i), s.read = "right",
         s.v[i].t = "flag" => s.F = s.v[i].sem
  PROVE  Loaded(s, i) = s.v[i].sem
<1>1. s.v[i].t \in Kinds
  BY GoodVal
<1>2. CASE InReg(s, i)
  BY <1>2, LoadedBy DEF Holds
<1>3. CASE OnStack(s, i)
  BY <1>3, LoadedBy DEF Holds
<1>4. CASE s.v[i].t \in {"flag", "const"}
  BY <1>4, LoadedBy
<1> QED BY <1>1, <1>2, <1>3, <1>4 DEF Kinds, InReg, OnStack

LEMMA LoadOK ==
  ASSUME NEW s, Inv(s), NEW i \in Live(s), NEW r, r \in Scratch, Free(s, r),
         NEW t, t = LoadInto(s, i, r)
  PROVE  /\ Inv(t) /\ Carried(s, t, i) /\ InRegAt(t, t.ret, r) /\ t.v[t.ret].off = 0
         /\ t.v[t.ret].n = 1 /\ \A j \in Live(s) \ {i} : t.v[j] = s.v[j]
<1> DEFINE a == ReadFlags(s, i)
           c == Loaded(s, i)
           w == Write(a, r, c)
           sem == s.v[i].sem
<1>0. /\ s \in State /\ s.v[i].n \in Nat /\ s.v[i].t \in Kinds /\ s.v[i].at \in Nat
      /\ s.v[i].off \in Int /\ sem \in Content /\ Placed(s, i) /\ Good(s) /\ Holds(s, i)
      /\ s.read # "wrong" /\ \A j \in Live(s) : Holds(s, j)
  BY GoodVal DEF Inv, Right
<1>1. c \in Content
  BY <1>0, LoadedContent
<1>2. r \in Regs /\ r \in Nat /\ r \notin CalleeSave
  BY RegSets
<1>3. t = Become(w, i, "reg", r, sem)
  BY DEF LoadInto, Write
<1>4. /\ Good(a) /\ Live(a) = Live(s) /\ a.v = s.v /\ a.list = s.list /\ a.next = s.next
      /\ a.R = s.R /\ a.M = s.M /\ a.F = s.F /\ a.rsv = s.rsv /\ a.cs = s.cs
      /\ a.read = "right" => s.read = "right" /\ (s.v[i].t = "flag" => s.F = s.v[i].sem)
      /\ a.read # "wrong"
  BY <1>0, ReadFields
<1>5. a.read = "right" => c = sem
  BY <1>0, <1>4, LoadedRight
<1> HIDE DEF a, c
<1>6. /\ Good(w) /\ w.v = a.v /\ w.list = a.list /\ w.M = a.M /\ w.F = a.F
      /\ w.rsv = a.rsv /\ w.cs = a.cs /\ w.read = a.read /\ Live(w) = Live(a)
      /\ w.R[r] = c /\ \A q \in Regs \ {r} : w.R[q] = a.R[q]
  <2>1. Good(w)
    BY <1>1, <1>2, <1>4, GoodWrite
  <2>2. a \in State
    BY <1>4 DEF Good
  <2> QED BY <1>1, <1>2, <2>1, <2>2, WriteFields
<1> HIDE DEF w
<1>7. Free(w, r) /\ sem[1] # 0 /\ i \in Live(w) /\ w.v[i] = s.v[i]
  BY <1>0, <1>4, <1>6 DEF Free, InRegAt, Placed
<1> HIDE DEF sem
<1>8. /\ Good(t) /\ Same(w, t) /\ t.ret \in Live(t) /\ t.v[t.ret] = Value(1, "reg", r, 0, sem)
      /\ \A j \in Live(w) \ {i} : j \in Live(t) /\ j # t.ret /\ t.v[j] = w.v[j]
      /\ \A j \in Live(t) : j \in Live(w) \/ j = t.ret
      /\ w.v[i].n = 1 => t.ret = i /\ Live(t) = Live(w) /\ t.list = w.list
      /\ w.v[i].n > 1 => /\ t.ret \notin Live(w) /\ i \in Live(t)
                         /\ t.v[i] = Value(w.v[i].n - 1, w.v[i].t, w.v[i].at, w.v[i].off, w.v[i].sem)
  <2>1. /\ Good(w) /\ i \in Live(w) /\ r \in Nat /\ sem \in Content /\ sem[1] # 0
        /\ r \notin CalleeSave /\ Free(w, r) /\ t = Become(w, i, "reg", r, sem)
    BY <1>0, <1>2, <1>3, <1>6, <1>7 DEF sem
  <2> QED BY <2>1, BecomeOK
<1>9. /\ t.v[t.ret].n = 1 /\ t.v[t.ret].t = "reg" /\ t.v[t.ret].at = r /\ t.v[t.ret].off = 0
      /\ t.v[t.ret].sem = sem
  BY <1>0, <1>2, <1>8, ValueVal DEF Kinds
<1>10. s.v[i].n = 1 \/ s.v[i].n > 1
  BY <1>0 DEF Placed
<1>11. ASSUME i # t.ret, i \in Live(t)
       PROVE  /\ t.v[i].t = s.v[i].t /\ t.v[i].at = s.v[i].at /\ t.v[i].off = s.v[i].off
              /\ t.v[i].sem = s.v[i].sem /\ s.v[i].n > 1
  <2>1. s.v[i].n > 1 /\ s.v[i].n - 1 \in Nat
    BY <1>0, <1>7, <1>8, <1>10, <1>11
  <2>2. t.v[i] = Value(s.v[i].n - 1, s.v[i].t, s.v[i].at, s.v[i].off, s.v[i].sem)
    BY <1>7, <1>8, <2>1
  <2> QED BY <1>0, <2>1, <2>2, ValueVal DEF sem
<1>12. \A j \in Live(s) \ {i} : t.v[j] = s.v[j] /\ j \in Live(t)
  BY <1>4, <1>6, <1>8
<1>13. ASSUME NEW j \in Live(t) PROVE Holds(t, j)
  <2>1. CASE j = t.ret
    <3>1. t.R[r] = c /\ Plus(c, 0) = c /\ t.read = a.read
      BY <1>1, <1>6, <1>8, PlusContent DEF Same
    <3> QED BY <1>5, <1>9, <2>1, <3>1 DEF Holds, InReg, OnStack
  <2>2. CASE j # t.ret
    <3>1. j \in Live(s) /\ Holds(s, j)
      BY <1>0, <1>4, <1>6, <1>8, <2>2
    <3>2. /\ t.v[j].t = s.v[j].t /\ t.v[j].at = s.v[j].at /\ t.v[j].off = s.v[j].off
          /\ t.v[j].sem = s.v[j].sem
      BY <1>11, <1>12, <2>2, <3>1
    <3>3. t.read = "right" => s.read = "right"
      BY <1>4, <1>6, <1>8 DEF Same
    <3>4. t.F = s.F /\ t.M = s.M
      BY <1>4, <1>6, <1>8 DEF Same
    <3>5. InReg(s, j) => t.R[s.v[j].at] = s.R[s.v[j].at]
      <4>1. ASSUME InReg(s, j) PROVE s.v[j].at \in Regs \ {r}
        BY <1>0, <3>1, <4>1 DEF Good, Placed, Free, InReg, InRegAt
      <4> QED BY <1>4, <1>6, <1>8, <4>1 DEF Same
    <3> QED BY <3>1, <3>2, <3>3, <3>4, <3>5, HoldsSame
  <2> QED BY <2>1, <2>2
<1>14. Inv(t)
  BY <1>4, <1>6, <1>8, <1>13 DEF Inv, Right, Same
<1>15. Carried(s, t, i)
  <2>1. \A j \in Live(s) \ {i} : Stays(s, t, j)
    BY <1>12 DEF Stays, InReg
  <2>2. ASSUME NEW j \in Live(t), t.v[j].t = "flag" PROVE j \in Live(s) \ {i}
    <3>1. j # t.ret /\ j \in Live(s)
      BY <1>4, <1>6, <1>8, <1>9, <2>2
    <3>2. ASSUME j = i PROVE FALSE
      <4>1. s.v[i].t = "flag" /\ s.v[i].n > 1
        BY <1>11, <2>2, <3>1, <3>2
      <4> QED BY <1>0, <4>1 DEF Placed
    <3> QED BY <3>1, <3>2
  <2>3. t.rsv = s.rsv
    BY <1>4, <1>6, <1>8 DEF Same
  <2>4. s.v[i].n = 1 => t.ret = i /\ Live(t) = Live(s) /\ t.list = s.list /\ t.v[i].n = 1
    BY <1>4, <1>6, <1>7, <1>8, <1>9
  <2>5. t.ret = i \/ t.ret \notin Live(s)
    BY <1>4, <1>6, <1>7, <1>8, <1>10
  <2> QED BY <1>8, <1>12, <2>1, <2>2, <2>3, <2>4, <2>5 DEF Carried
<1> QED BY <1>9, <1>12, <1>14, <1>15 DEF InRegAt

\* v_to_reg().
LEMMA ToRegOK ==
  ASSUME NEW s, Inv(s), NEW i \in Live(s), NEW t, t = ToReg(s, i)
  PROVE  \/ Halted(t)
         \/ /\ Inv(t) /\ Carried(s, t, i) /\ InReg(t, t.ret)
            /\ ~InReg(s, i) => t.v[t.ret].at \in Scratch /\ t.v[t.ret].off = 0 /\ t.v[t.ret].n = 1
            /\ InReg(s, i) => t.v = s.v
<1>0. Good(s) /\ s \in State /\ i \in Nat
  <2>1. Good(s) /\ s \in State
    BY DEF Inv, Good
  <2> QED BY <2>1, StateFields
<1>1. CASE InReg(s, i)
  <2>1. t = Ret(s, i)
    BY <1>1 DEF ToReg
  <2>2. /\ Inv(t) /\ Same(s, t) /\ t.v = s.v /\ t.list = s.list /\ t.ret = i /\ Live(t) = Live(s)
    BY <1>0, <2>1, RetFields
  <2>3. Carried(s, t, i)
    BY <1>1, <2>2 DEF Carried, Stays, InReg, Same
  <2> QED BY <1>1, <2>2, <2>3 DEF InReg
<1>2. CASE ~InReg(s, i)
  <2> DEFINE u == Unused(s)
  <2>1. t = LoadUnused(u, i)
    BY <1>2 DEF ToReg
  <2>2. Halted(u) \/ Found(s, u)
    BY <1>0, UnusedOK
  <2> HIDE DEF u
  <2>3. CASE Halted(u)
    BY <2>1, <2>3 DEF LoadUnused, Halted, Stopped
  <2>4. CASE Found(s, u)
    <3> DEFINE r == u.reg
    <3>1. Good(u) /\ Moved(s, u) /\ r \in Scratch /\ Free(u, r) /\ i \in Live(u) /\ Inv(u)
      BY <2>4, MovedInv DEF Found, Moved
    <3>2. t = LoadInto(u, i, r)
      BY <2>1, <3>1 DEF LoadUnused, Stopped, Good
    <3> HIDE DEF r
    <3>3. Inv(t) /\ Carried(u, t, i) /\ InRegAt(t, t.ret, r) /\ t.v[t.ret].off = 0 /\ t.v[t.ret].n = 1
      BY <3>1, <3>2, LoadOK
    <3>4. Carried(s, t, i)
      BY <3>1, <3>3, MovedCarried
    <3> QED BY <1>2, <3>1, <3>3, <3>4 DEF InRegAt, InReg
  <2> QED BY <2>2, <2>3, <2>4
<1> QED BY <1>1, <1>2

\* v_reg_apply_offset().
LEMMA ApplyOK ==
  ASSUME NEW s, Inv(s), NEW i \in Live(s), InReg(s, i), NEW t, t = Apply(s, i)
  PROVE  Halted(t) \/ (Inv(t) /\ Carried(s, t, i) /\ InReg(t, t.ret) /\ t.v[t.ret].off = 0)
<1> DEFINE d == s.v[i].off
           at == s.v[i].at
<1>0. /\ Good(s) /\ s \in State /\ s.ice = "no" /\ s.v[i] \in Val /\ Placed(s, i) /\ i \in Nat
      /\ s.v[i].n \in Nat /\ at \in Nat /\ d \in Int /\ s.v[i].sem \in Content
      /\ s.read # "wrong" /\ \A j \in Live(s) : Holds(s, j)
  <2>1. Good(s) /\ s.read # "wrong" /\ \A j \in Live(s) : Holds(s, j)
    BY DEF Inv, Right
  <2>2. /\ s \in State /\ s.ice = "no" /\ s.v[i] \in Val /\ Placed(s, i)
        /\ s.v[i].n \in Nat /\ at \in Nat /\ d \in Int /\ s.v[i].sem \in Content
    BY <2>1, GoodVal
  <2> QED BY <2>1, <2>2, StateFields
<1>1. CASE d = 0
  <2>1. t = Ret(s, i)
    BY <1>1 DEF Apply, ApplyOffset
  <2>2. /\ Inv(t) /\ Same(s, t) /\ t.v = s.v /\ t.list = s.list /\ t.ret = i /\ Live(t) = Live(s)
    BY <1>0, <2>1, RetFields
  <2>3. Carried(s, t, i)
    BY <2>2 DEF Carried, Stays, InReg, Same
  <2> QED BY <1>1, <2>2, <2>3 DEF InReg
<1>2. CASE d # 0 /\ s.v[i].n = 1
  <2> DEFINE a == AddTo(s, at, d)
             p == Plain(a, i)
  <2>1. t = Ret(p, i)
    BY <1>2 DEF Apply, ApplyOffset
  <2>2. at \in Regs /\ (at \in CalleeSave => at \in s.cs)
    BY <1>0 DEF Placed
  <2> HIDE DEF d, at
  <2>3. /\ Good(a) /\ a.v = s.v /\ a.list = s.list /\ a.M = s.M /\ a.F = Sum
        /\ a.rsv = s.rsv /\ a.read = s.read /\ Live(a) = Live(s)
        /\ a.R[at] = Plus(s.R[at], d) /\ \A q \in Regs \ {at} : a.R[q] = s.R[q]
    <3>1. Good(a)
      BY <1>0, <2>2, GoodAdd
    <3> QED BY <1>0, <2>2, <3>1, AddFields
  <2> HIDE DEF a
  <2>4. /\ Good(p) /\ Same(a, p) /\ p.list = a.list /\ Live(p) = Live(a)
        /\ p.v[i].n = a.v[i].n /\ p.v[i].t = a.v[i].t /\ p.v[i].at = a.v[i].at
        /\ p.v[i].off = 0 /\ p.v[i].sem = a.v[i].sem
        /\ \A j \in Live(a) \ {i} : p.v[j] = a.v[j]
    BY <2>3, PlainOK
  <2> HIDE DEF p
  <2>5. /\ p.R[at] = Plus(s.R[at], d) /\ \A q \in Regs \ {at} : p.R[q] = s.R[q]
        /\ p.M = s.M /\ p.F = Sum /\ p.rsv = s.rsv /\ p.read = s.read /\ Live(p) = Live(s)
        /\ p.list = s.list /\ p.v[i].n = 1 /\ p.v[i].t = "reg" /\ p.v[i].at = at
        /\ p.v[i].sem = s.v[i].sem /\ \A j \in Live(s) \ {i} : p.v[j] = s.v[j]
    BY <1>2, <2>3, <2>4 DEF Same, InReg, at
  <2>6. ASSUME NEW j \in Live(p) PROVE Holds(p, j)
    <3>1. CASE j = i
      <4>1. p.R[at] \in Content
        <5>1. p.R \in [Regs -> Content]
          BY <2>4, StateFields DEF Good
        <5> HIDE DEF Content
        <5> QED BY <2>2, <5>1
      <4>2. Plus(p.R[at], 0) = p.R[at]
        BY <4>1, PlusContent
      <4>3. s.read = "right" => Plus(s.R[at], d) = s.v[i].sem
        BY <1>0 DEF Holds, at, d
      <4> QED BY <2>4, <2>5, <3>1, <4>2, <4>3 DEF Holds, InReg, OnStack
    <3>2. CASE j # i
      <4>1. j \in Live(s) /\ p.v[j] = s.v[j] /\ Holds(s, j)
        BY <1>0, <2>5, <3>2
      <4>2. InReg(s, j) => s.v[j].at \in Regs \ {at}
        BY <1>0, <3>2, <4>1 DEF Good, Placed, Apart, at
      <4> QED BY <2>5, <4>1, <4>2, HoldsSame
    <3> QED BY <3>1, <3>2
  <2>7. Inv(p)
    BY <1>0, <2>4, <2>5, <2>6 DEF Inv, Right
  <2>8. /\ Inv(t) /\ Same(p, t) /\ t.v = p.v /\ t.list = p.list /\ t.ret = i /\ Live(t) = Live(p)
    <3>1. p \in State
      BY <2>4 DEF Good
    <3> QED BY <1>0, <2>1, <2>7, <3>1, RetFields
  <2>9. Carried(s, t, i)
    <3>1. \A j \in Live(s) \ {i} : Stays(s, t, j)
      BY <2>5, <2>8 DEF Stays, InReg
    <3> QED BY <1>2, <2>5, <2>8, <3>1 DEF Carried, Same
  <2> QED BY <2>4, <2>5, <2>8, <2>9 DEF InReg
<1>3. CASE d # 0 /\ s.v[i].n # 1
  <2> DEFINE p == Plain(s, i)
             f == Unused(p)
             c == CopyToReg(f, i)
  <2>1. t = AddToCopy(c, i, d)
    BY <1>3 DEF Apply, ApplyOffset
  <2>2. /\ Good(p) /\ Same(s, p) /\ p.list = s.list /\ Live(p) = Live(s)
        /\ p.v[i].n = s.v[i].n /\ p.v[i].t = s.v[i].t /\ p.v[i].at = s.v[i].at
        /\ p.v[i].off = 0 /\ p.v[i].sem = s.v[i].sem
        /\ \A j \in Live(s) \ {i} : p.v[j] = s.v[j]
    BY <1>0, PlainOK
  <2> HIDE DEF d, p
  <2>3. Halted(f) \/ Found(p, f)
    BY <2>2, UnusedOK
  <2> HIDE DEF f
  <2>4. CASE Halted(f)
    <3>1. c = f /\ Stopped(f)
      BY <2>4 DEF CopyToReg, Halted, Stopped
    <3>2. t = f
      BY <2>1, <3>1 DEF AddToCopy
    <3> QED BY <2>4, <3>2
  <2>5. CASE Found(p, f) /\ ~InReg(f, i)
    <3>1. f \in State /\ f.ice = "no"
      BY <2>5 DEF Found, Good
    <3>2. c = RegCpIce(f)
      BY <2>5, <3>1 DEF CopyToReg, Stopped
    <3>3. Halted(c)
      BY <3>1, <3>2, IceHalts
    <3> HIDE DEF c
    <3>4. t = c
      BY <2>1, <3>3 DEF AddToCopy, Halted, Stopped
    <3> QED BY <3>3, <3>4
  <2>6. CASE Found(p, f) /\ InReg(f, i)
    <3> DEFINE n == f.next
               r == f.reg
    <3>1. Good(f) /\ Moved(p, f) /\ r \in Scratch /\ Free(f, r)
      BY <2>6 DEF Found
    <3>2. /\ Live(f) = Live(s) /\ f.list = s.list /\ f.rsv = s.rsv /\ f.read = s.read
          /\ i \in Live(f) /\ \A j \in Live(s) : Follows(p, f, j)
      BY <2>2, <3>1 DEF Moved, Same
    <3>3. /\ f.v[i].n = s.v[i].n /\ f.v[i].n > 1 /\ f.v[i].sem = s.v[i].sem /\ f.v[i].off = 0
          /\ f.v[i].t = "reg" /\ f.R[f.v[i].at] = s.R[at]
      <4>1. s.v[i].n > 1
        BY <1>0, <1>3 DEF Placed
      <4> QED BY <2>2, <2>6, <3>2, <4>1 DEF Follows, InReg, Same, at
    <3>4. /\ Good(t) /\ Live(t) = Live(f) \cup {n} /\ n \notin Live(f) /\ t.ret = n
          /\ t.v[n] = Value(1, "reg", r, 0, f.v[i].sem)
          /\ t.v[i] = Value(f.v[i].n - 1, "reg", f.v[i].at, d, f.v[i].sem)
          /\ \A j \in Live(f) \ {i} : t.v[j] = f.v[j]
          /\ t.R[r] = Plus(f.R[f.v[i].at], d) /\ \A q \in Regs \ {r} : t.R[q] = f.R[q]
          /\ t.M = f.M /\ t.F = Sum /\ t.rsv = f.rsv /\ t.cs = f.cs /\ t.read = f.read
      BY <1>0, <2>1, <2>6, <3>1, <3>2, <3>3, AddToCopyOK
    <3> HIDE DEF n, r
    <3>5. /\ f.v[i].at \in Regs \ {r} /\ f.v[i].at \in Nat /\ r \in Regs /\ r \in Nat
          /\ f.v[i].n - 1 \in Nat /\ f.v[i].sem \in Content /\ "reg" \in Kinds
      <4>1. f.v[i].at \in Nat /\ f.v[i].n \in Nat /\ f.v[i].sem \in Content /\ Placed(f, i)
        BY <3>1, <3>2, GoodVal
      <4>2. f.v[i].at \in Regs \ {r}
        BY <2>6, <3>1, <3>2, <4>1 DEF Placed, Free, InReg, InRegAt
      <4>3. f.v[i].n - 1 \in Nat
        BY <3>3, <4>1
      <4> QED BY <3>1, <4>1, <4>2, <4>3, RegSets DEF Kinds
    <3>6. /\ t.v[n].n = 1 /\ t.v[n].t = "reg" /\ t.v[n].at = r /\ t.v[n].off = 0
          /\ t.v[n].sem = s.v[i].sem
      BY <3>3, <3>4, <3>5, ValueVal
    <3>7. /\ t.v[i].t = "reg" /\ t.v[i].at = f.v[i].at /\ t.v[i].off = d /\ t.v[i].sem = s.v[i].sem
      BY <1>0, <3>3, <3>4, <3>5, ValueVal
    <3>8. s.read = "right" => Plus(s.R[at], d) = s.v[i].sem
      BY <1>0 DEF Holds, d
    <3>9. ASSUME NEW j \in Live(t) PROVE Holds(t, j)
      <4>1. CASE j = n
        <5>1. t.R[r] \in Content
          <6>1. t.R \in [Regs -> Content]
            BY <3>4, StateFields DEF Good
          <6> HIDE DEF Content
          <6> QED BY <3>5, <6>1
        <5>2. Plus(t.R[r], 0) = t.R[r]
          BY <5>1, PlusContent
        <5> QED BY <3>2, <3>3, <3>4, <3>6, <3>8, <4>1, <5>2 DEF Holds, InReg, OnStack
      <4>2. CASE j = i
        BY <3>2, <3>3, <3>4, <3>5, <3>7, <3>8, <4>2 DEF Holds, InReg, OnStack
      <4>3. CASE j # n /\ j # i
        <5>1. j \in Live(s) /\ j \in Live(f) /\ t.v[j] = f.v[j] /\ p.v[j] = s.v[j] /\ Holds(s, j)
          BY <1>0, <2>2, <3>2, <3>4, <4>3
        <5>2. Holds(p, j)
          BY <2>2, <5>1, HoldsSame DEF Same
        <5>3. Holds(f, j)
          BY <2>2, <3>1, <5>1, <5>2, MovedHolds
        <5>4. InReg(f, j) => f.v[j].at \in Regs \ {r}
          BY <3>1, <5>1 DEF Good, Placed, Free, InReg, InRegAt
        <5> QED BY <3>4, <5>1, <5>3, <5>4, HoldsSame
      <4> QED BY <4>1, <4>2, <4>3
    <3>10. Inv(t)
      BY <1>0, <3>2, <3>4, <3>9 DEF Inv, Right
    <3>11. Carried(s, t, i)
      <4>1. ASSUME NEW j \in Live(s) \ {i} PROVE j \in Live(t) /\ Stays(s, t, j)
        <5>1. t.v[j] = f.v[j] /\ p.v[j] = s.v[j] /\ Stays(p, f, j) /\ j \in Live(t)
          BY <2>2, <3>1, <3>2, <3>4, MovedStays
        <5> QED BY <5>1 DEF Stays, InReg
      <4>2. ASSUME NEW j \in Live(t), t.v[j].t = "flag" PROVE j \in Live(s) \ {i}
        BY <3>2, <3>4, <3>6, <3>7, <4>2
      <4> QED BY <1>3, <3>2, <3>4, <4>1, <4>2 DEF Carried
    <3> QED BY <3>4, <3>6, <3>10, <3>11 DEF InReg
  <2> QED BY <2>3, <2>4, <2>5, <2>6
<1> QED BY <1>1, <1>2, <1>3

\* v_to(TO_REG), v_to(TO_REG | TO_CONST).
LEMMA ToPlainRegOK ==
  ASSUME NEW s, Inv(s), NEW i \in Live(s), NEW t, t = ToPlainReg(s, i)
  PROVE  Halted(t) \/ (Inv(t) /\ Carried(s, t, i) /\ InReg(t, t.ret) /\ t.v[t.ret].off = 0)
<1> DEFINE u == ToReg(s, i)
<1>1. t = ApplyRet(u)
  BY DEF ToPlainReg, Stopped, Inv, Good
<1>2. Halted(u) \/ (Inv(u) /\ Carried(s, u, i) /\ InReg(u, u.ret))
  BY ToRegOK
<1> HIDE DEF u
<1>3. CASE Halted(u)
  BY <1>1, <1>3 DEF ApplyRet, Halted, Stopped
<1>4. CASE Inv(u) /\ Carried(s, u, i) /\ InReg(u, u.ret)
  <2> DEFINE k == u.ret
  <2>1. k \in Live(u) /\ InReg(u, k) /\ t = Apply(u, k)
    BY <1>1, <1>4 DEF Carried, ApplyRet, Stopped, Inv, Good
  <2> HIDE DEF k
  <2>2. Halted(t) \/ (Inv(t) /\ Carried(u, t, k) /\ InReg(t, t.ret) /\ t.v[t.ret].off = 0)
    BY <1>4, <2>1, ApplyOK
  <2> QED BY <1>4, <2>2, CarriedTrans DEF k
<1> QED BY <1>2, <1>3, <1>4

\* The operand an instruction can take: a constant or a register without offset.
Operand(t, i) == t.v[i].t = "const" \/ (InReg(t, i) /\ t.v[i].off = 0)

LEMMA ToRegOrConstOK ==
  ASSUME NEW s, Inv(s), NEW i \in Live(s), NEW t, t = ToRegOrConst(s, i)
  PROVE  Halted(t) \/ (Inv(t) /\ Carried(s, t, i) /\ Operand(t, t.ret))
<1>1. CASE s.v[i].t = "const"
  <2>1. t = Ret(s, i)
    BY <1>1 DEF ToRegOrConst
  <2>2. s \in State /\ i \in Nat
    <3>1. s \in State
      BY DEF Inv, Good
    <3> QED BY <3>1, StateFields
  <2>3. /\ Inv(t) /\ Same(s, t) /\ t.v = s.v /\ t.list = s.list /\ t.ret = i /\ Live(t) = Live(s)
    BY <2>1, <2>2, RetFields
  <2>4. Carried(s, t, i)
    BY <1>1, <2>3 DEF Carried, Stays, InReg, Same
  <2> QED BY <1>1, <2>3, <2>4 DEF Operand
<1>2. CASE s.v[i].t # "const"
  <2>1. t = ToPlainReg(s, i)
    BY <1>2 DEF ToRegOrConst
  <2> QED BY <2>1, ToPlainRegOK DEF Operand
<1> QED BY <1>1, <1>2

-----------------------------------------------------------------------------
(* The walks over all values.                                              *)

\* What v_decay_flags_except() and v_save_regs() leave alone.
Walked(s, t) ==
  /\ Live(t) = Live(s) /\ t.list = s.list /\ t.rsv = s.rsv
  /\ \A j \in Live(s) : /\ t.v[j].n = s.v[j].n
                        /\ t.v[j].t = "flag" => s.v[j].t = "flag"

LEMMA WalkedTrans ==
  ASSUME NEW s, NEW t, NEW u, Walked(s, t), Walked(t, u)
  PROVE  Walked(s, u)
BY DEF Walked

LEMMA MovedWalked ==
  ASSUME NEW s, NEW t, Moved(s, t), Good(t)
  PROVE  Walked(s, t)
<1>1. \A j \in Live(s) : Stays(s, t, j)
  BY MovedStays
<1> QED BY <1>1 DEF Walked, Moved, Stays

LEMMA SetccLoads ==
  ASSUME NEW s, Good(s), NEW i \in Live(s), s.v[i].t = "flag", NEW r, r \in Regs
  PROVE  SetccTo(s, i, r) = Ret(LoadInto(s, i, r), s.ret)
<1>1. s \in State /\ s.v[i].n = 1
  <2>1. s \in State /\ Placed(s, i)
    BY GoodVal
  <2> QED BY <2>1 DEF Placed
<1> DEFINE a == ReadFlags(s, i)
           x == Value(1, "reg", r, 0, s.v[i].sem)
           v == [s.v EXCEPT ![i] = x]
           R == [s.R EXCEPT ![r] = s.F]
<1>2. Good(a) /\ a.v = s.v /\ a.R = s.R /\ a.ret = s.ret
  BY ReadFields
<1> HIDE DEF a
<1>3. SetccTo(s, i, r) = [a EXCEPT !.R = R, !.v = v]
  BY <1>1, <1>2 DEF SetccTo, a
<1>4. Loaded(s, i) = s.F
  BY LoadedBy
<1>5. LoadInto(s, i, r) = [a EXCEPT !.R = R, !.v = v, !.ret = i]
  <2> DEFINE w == [a EXCEPT !.R = R]
  <2>1. LoadInto(s, i, r) = Become(w, i, "reg", r, s.v[i].sem)
    BY <1>2, <1>4 DEF LoadInto, a
  <2>2. w.v = s.v
    <3>1. a \in State
      BY <1>2 DEF Good
    <3> HIDE DEF Vals, Mem, Content, R
    <3> QED BY <1>2, <3>1 DEF State
  <2>3. Become(w, i, "reg", r, s.v[i].sem) = [w EXCEPT !.v = v, !.ret = i]
    <3> HIDE DEF w
    <3> QED BY <1>1, <2>2 DEF Become
  <2> QED BY <2>1, <2>3
<1> HIDE DEF R, v
<1>6. [[a EXCEPT !.R = R, !.v = v, !.ret = i] EXCEPT !.ret = s.ret] = [a EXCEPT !.R = R, !.v = v]
  <2>1. a \in State
    BY <1>2 DEF Good
  <2> HIDE DEF Vals, Mem, Content
  <2> QED BY <1>2, <2>1 DEF State
<1> QED BY <1>3, <1>5, <1>6 DEF Ret

LEMMA DecayOneOK ==
  ASSUME NEW s, Inv(s), NEW i \in Live(s), NEW except, NEW t, t = DecayOne(s, i, except)
  PROVE  \/ Halted(t)
         \/ Inv(t) /\ Walked(s, t) /\ (i \notin except => t.v[i].t # "flag")
<1>0. Good(s)
  BY DEF Inv
<1>1. CASE s.v[i].t # "flag" \/ i \in except
  <2>1. t = s
    BY <1>1 DEF DecayOne
  <2> QED BY <1>1, <2>1 DEF Walked
<1>2. CASE s.v[i].t = "flag" /\ i \notin except
  <2> DEFINE u == Unused(s)
  <2>1. t = SetccUnused(u, i)
    <3>1. ~Stopped(s)
      BY <1>0 DEF Good, Stopped
    <3> QED BY <1>2, <3>1 DEF DecayOne, DecayFlag
  <2>2. Halted(u) \/ Found(s, u)
    BY <1>0, UnusedOK
  <2> HIDE DEF u
  <2>3. CASE Halted(u)
    BY <2>1, <2>3 DEF SetccUnused, Halted, Stopped
  <2>4. CASE Found(s, u)
    <3> DEFINE r == u.reg
               w == LoadInto(u, i, r)
    <3>1. Good(u) /\ Moved(s, u) /\ r \in Scratch /\ Free(u, r) /\ i \in Live(u) /\ Inv(u)
      BY <2>4, MovedInv DEF Found, Moved
    <3>2. u.v[i].t = "flag" /\ u.v[i].n = 1 /\ r \in Regs /\ u.ret \in Nat
      <4>1. u.v[i].t = "flag"
        BY <1>2, <3>1 DEF Moved, Follows, InReg
      <4> QED BY <3>1, <4>1, RegSets, StateFields DEF Good, Placed
    <3>3. t = Ret(w, u.ret)
      <4>1. t = SetccTo(u, i, r)
        BY <2>1, <3>1 DEF SetccUnused, Stopped, Good
      <4> QED BY <3>1, <3>2, <4>1, SetccLoads
    <3>4. Inv(w) /\ Carried(u, w, i) /\ InRegAt(w, w.ret, r)
      BY <3>1, LoadOK
    <3> HIDE DEF r, w
    <3>5. Walked(u, w) /\ w.v[i].t # "flag"
      <4>1. w.ret = i /\ Live(w) = Live(u) /\ w.list = u.list /\ w.rsv = u.rsv /\ w.v[i].n = 1
        BY <3>2, <3>4 DEF Carried
      <4>2. \A j \in Live(u) \ {i} : Stays(u, w, j)
        BY <3>4 DEF Carried
      <4> QED BY <3>2, <3>4, <4>1, <4>2 DEF Walked, InRegAt, Stays
    <3>6. Inv(t) /\ t.v = w.v /\ t.list = w.list /\ Live(t) = Live(w) /\ t.rsv = w.rsv
      <4>1. w \in State
        BY <3>4 DEF Inv, Good
      <4> QED BY <3>2, <3>3, <3>4, <4>1, RetFields DEF Same
    <3>7. Walked(s, u)
      BY <3>1, MovedWalked
    <3> QED BY <3>5, <3>6, <3>7 DEF Walked
  <2> QED BY <2>2, <2>3, <2>4
<1> QED BY <1>1, <1>2

LEMMA StaysSaved ==
  ASSUME NEW s, NEW t, NEW j, Stays(s, t, j), NEW fnty, ~NeedsSave(s, j, fnty)
  PROVE  ~NeedsSave(t, j, fnty)
BY DEF Stays, NeedsSave, InReg

LEMMA SaveOneOK ==
  ASSUME NEW s, Inv(s), NEW i \in Live(s), NEW fnty \in BOOLEAN, NEW skip,
         NEW t, t = SaveOne(s, i, fnty, skip)
  PROVE  \/ Halted(t)
         \/ /\ Inv(t) /\ Walked(s, t)
            /\ i \notin skip => ~NeedsSave(t, i, fnty)
            /\ \A j \in Live(s) : ~NeedsSave(s, j, fnty) => ~NeedsSave(t, j, fnty)
<1>0. Good(s) /\ Placed(s, i) /\ ~Stopped(s) /\ s \in State /\ i \in Nat
  <2>1. Good(s) /\ Placed(s, i) /\ ~Stopped(s) /\ s \in State
    BY DEF Inv, Good, Stopped
  <2> QED BY <2>1, StateFields
<1>1. CASE i \in skip \/ ~NeedsSave(s, i, fnty)
  <2>1. t = s
    BY <1>1 DEF SaveOne
  <2> QED BY <1>1, <2>1 DEF Walked
<1>2. CASE i \notin skip /\ NeedsSave(s, i, fnty)
  <2> DEFINE u == ToReg(s, i)
  <2>1. t = SaveLoaded(u, i, fnty)
    BY <1>0, <1>2 DEF SaveOne, Placed
  <2>2. \/ Halted(u)
        \/ /\ Inv(u) /\ Walked(s, u) /\ InReg(u, i) /\ (fnty => u.v[i].at \in Scratch)
           /\ \A j \in Live(s) \ {i} : Stays(s, u, j)
    <3>1. CASE InReg(s, i)
      <4>1. u = Ret(s, i)
        BY <3>1 DEF ToReg
      <4> HIDE DEF u
      <4>2. /\ Inv(u) /\ Same(s, u) /\ u.v = s.v /\ u.list = s.list /\ Live(u) = Live(s)
        BY <1>0, <4>1, RetFields
      <4>3. fnty => s.v[i].at \in Scratch
        BY <1>0, <1>2, <3>1, RegSets DEF Placed, NeedsSave, InReg
      <4>4. \A j \in Live(s) \ {i} : Stays(s, u, j)
        BY <4>2 DEF Stays, InReg
      <4> QED BY <3>1, <4>2, <4>3, <4>4 DEF Walked, InReg, Same
    <3>2. CASE s.v[i].t = "flag"
      <4>1. s.v[i].n = 1 /\ ~InReg(s, i)
        BY <1>0, <3>2 DEF Placed, InReg
      <4>2. \/ Halted(u)
            \/ /\ Inv(u) /\ Carried(s, u, i) /\ InReg(u, u.ret)
               /\ u.v[u.ret].at \in Scratch
        BY <4>1, ToRegOK
      <4> HIDE DEF u
      <4>3. ASSUME Inv(u), Carried(s, u, i), InReg(u, u.ret), u.v[u.ret].at \in Scratch
            PROVE  /\ Walked(s, u) /\ InReg(u, i) /\ u.v[i].at \in Scratch
                   /\ \A j \in Live(s) \ {i} : Stays(s, u, j)
        <5>1. u.ret = i /\ Live(u) = Live(s) /\ u.list = s.list /\ u.rsv = s.rsv /\ u.v[i].n = 1
          BY <4>1, <4>3 DEF Carried
        <5>2. \A j \in Live(s) \ {i} : Stays(s, u, j)
          BY <4>3 DEF Carried
        <5> QED BY <4>1, <4>3, <5>1, <5>2 DEF Walked, Stays, InReg
      <4> QED BY <4>2, <4>3
    <3>3. InReg(s, i) \/ s.v[i].t = "flag"
      BY <1>2 DEF NeedsSave, InReg
    <3> QED BY <3>1, <3>2, <3>3
  <2> HIDE DEF u
  <2>3. CASE Halted(u)
    BY <2>1, <2>3 DEF SaveLoaded, Halted, Stopped
  <2>4. CASE /\ Inv(u) /\ Walked(s, u) /\ InReg(u, i) /\ (fnty => u.v[i].at \in Scratch)
             /\ \A j \in Live(s) \ {i} : Stays(s, u, j)
    <3>1. t = Save(u, i, fnty) /\ Good(u) /\ i \in Live(u) /\ Live(u) = Live(s)
      BY <2>1, <2>4 DEF SaveLoaded, Stopped, Inv, Good, Walked
    <3>2. Halted(t) \/ (Good(t) /\ Moved(u, t) /\ ~NeedsSave(t, i, fnty))
      BY <2>4, <3>1, SaveOK
    <3>3. ASSUME Good(t), Moved(u, t), ~NeedsSave(t, i, fnty)
          PROVE  /\ Inv(t) /\ Walked(s, t)
                 /\ \A j \in Live(s) : ~NeedsSave(s, j, fnty) => ~NeedsSave(t, j, fnty)
      <4>1. Inv(t) /\ Walked(s, t)
        BY <2>4, <3>3, MovedInv, MovedWalked, WalkedTrans
      <4>2. ASSUME NEW j \in Live(s), ~NeedsSave(s, j, fnty) PROVE ~NeedsSave(t, j, fnty)
        <5>1. CASE j = i
          BY <3>3, <5>1
        <5>2. CASE j # i
          <6>1. Stays(s, u, j) /\ Stays(u, t, j)
            BY <2>4, <3>1, <3>3, <5>2, MovedStays
          <6> QED BY <4>2, <6>1, StaysSaved
        <5> QED BY <5>1, <5>2
      <4> QED BY <4>1, <4>2
    <3> QED BY <3>2, <3>3
  <2> QED BY <2>2, <2>3, <2>4
<1> QED BY <1>1, <1>2

\* v_decay_flags_except() one value at a time, newest first.
LEMMA DecayUnfolds ==
  ASSUME NEW s, NEW except, NEW len \in Nat, len = Len(s.list)
  PROVE  /\ DecaySteps(s, except)[0] = s
         /\ \A n \in 1..len :
              DecaySteps(s, except)[n] = DecayOne(DecaySteps(s, except)[n - 1], s.list[Len(s.list) + 1 - n], except)
<1> DEFINE Rec(f, k) == f = [n \in 0..k |-> IF n = 0 THEN s ELSE DecayOne(f[n - 1], s.list[Len(s.list) + 1 - n], except)]
           Bad == {k \in Nat : ~\E f : Rec(f, k)}
<1>1. Bad = {}
  <2> SUFFICES ASSUME Bad # {} PROVE FALSE
    OBVIOUS
  <2>1. PICK k \in Bad : \A y \in Bad : k <= y
    BY NatMin
  <2>2. k # 0
    <3>1. Rec([n \in 0..0 |-> s], 0)
      OBVIOUS
    <3> QED BY <3>1
  <2>3. k - 1 \in Nat /\ k - 1 \notin Bad
    <3>1. k \in Nat
      OBVIOUS
    <3> HIDE DEF Bad
    <3> QED BY <2>1, <2>2, <3>1
  <2>4. PICK f : Rec(f, k - 1)
    BY <2>3
  <2> DEFINE g == [n \in 0..k |-> IF n = k THEN DecayOne(f[k - 1], s.list[Len(s.list) + 1 - k], except) ELSE f[n]]
  <2>5. ASSUME NEW n \in 0..k
        PROVE  g[n] = IF n = 0 THEN s ELSE DecayOne(g[n - 1], s.list[Len(s.list) + 1 - n], except)
    <3>1. CASE n = k
      BY <3>1, <2>2, <2>3
    <3>2. CASE n # k
      <4>1. n \in 0..(k - 1) /\ (n # 0 => n - 1 \in 0..(k - 1))
        BY <3>2, <2>3
      <4>2. g[n] = f[n] /\ (n # 0 => g[n - 1] = f[n - 1])
        BY <4>1, <3>2
      <4> HIDE DEF g
      <4> QED BY <4>1, <4>2, <2>4
    <3> QED BY <3>1, <3>2
  <2>6. Rec(g, k)
    <3>1. g = [n \in 0..k |-> g[n]]
      OBVIOUS
    <3> HIDE DEF g
    <3> QED BY <3>1, <2>5
  <2> QED BY <2>1, <2>6
<1>2. \E f : Rec(f, len)
  <2>1. len \in Nat /\ len \notin Bad
    BY <1>1
  <2> HIDE DEF Rec
  <2> QED BY <2>1
<1>3. DecaySteps(s, except) = CHOOSE f : Rec(f, len)
  BY DEF DecaySteps
<1> DEFINE w == DecaySteps(s, except)
<1>4. \A n \in 0..len : w[n] = IF n = 0 THEN s ELSE DecayOne(w[n - 1], s.list[Len(s.list) + 1 - n], except)
  <2>1. Rec(w, len)
    BY <1>2, <1>3
  <2> HIDE DEF w
  <2> QED BY <2>1
<1> QED BY <1>4

\* v_save_regs() one value at a time, oldest first.
LEMMA SaveUnfolds ==
  ASSUME NEW s, NEW fnty, NEW skip, NEW len \in Nat, len = Len(s.list)
  PROVE  /\ SaveSteps(s, fnty, skip)[0] = s
         /\ \A n \in 1..len :
              SaveSteps(s, fnty, skip)[n] = SaveOne(SaveSteps(s, fnty, skip)[n - 1], s.list[n], fnty, skip)
<1> DEFINE Rec(f, k) == f = [n \in 0..k |-> IF n = 0 THEN s ELSE SaveOne(f[n - 1], s.list[n], fnty, skip)]
           Bad == {k \in Nat : ~\E f : Rec(f, k)}
<1>1. Bad = {}
  <2> SUFFICES ASSUME Bad # {} PROVE FALSE
    OBVIOUS
  <2>1. PICK k \in Bad : \A y \in Bad : k <= y
    BY NatMin
  <2>2. k # 0
    <3>1. Rec([n \in 0..0 |-> s], 0)
      OBVIOUS
    <3> QED BY <3>1
  <2>3. k - 1 \in Nat /\ k - 1 \notin Bad
    <3>1. k \in Nat
      OBVIOUS
    <3> HIDE DEF Bad
    <3> QED BY <2>1, <2>2, <3>1
  <2>4. PICK f : Rec(f, k - 1)
    BY <2>3
  <2> DEFINE g == [n \in 0..k |-> IF n = k THEN SaveOne(f[k - 1], s.list[k], fnty, skip) ELSE f[n]]
  <2>5. ASSUME NEW n \in 0..k
        PROVE  g[n] = IF n = 0 THEN s ELSE SaveOne(g[n - 1], s.list[n], fnty, skip)
    <3>1. CASE n = k
      BY <3>1, <2>2, <2>3
    <3>2. CASE n # k
      <4>1. n \in 0..(k - 1) /\ (n # 0 => n - 1 \in 0..(k - 1))
        BY <3>2, <2>3
      <4>2. g[n] = f[n] /\ (n # 0 => g[n - 1] = f[n - 1])
        BY <4>1, <3>2
      <4> HIDE DEF g
      <4> QED BY <4>1, <4>2, <2>4
    <3> QED BY <3>1, <3>2
  <2>6. Rec(g, k)
    <3>1. g = [n \in 0..k |-> g[n]]
      OBVIOUS
    <3> HIDE DEF g
    <3> QED BY <3>1, <2>5
  <2> QED BY <2>1, <2>6
<1>2. \E f : Rec(f, len)
  <2>1. len \in Nat /\ len \notin Bad
    BY <1>1
  <2> HIDE DEF Rec
  <2> QED BY <2>1
<1>3. SaveSteps(s, fnty, skip) = CHOOSE f : Rec(f, len)
  BY DEF SaveSteps
<1> DEFINE w == SaveSteps(s, fnty, skip)
<1>4. \A n \in 0..len : w[n] = IF n = 0 THEN s ELSE SaveOne(w[n - 1], s.list[n], fnty, skip)
  <2>1. Rec(w, len)
    BY <1>2, <1>3
  <2> HIDE DEF w
  <2> QED BY <2>1
<1> QED BY <1>4

LEMMA DecayOK ==
  ASSUME NEW s, Inv(s), NEW except, NEW t, t = DecayFlagsExcept(s, except)
  PROVE  \/ Halted(t)
         \/ Inv(t) /\ Walked(s, t) /\ \A i \in Live(t) : t.v[i].t = "flag" => i \in except
<1> DEFINE len == Len(s.list)
           w == DecaySteps(s, except)
           At(m) == s.list[len + 1 - m]
           Ok(k) == \/ Halted(w[k])
                    \/ /\ Inv(w[k]) /\ Walked(s, w[k])
                       /\ \A m \in 1..k : At(m) \notin except => w[k].v[At(m)].t # "flag"
           G == {k \in 0..len : Ok(k)}
<1>1. s.list \in Seq(Nat) /\ len \in Nat /\ DOMAIN s.list = 1..len /\ Listed(s)
  <2>1. s.list \in Seq(Nat) /\ Listed(s)
    BY StateFields DEF Inv, Good
  <2> QED BY <2>1
<1>2. w[0] = s /\ \A n \in 1..len : w[n] = DecayOne(w[n - 1], At(n), except)
  BY <1>1, DecayUnfolds
<1>3. t = w[len]
  BY DEF DecayFlagsExcept
<1>4. \A m \in 1..len : At(m) \in Live(s)
  <2>1. \A m \in 1..len : len + 1 - m \in 1..len
    BY <1>1
  <2> QED BY <1>1, <2>1 DEF Listed
<1> HIDE DEF w, At, len
<1>5. 0 \in G
  <2>1. Inv(w[0]) /\ Walked(s, w[0]) /\ \A m \in 1..0 : FALSE
    BY <1>2 DEF Walked
  <2>2. 0 \in 0..len
    BY <1>1
  <2> QED BY <2>1, <2>2
<1>6. ASSUME NEW n \in 1..len, n - 1 \in G PROVE n \in G
  <2> DEFINE p == w[n - 1]
             q == w[n]
             i == At(n)
  <2>1. q = DecayOne(p, i, except) /\ i \in Live(s) /\ n \in 0..len /\ Ok(n - 1)
    <3>1. n \in 0..len
      BY <1>1
    <3> QED BY <1>2, <1>4, <1>6, <3>1
  <2>2. CASE Halted(p)
    <3>1. q = p
      BY <2>1, <2>2 DEF DecayOne, DecayFlag, Halted, Stopped
    <3> QED BY <2>1, <2>2, <3>1
  <2>3. CASE /\ Inv(p) /\ Walked(s, p)
             /\ \A m \in 1..(n - 1) : At(m) \notin except => p.v[At(m)].t # "flag"
    <3>1. i \in Live(p)
      BY <2>1, <2>3 DEF Walked
    <3> HIDE DEF p, q, i
    <3>2. Halted(q) \/ (Inv(q) /\ Walked(p, q) /\ (i \notin except => q.v[i].t # "flag"))
      BY <2>1, <2>3, <3>1, DecayOneOK
    <3>3. ASSUME Inv(q), Walked(p, q), i \notin except => q.v[i].t # "flag"
          PROVE  /\ Walked(s, q)
                 /\ \A m \in 1..n : At(m) \notin except => q.v[At(m)].t # "flag"
      <4>1. Walked(s, q)
        BY <2>3, <3>3, WalkedTrans
      <4>2. ASSUME NEW m \in 1..n, At(m) \notin except PROVE q.v[At(m)].t # "flag"
        <5>1. CASE m = n
          BY <3>3, <4>2, <5>1 DEF i
        <5>2. CASE m # n
          <6>1. m \in 1..(n - 1) /\ m \in 1..len
            BY <1>1, <5>2
          <6>2. At(m) \in Live(p) /\ p.v[At(m)].t # "flag"
            BY <1>4, <2>3, <4>2, <6>1 DEF Walked
          <6> QED BY <3>3, <6>2 DEF Walked
        <5> QED BY <5>1, <5>2
      <4> QED BY <4>1, <4>2
    <3> QED BY <2>1, <3>2, <3>3 DEF q
  <2> QED BY <2>1, <2>2, <2>3
<1>7. len \in G
  <2> HIDE DEF G
  <2> QED BY <1>1, <1>5, <1>6, UpTo
<1>8. ASSUME Walked(s, t), \A m \in 1..len : At(m) \notin except => t.v[At(m)].t # "flag",
             NEW i \in Live(t), t.v[i].t = "flag"
      PROVE  i \in except
  <2>1. PICK k \in 1..len : s.list[k] = i
    BY <1>1, <1>8 DEF Walked, Listed
  <2>2. len + 1 - k \in 1..len /\ len + 1 - (len + 1 - k) = k
    BY <1>1
  <2>3. At(len + 1 - k) = i
    BY <2>1, <2>2 DEF At
  <2> QED BY <1>8, <2>2, <2>3
<1> QED BY <1>3, <1>7, <1>8

LEMMA SaveRegsOK ==
  ASSUME NEW s, Inv(s), NEW fnty \in BOOLEAN, NEW skip, NEW t, t = SaveRegs(s, fnty, skip)
  PROVE  \/ Halted(t)
         \/ Inv(t) /\ Walked(s, t) /\ \A i \in Live(t) \ skip : ~NeedsSave(t, i, fnty)
<1> DEFINE len == Len(s.list)
           w == SaveSteps(s, fnty, skip)
           At(m) == s.list[m]
           Ok(k) == \/ Halted(w[k])
                    \/ /\ Inv(w[k]) /\ Walked(s, w[k])
                       /\ \A m \in 1..k : At(m) \notin skip => ~NeedsSave(w[k], At(m), fnty)
           G == {k \in 0..len : Ok(k)}
<1>1. s.list \in Seq(Nat) /\ len \in Nat /\ DOMAIN s.list = 1..len /\ Listed(s)
  <2>1. s.list \in Seq(Nat) /\ Listed(s)
    BY StateFields DEF Inv, Good
  <2> QED BY <2>1
<1>2. w[0] = s /\ \A n \in 1..len : w[n] = SaveOne(w[n - 1], At(n), fnty, skip)
  BY <1>1, SaveUnfolds
<1>3. t = w[len]
  BY DEF SaveRegs, Stopped, Inv, Good
<1>4. \A m \in 1..len : At(m) \in Live(s)
  BY <1>1 DEF Listed
<1>5. \A i \in Live(s) : \E m \in 1..len : At(m) = i
  BY <1>1 DEF Listed
<1> HIDE DEF w, At, len
<1>6. 0 \in G
  <2>1. Inv(w[0]) /\ Walked(s, w[0]) /\ \A m \in 1..0 : FALSE
    BY <1>2 DEF Walked
  <2>2. 0 \in 0..len
    BY <1>1
  <2> QED BY <2>1, <2>2
<1>7. ASSUME NEW n \in 1..len, n - 1 \in G PROVE n \in G
  <2> DEFINE p == w[n - 1]
             q == w[n]
             i == At(n)
  <2>1. q = SaveOne(p, i, fnty, skip) /\ i \in Live(s) /\ n \in 0..len /\ Ok(n - 1)
    BY <1>1, <1>2, <1>4, <1>7
  <2>2. CASE Halted(p)
    <3>1. q = p
      BY <2>1, <2>2 DEF SaveOne, Halted, Stopped
    <3> QED BY <2>1, <2>2, <3>1
  <2>3. CASE /\ Inv(p) /\ Walked(s, p)
             /\ \A m \in 1..(n - 1) : At(m) \notin skip => ~NeedsSave(p, At(m), fnty)
    <3>1. i \in Live(p)
      BY <2>1, <2>3 DEF Walked
    <3> HIDE DEF p, q, i
    <3>2. \/ Halted(q)
          \/ /\ Inv(q) /\ Walked(p, q) /\ (i \notin skip => ~NeedsSave(q, i, fnty))
             /\ \A j \in Live(p) : ~NeedsSave(p, j, fnty) => ~NeedsSave(q, j, fnty)
      BY <2>1, <2>3, <3>1, SaveOneOK
    <3>3. ASSUME Inv(q), Walked(p, q), i \notin skip => ~NeedsSave(q, i, fnty),
                 \A j \in Live(p) : ~NeedsSave(p, j, fnty) => ~NeedsSave(q, j, fnty)
          PROVE  /\ Walked(s, q)
                 /\ \A m \in 1..n : At(m) \notin skip => ~NeedsSave(q, At(m), fnty)
      <4>1. Walked(s, q)
        BY <2>3, <3>3, WalkedTrans
      <4>2. ASSUME NEW m \in 1..n, At(m) \notin skip PROVE ~NeedsSave(q, At(m), fnty)
        <5>1. CASE m = n
          BY <3>3, <4>2, <5>1 DEF i
        <5>2. CASE m # n
          <6>1. m \in 1..(n - 1) /\ m \in 1..len
            BY <1>1, <5>2
          <6>2. At(m) \in Live(p) /\ ~NeedsSave(p, At(m), fnty)
            BY <1>4, <2>3, <4>2, <6>1 DEF Walked
          <6> QED BY <3>3, <6>2
        <5> QED BY <5>1, <5>2
      <4> QED BY <4>1, <4>2
    <3> QED BY <2>1, <3>2, <3>3 DEF q
  <2> QED BY <2>1, <2>2, <2>3
<1>8. len \in G
  <2> HIDE DEF G
  <2> QED BY <1>1, <1>6, <1>7, UpTo
<1>9. ASSUME Walked(s, t), \A m \in 1..len : At(m) \notin skip => ~NeedsSave(t, At(m), fnty),
             NEW i \in Live(t) \ skip
      PROVE  ~NeedsSave(t, i, fnty)
  BY <1>5, <1>9 DEF Walked
<1> QED BY <1>3, <1>8, <1>9

-----------------------------------------------------------------------------
(* What the operations are made of.                                        *)

\* A value gives up a reference: what is left is as it was.
LEMMA ReleaseKeeps ==
  ASSUME NEW s, Good(s), NEW i \in Live(s), NEW t, t = Release(s, i)
  PROVE  /\ Good(t) /\ Same(s, t) /\ t.rsv = s.rsv
         /\ \A j \in Live(t) : j \in Live(s) /\ t.v[j].t = s.v[j].t /\ t.v[j].at = s.v[j].at
         /\ \A j \in Live(t) : Holds(s, j) => Holds(t, j)
         /\ \A j \in Live(s) \ {i} : j \in Live(t) /\ t.v[j] = s.v[j]
<1>2. /\ s.v[i].n \in Nat /\ s.v[i].t \in Kinds /\ s.v[i].at \in Nat /\ s.v[i].off \in Int
      /\ s.v[i].sem \in Content /\ Placed(s, i)
  BY GoodVal
<1>3. /\ Good(t) /\ Same(s, t) /\ \A j \in Live(s) \ {i} : t.v[j] = s.v[j]
  BY GoodRelease
<1>4. s.v[i].n > 1 \/ s.v[i].n = 1
  BY <1>2 DEF Placed
<1>5. CASE s.v[i].n > 1
  <2>1. /\ Live(t) = Live(s)
        /\ t.v[i] = Value(s.v[i].n - 1, s.v[i].t, s.v[i].at, s.v[i].off, s.v[i].sem)
    BY <1>5, GoodRelease
  <2>2. s.v[i].n - 1 \in Nat
    BY <1>2, <1>5
  <2>3. /\ t.v[i].t = s.v[i].t /\ t.v[i].at = s.v[i].at /\ t.v[i].off = s.v[i].off
        /\ t.v[i].sem = s.v[i].sem
    BY <1>2, <2>1, <2>2, ValueVal
  <2>4. ASSUME NEW j \in Live(t), Holds(s, j) PROVE Holds(t, j)
    <3>1. /\ t.v[j].t = s.v[j].t /\ t.v[j].at = s.v[j].at /\ t.v[j].off = s.v[j].off
          /\ t.v[j].sem = s.v[j].sem
      BY <1>3, <2>1, <2>3
    <3> QED BY <1>3, <2>4, <3>1, HoldsSame DEF Same
  <2> QED BY <1>3, <2>1, <2>3, <2>4 DEF Same
<1>6. CASE s.v[i].n = 1
  <2>1. Live(t) = Live(s) \ {i}
    BY <1>6, GoodRelease
  <2>2. ASSUME NEW j \in Live(t), Holds(s, j) PROVE Holds(t, j)
    <3>1. t.v[j] = s.v[j]
      BY <1>3, <2>1
    <3> QED BY <1>3, <2>2, <3>1, HoldsSame DEF Same
  <2> QED BY <1>3, <2>1, <2>2 DEF Same
<1> QED BY <1>4, <1>5, <1>6

LEMMA ReleaseInv ==
  ASSUME NEW s, Inv(s), NEW i \in Live(s), NEW t, t = Release(s, i)
  PROVE  Inv(t) /\ t.rsv = s.rsv
<1>1. Good(s) /\ s.read # "wrong" /\ \A j \in Live(s) : Holds(s, j)
  BY DEF Inv, Right
<1>2. /\ Good(t) /\ Same(s, t) /\ t.rsv = s.rsv
      /\ \A j \in Live(t) : j \in Live(s) /\ (Holds(s, j) => Holds(t, j))
  BY <1>1, ReleaseKeeps
<1> QED BY <1>1, <1>2 DEF Inv, Right, Same

LEMMA BecomeFlags ==
  ASSUME NEW s, Good(s), NEW i \in Live(s), NEW at, at \in Nat, NEW c, c \in Content, c[1] # 0,
         NEW t, t = Become(s, i, "flag", at, c)
  PROVE  /\ Good(t) /\ Same(s, t) /\ t.ret \in Live(t) /\ t.v[t.ret] = Value(1, "flag", at, 0, c)
         /\ \A j \in Live(s) \ {i} : j \in Live(t) /\ j # t.ret /\ t.v[j] = s.v[j]
         /\ \A j \in Live(t) : j \in Live(s) \/ j = t.ret
         /\ s.v[i].n = 1 => t.ret = i /\ Live(t) = Live(s) /\ t.list = s.list
         /\ s.v[i].n > 1 => /\ t.ret \notin Live(s) /\ i \in Live(t)
                            /\ t.v[i] = Value(s.v[i].n - 1, s.v[i].t, s.v[i].at, s.v[i].off, s.v[i].sem)
<1> DEFINE k == "flag"
<1>1. k \in {"reg", "flag"} /\ k # "reg" /\ t = Become(s, i, k, at, c)
  OBVIOUS
<1>2. k = "flag"
  OBVIOUS
<1> HIDE DEF k
<1> QED BY <1>1, <1>2, BecomeOK

\* A value replaced by what an instruction put in register at, or in the flags.
LEMMA ReplaceInv ==
  ASSUME NEW s, Good(s), s.read # "wrong", NEW i \in Live(s),
         \A j \in Live(s) : j # i \/ s.v[i].n > 1 => Holds(s, j),
         NEW k, k \in {"reg", "flag"}, NEW at, at \in Nat, NEW c, c \in Content, c[1] # 0,
         k = "reg" => /\ at \in CalleeSave => at \in s.cs
                      /\ Free(s, at) \/ (InRegAt(s, i, at) /\ s.v[i].n = 1)
                      /\ s.R[at] = c,
         k = "flag" => s.F = c,
         NEW t, t = Become(s, i, k, at, c)
  PROVE  Inv(t) /\ t.rsv = s.rsv
<1>1. /\ s.v[i].n \in Nat /\ s.v[i].t \in Kinds /\ s.v[i].at \in Nat /\ s.v[i].off \in Int
      /\ s.v[i].sem \in Content /\ Placed(s, i)
  BY GoodVal
<1>0. k = "reg" => /\ at \in CalleeSave => at \in s.cs
                   /\ Free(s, at) \/ (InRegAt(s, i, at) /\ s.v[i].n = 1)
  OBVIOUS
<1>2a. /\ Good(t) /\ Same(s, t) /\ t.ret \in Live(t) /\ t.v[t.ret] = Value(1, k, at, 0, c)
       /\ \A j \in Live(s) \ {i} : j \in Live(t) /\ j # t.ret /\ t.v[j] = s.v[j]
       /\ \A j \in Live(t) : j \in Live(s) \/ j = t.ret
       /\ s.v[i].n = 1 => t.ret = i /\ Live(t) = Live(s) /\ t.list = s.list
       /\ s.v[i].n > 1 => /\ t.ret \notin Live(s) /\ i \in Live(t)
                          /\ t.v[i] = Value(s.v[i].n - 1, s.v[i].t, s.v[i].at, s.v[i].off, s.v[i].sem)
  <2>1. CASE k = "reg"
    <3>1. /\ at \in CalleeSave => at \in s.cs
          /\ Free(s, at) \/ (InRegAt(s, i, at) /\ s.v[i].n = 1)
      BY <1>0, <2>1
    <3>2. t = Become(s, i, "reg", at, c)
      BY <2>1
    <3> QED BY <2>1, <3>1, <3>2, BecomeOK
  <2>2. CASE k = "flag"
    <3>1. t = Become(s, i, "flag", at, c)
      BY <2>2
    <3> QED BY <2>2, <3>1, BecomeFlags
  <2> QED BY <2>1, <2>2
<1>2. /\ Good(t) /\ Same(s, t) /\ t.ret \in Live(t) /\ t.v[t.ret] = Value(1, k, at, 0, c)
      /\ \A j \in Live(s) \ {i} : j \in Live(t) /\ j # t.ret /\ t.v[j] = s.v[j]
      /\ \A j \in Live(t) : j \in Live(s) \/ j = t.ret
      /\ s.v[i].n = 1 => t.ret = i
      /\ s.v[i].n > 1 => /\ t.ret \notin Live(s)
                         /\ t.v[i] = Value(s.v[i].n - 1, s.v[i].t, s.v[i].at, s.v[i].off, s.v[i].sem)
  BY <1>2a
<1>3. t.F = s.F /\ t.R = s.R /\ t.M = s.M /\ t.read = s.read /\ t.rsv = s.rsv
  BY <1>2 DEF Same
<1>4. Holds(t, t.ret)
  <2>1. k \in Kinds /\ 1 \in Nat /\ 0 \in Int
    BY DEF Kinds
  <2>2. /\ t.v[t.ret].t = k /\ t.v[t.ret].at = at /\ t.v[t.ret].off = 0 /\ t.v[t.ret].sem = c
    BY <1>2, <2>1, ValueVal
  <2>3. Plus(c, 0) = c
    BY PlusContent
  <2> QED BY <1>3, <2>2, <2>3 DEF Holds, InReg, OnStack
<1>5. ASSUME NEW j \in Live(t), j # t.ret PROVE Holds(t, j)
  <2>1. /\ t.v[j].t = s.v[j].t /\ t.v[j].at = s.v[j].at /\ t.v[j].off = s.v[j].off
        /\ t.v[j].sem = s.v[j].sem /\ Holds(s, j)
    <3>1. CASE j # i
      BY <1>2, <1>5, <3>1
    <3>2. CASE j = i
      <4>1. s.v[i].n > 1 /\ s.v[i].n - 1 \in Nat
        BY <1>1, <1>2, <1>5, <3>2 DEF Placed
      <4>2. t.v[i] = Value(s.v[i].n - 1, s.v[i].t, s.v[i].at, s.v[i].off, s.v[i].sem)
        BY <1>2, <4>1
      <4>3. /\ t.v[i].t = s.v[i].t /\ t.v[i].at = s.v[i].at /\ t.v[i].off = s.v[i].off
            /\ t.v[i].sem = s.v[i].sem
        BY <1>1, <4>1, <4>2, ValueVal
      <4> QED BY <3>2, <4>1, <4>3
    <3> QED BY <3>1, <3>2
  <2> QED BY <1>3, <2>1, HoldsSame
<1> QED BY <1>2, <1>3, <1>4, <1>5 DEF Inv, Right

\* A new value in a free register.
LEMMA NewRegInv ==
  ASSUME NEW s, Inv(s), NEW r, r \in Scratch, Free(s, r), NEW c, c \in Content,
         NEW sem, sem \in Content, sem[1] # 0, s.read = "right" => c = sem,
         NEW t, t = New(Write(s, r, c), "reg", r, 0, sem)
  PROVE  Inv(t) /\ t.rsv = s.rsv
<1> DEFINE w == Write(s, r, c)
           n == w.next
<1>1. Good(s) /\ s \in State /\ s.read # "wrong" /\ \A j \in Live(s) : Holds(s, j)
  BY DEF Inv, Right, Good
<1>2. r \in Regs /\ r \in Nat /\ r \notin CalleeSave /\ "reg" \in Kinds /\ 0 \in Int
  BY RegSets DEF Kinds
<1>3. /\ Good(w) /\ w.v = s.v /\ w.M = s.M /\ w.F = s.F /\ w.rsv = s.rsv /\ w.cs = s.cs
      /\ w.read = s.read /\ Live(w) = Live(s) /\ w.R[r] = c /\ \A q \in Regs \ {r} : w.R[q] = s.R[q]
  <2>1. Good(w)
    BY <1>1, <1>2, GoodWrite
  <2> QED BY <1>1, <1>2, <2>1, WriteFields
<1>4. t = New(w, "reg", r, 0, sem)
  OBVIOUS
<1> HIDE DEF w
<1>5. Free(w, r)
  BY <1>3 DEF Free, InRegAt
<1>6. Good(t)
  BY <1>2, <1>3, <1>4, <1>5, GoodNew
<1>7. /\ Same(w, t) /\ Live(t) = Live(w) \cup {n} /\ n \notin Live(w)
      /\ t.v[n] = Value(1, "reg", r, 0, sem) /\ \A j \in Live(w) : t.v[j] = w.v[j]
  <2>1. w \in State /\ Listed(w)
    BY <1>3 DEF Good
  <2> QED BY <1>2, <1>4, <2>1, NewFields
<1> HIDE DEF n
<1>8. ASSUME NEW j \in Live(t) PROVE Holds(t, j)
  <2>1. CASE j = n
    <3>1. t.v[n].t = "reg" /\ t.v[n].at = r /\ t.v[n].off = 0 /\ t.v[n].sem = sem
      BY <1>2, <1>7, ValueVal
    <3>2. Plus(c, 0) = c
      BY PlusContent
    <3> QED BY <1>3, <1>7, <2>1, <3>1, <3>2 DEF Holds, InReg, OnStack, Same
  <2>2. CASE j # n
    <3>1. j \in Live(s) /\ t.v[j] = s.v[j] /\ Holds(s, j)
      BY <1>1, <1>3, <1>7, <2>2
    <3>2. InReg(s, j) => s.v[j].at \in Regs \ {r}
      BY <1>1, <3>1 DEF Good, Placed, Free, InReg, InRegAt
    <3>3. t.F = s.F /\ t.M = s.M /\ t.read = s.read /\ (InReg(s, j) => t.R[s.v[j].at] = s.R[s.v[j].at])
      BY <1>3, <1>7, <3>2 DEF Same
    <3> QED BY <3>1, <3>3, HoldsSame
  <2> QED BY <2>1, <2>2
<1> QED BY <1>1, <1>3, <1>6, <1>7, <1>8 DEF Inv, Right, Same

-----------------------------------------------------------------------------
(* Instructions: registers and flags written, every value left in place.   *)

\* What an edit of registers, flags and reserved registers keeps.
LEMMA EditHolds ==
  ASSUME NEW s, Good(s), NEW t, t \in State, t.ice = "no", t.v = s.v, t.list = s.list,
         t.next = s.next, t.M = s.M, t.cur = s.cur, t.cs = s.cs, t.read = s.read,
         t.rsv \subseteq s.rsv, Kept(t), NEW X,
         \A j \in Live(s) \ X : /\ Holds(s, j)
                                /\ s.v[j].t = "flag" => t.F = s.F
                                /\ InReg(s, j) => t.R[s.v[j].at] = s.R[s.v[j].at]
  PROVE  Good(t) /\ Live(t) = Live(s) /\ \A j \in Live(s) \ X : Holds(t, j)
<1>1. Live(t) = Live(s)
  BY DEF Live
<1>2. Good(t)
  <2>1. ASSUME NEW j \in Live(s)
        PROVE  /\ t.v[j].t = s.v[j].t /\ t.v[j].at = s.v[j].at
               /\ t.v[j].n >= 1 /\ t.v[j].sem[1] # 0
               /\ t.v[j].t = "flag" => t.v[j].n = 1
               /\ t.v[j].t # "reg" => t.v[j].off = 0
    BY GoodVal DEF Placed, InReg
  <2> QED BY <1>1, <2>1, GoodEdit
<1>3. ASSUME NEW j \in Live(s) \ X PROVE Holds(t, j)
  <2>1. /\ Holds(s, j) /\ (s.v[j].t = "flag" => t.F = s.F)
        /\ InReg(s, j) => t.R[s.v[j].at] = s.R[s.v[j].at]
    OBVIOUS
  <2> QED BY <2>1, HoldsSame
<1> QED BY <1>1, <1>2, <1>3

\* The flags are written.
WriteFlags(s, f) == [s EXCEPT !.F = f]

LEMMA FlagFields ==
  ASSUME NEW s, s \in State, NEW f, f \in Content, NEW t, t = WriteFlags(s, f)
  PROVE  /\ t \in State /\ t.v = s.v /\ t.list = s.list /\ t.next = s.next /\ t.M = s.M /\ t.R = s.R
         /\ t.rsv = s.rsv /\ t.cs = s.cs /\ t.cur = s.cur /\ t.ice = s.ice /\ t.read = s.read
         /\ t.ret = s.ret /\ t.reg = s.reg /\ Live(t) = Live(s) /\ t.F = f
<1> HIDE DEF Vals, Mem, Content
<1> QED BY DEF WriteFlags, State, Live

LEMMA FlagsInv ==
  ASSUME NEW s, Inv(s), NEW f, f \in Content, \A j \in Live(s) : s.v[j].t = "flag" => f = s.F,
         NEW t, t = WriteFlags(s, f)
  PROVE  Inv(t) /\ t.rsv = s.rsv
<1>1. Good(s) /\ s \in State /\ s.ice = "no" /\ Kept(s) /\ s.read # "wrong" /\ \A j \in Live(s) : Holds(s, j)
  BY DEF Inv, Right, Good
<1>2. /\ t \in State /\ t.v = s.v /\ t.list = s.list /\ t.next = s.next /\ t.M = s.M /\ t.R = s.R
      /\ t.rsv = s.rsv /\ t.cs = s.cs /\ t.cur = s.cur /\ t.ice = s.ice /\ t.read = s.read
      /\ Live(t) = Live(s) /\ t.F = f
  BY <1>1, FlagFields
<1>3. Kept(t)
  BY <1>1, <1>2 DEF Kept
<1>4. Good(t) /\ \A j \in Live(s) \ {} : Holds(t, j)
  BY <1>1, <1>2, <1>3, EditHolds
<1> QED BY <1>1, <1>2, <1>4 DEF Inv, Right

\* Registers a call or other code may change hold junk afterwards.
LEMMA ClobberFields ==
  ASSUME NEW s, s \in State, NEW regs, NEW t, t = ClobberRegs(s, regs)
  PROVE  /\ t \in State /\ t.v = s.v /\ t.list = s.list /\ t.next = s.next /\ t.M = s.M /\ t.F = Junk
         /\ t.rsv = s.rsv /\ t.cs = s.cs /\ t.cur = s.cur /\ t.ice = s.ice /\ t.read = s.read
         /\ t.ret = s.ret /\ t.reg = s.reg /\ Live(t) = Live(s)
         /\ \A r \in Regs \ regs : t.R[r] = s.R[r]
<1> DEFINE R1 == [r \in Regs |-> IF r \in regs THEN Junk ELSE s.R[r]]
<1>0. Junk \in Content /\ s.R \in [Regs -> Content]
  BY Contents, StateFields
<1>1. R1 \in [Regs -> Content] /\ \A r \in Regs \ regs : R1[r] = s.R[r]
  <2> HIDE DEF Content
  <2> QED BY <1>0
<1>2. t = [s EXCEPT !.R = R1, !.F = Junk]
  BY DEF ClobberRegs
<1> HIDE DEF R1
<1>3. /\ t \in State /\ t.v = s.v /\ t.list = s.list /\ t.next = s.next /\ t.M = s.M /\ t.F = Junk
      /\ t.rsv = s.rsv /\ t.cs = s.cs /\ t.cur = s.cur /\ t.ice = s.ice /\ t.read = s.read
      /\ t.ret = s.ret /\ t.reg = s.reg /\ t.R = R1
  <2> HIDE DEF Vals, Mem, Content, Junk
  <2>1. [Regs -> Content] = [Regs -> Content]
    OBVIOUS
  <2> QED BY <1>0, <1>1, <1>2 DEF State
<1> QED BY <1>1, <1>3 DEF Live

LEMMA ClobberInv ==
  ASSUME NEW s, Inv(s), NEW regs, \A r \in CalleeSave \cap regs : r \in s.cs,
         \A j \in Live(s) : InReg(s, j) => s.v[j].at \notin regs,
         NEW f, f \in Content, \A j \in Live(s) : s.v[j].t = "flag" => f = s.F,
         NEW t, t = WriteFlags(ClobberRegs(s, regs), f)
  PROVE  Inv(t) /\ t.rsv = s.rsv /\ t.v = s.v
<1> DEFINE u == ClobberRegs(s, regs)
<1>1. Good(s) /\ s \in State /\ s.ice = "no" /\ Kept(s) /\ s.read # "wrong" /\ \A j \in Live(s) : Holds(s, j)
  BY DEF Inv, Right, Good
<1>2. /\ u \in State /\ u.v = s.v /\ u.list = s.list /\ u.next = s.next /\ u.M = s.M
      /\ u.rsv = s.rsv /\ u.cs = s.cs /\ u.cur = s.cur /\ u.ice = s.ice /\ u.read = s.read
      /\ Live(u) = Live(s) /\ \A r \in Regs \ regs : u.R[r] = s.R[r]
  BY <1>1, ClobberFields
<1>3. t = WriteFlags(u, f)
  OBVIOUS
<1> HIDE DEF u
<1>4. /\ t \in State /\ t.v = s.v /\ t.list = s.list /\ t.next = s.next /\ t.M = s.M
      /\ t.rsv = s.rsv /\ t.cs = s.cs /\ t.cur = s.cur /\ t.ice = s.ice /\ t.read = s.read
      /\ Live(t) = Live(s) /\ t.F = f /\ \A r \in Regs \ regs : t.R[r] = s.R[r]
  <2>1. /\ t \in State /\ t.v = u.v /\ t.list = u.list /\ t.next = u.next /\ t.M = u.M /\ t.R = u.R
        /\ t.rsv = u.rsv /\ t.cs = u.cs /\ t.cur = u.cur /\ t.ice = u.ice /\ t.read = u.read
        /\ Live(t) = Live(u) /\ t.F = f
    BY <1>2, <1>3, FlagFields
  <2> QED BY <1>2, <2>1
<1>5. Kept(t)
  <2>1. ASSUME NEW r \in CalleeSave, r \notin t.cs PROVE t.R[r] = Caller
    <3>1. r \notin regs /\ r \in Regs
      BY <1>4, <2>1, RegSets
    <3> QED BY <1>1, <1>4, <2>1, <3>1 DEF Kept
  <2> QED BY <2>1 DEF Kept
<1>6. ASSUME NEW j \in Live(s), InReg(s, j) PROVE t.R[s.v[j].at] = s.R[s.v[j].at]
  <2>1. s.v[j].at \in Regs \ regs
    BY <1>1, <1>6, GoodVal DEF Placed
  <2> QED BY <1>4, <2>1
<1>7. Good(t) /\ \A j \in Live(s) \ {} : Holds(t, j)
  BY <1>1, <1>4, <1>5, <1>6, EditHolds
<1> QED BY <1>1, <1>4, <1>7 DEF Inv, Right

-----------------------------------------------------------------------------
(* The operations, one by one.                                             *)

\* The compiler stopped, or the state is one it can go on from.
Fine(t) == Halted(t) \/ (Inv(t) /\ t.rsv = {})

\* A new constant, or a new local whose slot has been written.
LEMMA NewInv ==
  ASSUME NEW s, Inv(s), NEW k, k \in {"const", "mem"}, NEW at, at \in Nat,
         NEW c, c \in Content, c[1] # 0,
         k = "mem" => /\ at \in DOMAIN s.M /\ at <= s.cur /\ s.M[at] = c
                      /\ \A j \in Live(s) : OnStack(s, j) => s.v[j].at # at,
         NEW t, t = New(s, k, at, 0, c)
  PROVE  Inv(t) /\ t.rsv = s.rsv
<1>1. Good(s) /\ s \in State /\ Listed(s) /\ s.read # "wrong" /\ \A j \in Live(s) : Holds(s, j)
  BY DEF Inv, Right, Good
<1>2. k \in Kinds /\ k # "reg" /\ k # "flag" /\ 0 \in Int /\ (k \in {"spilt", "mem"} => k = "mem")
  BY DEF Kinds
<1>3. Good(t)
  <2>1. k \in {"spilt", "mem"} => /\ at \in DOMAIN s.M /\ at <= s.cur
                                  /\ \A j \in Live(s) : OnStack(s, j) => s.v[j].at # at
    BY <1>2
  <2>2. k = "reg" => Free(s, at) /\ (at \in CalleeSave => at \in s.cs)
    BY <1>2
  <2> QED BY <1>1, <1>2, <2>1, <2>2, GoodNew
<1>4. /\ Same(s, t) /\ Live(t) = Live(s) \cup {s.next} /\ s.next \notin Live(s)
      /\ t.v[s.next] = Value(1, k, at, 0, c) /\ \A j \in Live(s) : t.v[j] = s.v[j]
  BY <1>1, <1>2, NewFields
<1>5. Holds(t, s.next)
  <2>1. t.v[s.next].t = k /\ t.v[s.next].at = at /\ t.v[s.next].off = 0 /\ t.v[s.next].sem = c
    BY <1>2, <1>4, ValueVal
  <2> QED BY <1>2, <1>4, <2>1 DEF Holds, InReg, OnStack, Same
<1>6. ASSUME NEW j \in Live(s) PROVE Holds(t, j)
  <2>1. t.v[j] = s.v[j] /\ t.F = s.F /\ t.M = s.M /\ t.R = s.R /\ t.read = s.read /\ Holds(s, j)
    BY <1>1, <1>4 DEF Same
  <2> QED BY <2>1, HoldsSame
<1> QED BY <1>1, <1>3, <1>4, <1>5, <1>6 DEF Inv, Right, Same

\* out_new_l().
LEMMA NewLOK ==
  ASSUME NEW s, Inv(s), s.rsv = {}, NEW t, t = New(s, "const", 0, 0, Made)
  PROVE  Fine(t)
<1>1. Made \in Content /\ Made[1] # 0
  BY Contents
<1> QED BY <1>1, NewInv DEF Fine

LEMMA StoreFields ==
  ASSUME NEW s, s \in State, NEW slot, slot \in Nat, NEW c, c \in Content, NEW t, t = Store(s, slot, c)
  PROVE  /\ t \in State /\ t.v = s.v /\ t.list = s.list /\ t.next = s.next /\ t.R = s.R /\ t.F = s.F
         /\ t.rsv = s.rsv /\ t.cs = s.cs /\ t.cur = s.cur /\ t.ice = s.ice /\ t.read = s.read
         /\ t.ret = s.ret /\ t.reg = s.reg /\ Live(t) = Live(s)
         /\ DOMAIN t.M = DOMAIN s.M \cup {slot} /\ t.M[slot] = c
         /\ \A m \in DOMAIN s.M \ {slot} : t.M[m] = s.M[m]
<1> DEFINE D == DOMAIN s.M \cup {slot}
           M1 == [m \in D |-> IF m = slot THEN c ELSE s.M[m]]
<1>1. s.M \in Mem
  BY StateFields
<1>2. D \in SUBSET Nat /\ M1 \in [D -> Content]
  <2> HIDE DEF Content
  <2> QED BY <1>1, MemApply
<1>3. M1 \in Mem /\ DOMAIN M1 = D /\ M1[slot] = c /\ \A m \in DOMAIN s.M \ {slot} : M1[m] = s.M[m]
  BY <1>2, MemIntro
<1>4. t = [s EXCEPT !.M = M1]
  BY DEF Store
<1> HIDE DEF M1
<1>5. /\ t \in State /\ t.v = s.v /\ t.list = s.list /\ t.next = s.next /\ t.R = s.R /\ t.F = s.F
      /\ t.rsv = s.rsv /\ t.cs = s.cs /\ t.cur = s.cur /\ t.ice = s.ice /\ t.read = s.read
      /\ t.ret = s.ret /\ t.reg = s.reg /\ t.M = M1
  <2> HIDE DEF Vals, Mem, Content
  <2> QED BY <1>3, <1>4 DEF State
<1> QED BY <1>3, <1>5 DEF Live

\* A slot that no value names is written.
LEMMA StoreInv ==
  ASSUME NEW s, Inv(s), NEW slot, slot \in Nat, \A j \in Live(s) : OnStack(s, j) => s.v[j].at # slot,
         NEW c, c \in Content, NEW t, t = Store(s, slot, c)
  PROVE  Inv(t) /\ t.rsv = s.rsv
<1>1. Good(s) /\ s \in State /\ s.read # "wrong" /\ \A j \in Live(s) : Holds(s, j) /\ Placed(s, j)
  BY DEF Inv, Right, Good
<1>2. /\ t \in State /\ t.v = s.v /\ t.list = s.list /\ t.next = s.next /\ t.R = s.R /\ t.F = s.F
      /\ t.rsv = s.rsv /\ t.cs = s.cs /\ t.cur = s.cur /\ t.ice = s.ice /\ t.read = s.read
      /\ Live(t) = Live(s) /\ DOMAIN t.M = DOMAIN s.M \cup {slot}
      /\ \A m \in DOMAIN s.M \ {slot} : t.M[m] = s.M[m]
  BY <1>1, StoreFields
<1>3. ASSUME NEW j \in Live(s) PROVE Placed(t, j)
  BY <1>1, <1>2 DEF Placed, InReg, OnStack
<1>4. Good(t)
  BY <1>1, <1>2, <1>3 DEF Good, Listed, Kept, Apart, InReg, OnStack
<1>5. ASSUME NEW j \in Live(s) PROVE Holds(t, j)
  <2>1. OnStack(s, j) => t.M[s.v[j].at] = s.M[s.v[j].at]
    BY <1>1, <1>2 DEF Placed
  <2> QED BY <1>1, <1>2, <2>1, HoldsSame
<1> QED BY <1>1, <1>2, <1>4, <1>5 DEF Inv, Right

\* out_aalloct() and the store of the local's initial value.
LEMMA LocalOK ==
  ASSUME NEW s, Inv(s), s.rsv = {},
         NEW t, t = New(Store(Aalloc(s), s.cur + 1, Made), "mem", s.cur + 1, 0, Made)
  PROVE  Fine(t)
<1> DEFINE a == Aalloc(s)
           slot == s.cur + 1
           m == Store(a, slot, Made)
<1>1. Good(s) /\ s \in State /\ s.cur \in Nat /\ s.read # "wrong" /\ \A j \in Live(s) : Holds(s, j) /\ Placed(s, j)
  BY StateFields DEF Inv, Right, Good
<1>2. Made \in Content /\ Made[1] # 0 /\ slot \in Nat
  <2>1. slot \in Nat
    BY <1>1
  <2>2. Made \in Content /\ Made[1] # 0
    BY Contents
  <2> QED BY <2>1, <2>2
<1>3. Good(a) /\ Same(s, a) /\ a.v = s.v /\ a.list = s.list /\ Live(a) = Live(s) /\ a.cur = slot
  BY <1>1, AallocFields
<1>4. \A j \in Live(a) : OnStack(a, j) => a.v[j].at # slot
  <2>1. ASSUME NEW j \in Live(s), OnStack(s, j) PROVE s.v[j].at # s.cur + 1
    <3>1. s.v[j].at \in Nat /\ s.v[j].at <= s.cur
      BY <1>1, <2>1, GoodVal DEF Placed
    <3> QED BY <1>1, <3>1
  <2> QED BY <1>3, <2>1 DEF OnStack
<1>5. t = New(m, "mem", slot, 0, Made) /\ m = Store(a, slot, Made) /\ a = Aalloc(s)
  OBVIOUS
<1> HIDE DEF m, a, slot
<1>6. Inv(a) /\ a.rsv = {}
  <2>1. ASSUME NEW j \in Live(s) PROVE Holds(a, j)
    BY <1>1, <1>3, HoldsSame DEF Same
  <2> QED BY <1>1, <1>3, <2>1 DEF Inv, Right, Same
<1>7. Inv(m) /\ m.rsv = {}
  BY <1>2, <1>4, <1>5, <1>6, StoreInv
<1>8. /\ m.v = a.v /\ m.cur = a.cur /\ Live(m) = Live(a) /\ m.M[slot] = Made /\ slot \in DOMAIN m.M
  <2>1. a \in State
    BY <1>3 DEF Good
  <2>2. /\ m.v = a.v /\ m.cur = a.cur /\ Live(m) = Live(a) /\ m.M[slot] = Made
        /\ DOMAIN m.M = DOMAIN a.M \cup {slot}
    BY <1>2, <1>5, <2>1, StoreFields
  <2> QED BY <2>2
<1>9. /\ slot \in DOMAIN m.M /\ slot <= m.cur /\ m.M[slot] = Made
      /\ \A j \in Live(m) : OnStack(m, j) => m.v[j].at # slot
  BY <1>2, <1>3, <1>4, <1>8 DEF OnStack
<1> QED BY <1>2, <1>5, <1>7, <1>9, NewInv DEF Fine

\* out_deref() into a register looked for first.
LEMMA LoadNewOK ==
  ASSUME NEW s, Inv(s), s.rsv = {}, NEW c, c \in Content, NEW sem, sem \in Content, sem[1] # 0,
         s.read = "right" => c = sem, NEW t, t = LoadNew(Unused(s), c, sem)
  PROVE  Fine(t)
<1> DEFINE u == Unused(s)
<1>1. Halted(u) \/ Found(s, u)
  BY UnusedOK DEF Inv
<1>2. t = LoadNew(u, c, sem)
  OBVIOUS
<1> HIDE DEF u
<1>3. CASE Halted(u)
  BY <1>2, <1>3 DEF Fine, LoadNew, Stopped, Halted
<1>4. CASE Found(s, u)
  <2>1. Inv(u) /\ u.rsv = {} /\ u.reg \in Scratch /\ Free(u, u.reg) /\ u.read = s.read
    BY <1>4, MovedInv DEF Found, Moved
  <2>2. t = New(Write(u, u.reg, c), "reg", u.reg, 0, sem)
    BY <1>2, <2>1 DEF LoadNew, Write, Stopped, Inv, Good
  <2> QED BY <2>1, <2>2, NewRegInv DEF Fine
<1> QED BY <1>1, <1>3, <1>4

LEMMA DerefLabelOK ==
  ASSUME NEW s, Inv(s), s.rsv = {}, NEW t, t = DerefLabel(s)
  PROVE  Fine(t)
<1>1. Made \in Content /\ Made[1] # 0
  BY Contents
<1>2. t = LoadNew(Unused(s), Made, Made)
  BY DEF DerefLabel
<1> QED BY <1>1, <1>2, LoadNewOK

LEMMA DerefLocalOK ==
  ASSUME NEW s, Inv(s), s.rsv = {}, NEW i \in Live(s), s.v[i].t = "mem", NEW t, t = DerefLocal(s, i)
  PROVE  Fine(t)
<1> DEFINE c == s.M[s.v[i].at]
           sem == s.v[i].sem
<1>1. Good(s) /\ s \in State /\ Holds(s, i) /\ OnStack(s, i)
  BY DEF Inv, Right, Good, OnStack
<1>2. sem \in Content /\ sem[1] # 0 /\ s.v[i].at \in DOMAIN s.M
  BY <1>1, GoodVal DEF Placed
<1>3. c \in Content
  BY <1>1, <1>2, MemApply, StateFields
<1>4. s.read = "right" => c = sem
  BY <1>1 DEF Holds
<1>5. t = LoadNew(Unused(s), c, sem)
  BY DEF DerefLocal
<1> HIDE DEF c, sem
<1> QED BY <1>2, <1>3, <1>4, <1>5, LoadNewOK

\* out_deref() of a pointer: its register, if nobody else uses it, or a free one.
LEMMA DerefIntoOK ==
  ASSUME NEW s, Inv(s), NEW i \in Live(s), NEW r, r \in Regs, r \in CalleeSave => r \in s.cs,
         Free(s, r) \/ (InRegAt(s, i, r) /\ s.v[i].n = 1), NEW t, t = DerefInto(s, i, r)
  PROVE  Inv(t) /\ t.rsv = s.rsv
<1> DEFINE w == Write(s, r, Made)
<1>1. Good(s) /\ s \in State /\ s.read # "wrong" /\ \A j \in Live(s) : Holds(s, j)
  BY DEF Inv, Right, Good
<1>2. Made \in Content /\ Made[1] # 0
  BY Contents
<1>3. /\ Good(w) /\ w.v = s.v /\ w.M = s.M /\ w.F = s.F /\ w.rsv = s.rsv /\ w.cs = s.cs
      /\ w.read = s.read /\ Live(w) = Live(s) /\ w.R[r] = Made /\ \A q \in Regs \ {r} : w.R[q] = s.R[q]
  <2>1. Good(w)
    BY <1>1, <1>2, GoodWrite
  <2> QED BY <1>1, <1>2, <2>1, WriteFields
<1>4. t = Become(w, i, "reg", r, Made)
  BY DEF DerefInto, Write
<1> HIDE DEF w
<1>5. ASSUME NEW j \in Live(w), j # i \/ w.v[i].n > 1 PROVE Holds(w, j)
  <2>1. InReg(s, j) => s.v[j].at # r
    <3>1. CASE Free(s, r)
      BY <1>3, <3>1 DEF Free, InReg, InRegAt
    <3>2. CASE InRegAt(s, i, r) /\ s.v[i].n = 1
      <4>1. j # i
        BY <1>3, <1>5, <3>2
      <4> QED BY <1>1, <1>3, <3>2, <4>1 DEF Good, Apart, InReg, InRegAt
    <3> QED BY <3>1, <3>2
  <2>2. InReg(s, j) => s.v[j].at \in Regs \ {r}
    BY <1>1, <1>3, <2>1, GoodVal DEF Placed
  <2> QED BY <1>1, <1>3, <2>2, HoldsSame
<1>6. Free(w, r) \/ (InRegAt(w, i, r) /\ w.v[i].n = 1)
  BY <1>3 DEF Free, InRegAt
<1>7. r \in Nat /\ i \in Live(w) /\ w.read # "wrong" /\ (r \in CalleeSave => r \in w.cs)
  BY <1>1, <1>3, RegSets
<1>8. Inv(t) /\ t.rsv = w.rsv
  BY <1>2, <1>3, <1>4, <1>5, <1>6, <1>7, ReplaceInv
<1> QED BY <1>3, <1>8

LEMMA DerefPtrOK ==
  ASSUME NEW s, Inv(s), s.rsv = {}, NEW i \in Live(s), InReg(s, i), NEW t, t = DerefPtr(s, i)
  PROVE  Fine(t)
<1> DEFINE u == Unused(s)
<1>1. Good(s) /\ Placed(s, i) /\ s.v[i].n \in Nat
  BY GoodVal DEF Inv
<1>2. CASE s.v[i].n = 1
  <2>1. /\ s.v[i].at \in Regs /\ (s.v[i].at \in CalleeSave => s.v[i].at \in s.cs)
        /\ InRegAt(s, i, s.v[i].at) /\ t = DerefInto(s, i, s.v[i].at)
    BY <1>1, <1>2 DEF Placed, InReg, InRegAt, DerefPtr
  <2> QED BY <1>2, <2>1, DerefIntoOK DEF Fine
<1>3. CASE s.v[i].n # 1
  <2>1. Halted(u) \/ Found(s, u)
    BY <1>1, UnusedOK
  <2>2. t = DerefUnused(u, i)
    BY <1>3 DEF DerefPtr
  <2> HIDE DEF u
  <2>3. CASE Halted(u)
    BY <2>2, <2>3 DEF Fine, DerefUnused, Stopped, Halted
  <2>4. CASE Found(s, u)
    <3>1. /\ Inv(u) /\ u.rsv = {} /\ u.reg \in Scratch /\ Free(u, u.reg) /\ i \in Live(u)
      BY <2>4, MovedInv DEF Found, Moved
    <3>2. t = DerefInto(u, i, u.reg)
      BY <2>2, <3>1 DEF DerefUnused, Stopped, Inv, Good
    <3>3. u.reg \in Regs /\ u.reg \notin CalleeSave
      BY <3>1, RegSets
    <3> QED BY <3>1, <3>2, <3>3, DerefIntoOK DEF Fine
  <2> QED BY <2>1, <2>3, <2>4
<1> QED BY <1>2, <1>3

LEMMA RetainInv ==
  ASSUME NEW s, Inv(s), s.rsv = {}, NEW i \in Live(s), s.v[i].t # "flag", NEW t, t = Retain(s, i)
  PROVE  Fine(t)
<1>1. Good(s) /\ s.read # "wrong" /\ \A j \in Live(s) : Holds(s, j)
  BY DEF Inv, Right
<1>2. /\ Good(t) /\ Same(s, t) /\ Live(t) = Live(s) /\ t.v[i].t = s.v[i].t
      /\ t.v[i].at = s.v[i].at /\ t.v[i].off = s.v[i].off /\ t.v[i].sem = s.v[i].sem
      /\ \A j \in Live(s) \ {i} : t.v[j] = s.v[j]
  BY <1>1, RetainOK
<1>3. ASSUME NEW j \in Live(s) PROVE Holds(t, j)
  <2>1. /\ t.v[j].t = s.v[j].t /\ t.v[j].at = s.v[j].at /\ t.v[j].off = s.v[j].off
        /\ t.v[j].sem = s.v[j].sem /\ Holds(s, j)
    BY <1>1, <1>2
  <2>2. t.F = s.F /\ t.R = s.R /\ t.M = s.M /\ t.read = s.read
    BY <1>2 DEF Same
  <2> QED BY <2>1, <2>2, HoldsSame
<1> QED BY <1>1, <1>2, <1>3 DEF Fine, Inv, Right, Same

LEMMA ReleaseOK ==
  ASSUME NEW s, Inv(s), s.rsv = {}, NEW i \in Live(s), NEW t, t = Release(s, i)
  PROVE  Fine(t)
BY ReleaseInv DEF Fine

\* v_dup() keeps what every value holds.
LEMMA CopyInv ==
  ASSUME NEW s, Inv(s), NEW i \in Live(s), InReg(s, i), s.v[i].n > 1,
         s.reg \in Scratch, Free(s, s.reg), NEW t, t = CopyToReg(s, i)
  PROVE  Inv(t) /\ t.rsv = s.rsv /\ t.ret \in Live(t) /\ InReg(t, t.ret)
<1> DEFINE n == s.next
           r == s.reg
<1>1. Good(s) /\ s.read # "wrong" /\ \A j \in Live(s) : Holds(s, j)
  BY DEF Inv, Right
<1>2. /\ s.v[i].n \in Nat /\ s.v[i].at \in Nat /\ s.v[i].off \in Int /\ s.v[i].sem \in Content
      /\ s.v[i].n - 1 \in Nat /\ 1 \in Nat /\ "reg" \in Kinds /\ r \in Nat
  <2>1. s.v[i].n \in Nat /\ s.v[i].at \in Nat /\ s.v[i].off \in Int /\ s.v[i].sem \in Content
    BY <1>1, GoodVal
  <2>2. s.v[i].n - 1 \in Nat
    BY <2>1
  <2> QED BY <2>1, <2>2, RegSets DEF Kinds
<1>3. /\ Good(t) /\ Live(t) = Live(s) \cup {n} /\ n \notin Live(s) /\ t.ret = n
      /\ t.v[n] = Value(1, "reg", r, s.v[i].off, s.v[i].sem)
      /\ t.v[i] = Value(s.v[i].n - 1, "reg", s.v[i].at, s.v[i].off, s.v[i].sem)
      /\ \A j \in Live(s) \ {i} : t.v[j] = s.v[j]
      /\ t.R[r] = s.R[s.v[i].at] /\ \A q \in Regs \ {r} : t.R[q] = s.R[q]
      /\ t.M = s.M /\ t.F = s.F /\ t.rsv = s.rsv /\ t.read = s.read
  BY <1>1, CopyOK
<1> HIDE DEF n, r
<1>4. /\ t.v[n].t = "reg" /\ t.v[n].at = r /\ t.v[n].off = s.v[i].off /\ t.v[n].sem = s.v[i].sem
  BY <1>2, <1>3, ValueVal
<1>5. Holds(t, n)
  <2>1. Holds(s, i)
    BY <1>1
  <2> QED BY <1>3, <1>4, <2>1 DEF Holds, InReg, OnStack
<1>6. ASSUME NEW j \in Live(s) PROVE Holds(t, j)
  <2>1. /\ t.v[j].t = s.v[j].t /\ t.v[j].at = s.v[j].at /\ t.v[j].off = s.v[j].off
        /\ t.v[j].sem = s.v[j].sem /\ Holds(s, j)
    <3>1. t.v[i].t = "reg" /\ t.v[i].at = s.v[i].at /\ t.v[i].off = s.v[i].off /\ t.v[i].sem = s.v[i].sem
      BY <1>2, <1>3, ValueVal
    <3> QED BY <1>1, <1>3, <3>1 DEF InReg
  <2>2. InReg(s, j) => s.v[j].at \in Regs \ {r}
    BY <1>1, GoodVal DEF Placed, Free, InReg, InRegAt, r
  <2>3. InReg(s, j) => t.R[s.v[j].at] = s.R[s.v[j].at]
    BY <1>3, <2>2
  <2> QED BY <1>3, <2>1, <2>3, HoldsSame
<1> QED BY <1>1, <1>3, <1>4, <1>5, <1>6 DEF Inv, Right, InReg

\* v_dup_or_reuse() of a value in a register.
LEMMA DupOrReuseOK ==
  ASSUME NEW s, Inv(s), NEW i \in Live(s), InReg(s, i), NEW t, t = DupOrReuse(s, i)
  PROVE  Halted(t) \/ (Inv(t) /\ t.rsv = s.rsv /\ t.ret \in Live(t) /\ InReg(t, t.ret))
<1> DEFINE u == Unused(s)
<1>1. Good(s) /\ s \in State /\ Placed(s, i) /\ s.v[i].n \in Nat /\ i \in Nat
  BY GoodVal, StateFields DEF Inv
<1>2. CASE s.v[i].n = 1
  <2>1. t = Ret(s, i)
    BY <1>2 DEF DupOrReuse
  <2>2. Inv(t) /\ t.rsv = s.rsv /\ t.ret = i /\ t.v = s.v /\ Live(t) = Live(s)
    BY <1>1, <2>1, RetFields DEF Same
  <2> QED BY <2>2 DEF InReg
<1>3. CASE s.v[i].n # 1
  <2>1. Halted(u) \/ Found(s, u)
    BY <1>1, UnusedOK
  <2>2. t = CopyToReg(u, i)
    BY <1>3 DEF DupOrReuse
  <2> HIDE DEF u
  <2>3. CASE Halted(u)
    BY <2>2, <2>3 DEF CopyToReg, Stopped, Halted
  <2>4. CASE Found(s, u)
    <3>1. /\ Inv(u) /\ u \in State /\ u.ice = "no" /\ u.rsv = s.rsv /\ u.reg \in Scratch /\ Free(u, u.reg)
          /\ i \in Live(u) /\ u.v[i].n = s.v[i].n
      BY <2>4, MovedInv DEF Found, Moved, Follows, Inv, Good
    <3>2. CASE InReg(u, i)
      <4>1. u.v[i].n > 1
        BY <1>1, <1>3, <3>1 DEF Placed
      <4> QED BY <2>2, <3>1, <3>2, <4>1, CopyInv
    <3>3. CASE ~InReg(u, i)
      <4>1. t = RegCpIce(u)
        BY <2>2, <3>1, <3>3 DEF CopyToReg, Stopped
      <4> QED BY <3>1, <4>1, IceHalts
    <3> QED BY <3>2, <3>3
  <2> QED BY <2>1, <2>3, <2>4
<1> QED BY <1>2, <1>3

LEMMA OffSemVal ==
  ASSUME NEW x \in Val, NEW d, d \in Int, NEW c, c \in Content
  PROVE  [x EXCEPT !.off = d, !.sem = c] = Value(x.n, x.t, x.at, d, c)
<1> DEFINE y == [x EXCEPT !.off = d]
<1>1. y = Value(x.n, x.t, x.at, d, x.sem)
  BY ValFields
<1>2. /\ y \in Val /\ y.n = x.n /\ y.t = x.t /\ y.at = x.at /\ y.off = d
  BY <1>1, ValFields, ValueVal
<1>3. [x EXCEPT !.off = d, !.sem = c] = [y EXCEPT !.sem = c]
  BY DEF Val
<1> HIDE DEF y
<1> QED BY <1>2, <1>3, ValFields

\* try_mem_offset(): the offset and what the value stands for grow together.
LEMMA AddOffsetInv ==
  ASSUME NEW s, Inv(s), s.ret \in Live(s), InReg(s, s.ret), NEW t, t = AddOffset(s)
  PROVE  Inv(t) /\ t.rsv = s.rsv
<1> DEFINE i == s.ret
           x == s.v[i]
           y == Value(x.n, x.t, x.at, x.off + 1, Plus(x.sem, 1))
<1>1. Good(s) /\ s \in State /\ s.ice = "no" /\ s.read # "wrong" /\ \A j \in Live(s) : Holds(s, j)
  BY DEF Inv, Right, Good
<1>2. /\ x \in Val /\ x.n \in Nat /\ x.t \in Kinds /\ x.at \in Nat /\ x.off \in Int /\ x.sem \in Content
      /\ Placed(s, i)
  BY <1>1, GoodVal
<1>3. x.off + 1 \in Int
  BY <1>2
<1>4. Plus(x.sem, 1) \in Content /\ Plus(x.sem, 1)[1] = x.sem[1]
  <2>1. 1 \in Int
    OBVIOUS
  <2> HIDE DEF x
  <2> QED BY <1>2, <2>1, PlusContent
<1>5. /\ y \in Val /\ y.n = x.n /\ y.t = x.t /\ y.at = x.at /\ y.off = x.off + 1 /\ y.sem = Plus(x.sem, 1)
  BY <1>2, <1>3, <1>4, ValueVal
<1>6. t = Revalue(s, i, y)
  <2>1. t = [s EXCEPT !.v = [s.v EXCEPT ![i] = [s.v[i] EXCEPT !.off = @ + 1, !.sem = Plus(@, 1)]]]
    BY <1>1 DEF AddOffset, Stopped, State
  <2>2. [x EXCEPT !.off = @ + 1, !.sem = Plus(@, 1)] = y
    BY <1>2, <1>3, <1>4, OffSemVal
  <2> QED BY <2>1, <2>2 DEF Revalue
<1>7. x.t = "reg" /\ x.n >= 1 /\ x.sem[1] # 0
  BY <1>2 DEF Placed, InReg
<1> HIDE DEF y
<1>8. /\ Good(t) /\ Same(s, t) /\ Live(t) = Live(s) /\ t.v[i] = y
      /\ \A j \in Live(s) \ {i} : t.v[j] = s.v[j]
  <2>1. /\ i \in Live(s) /\ y.t = s.v[i].t /\ y.at = s.v[i].at /\ y.n >= 1 /\ y.sem[1] # 0
        /\ (y.t = "flag" => y.n = 1) /\ (y.t # "reg" => y.off = 0)
    BY <1>4, <1>5, <1>7
  <2> HIDE DEF i, x
  <2> QED BY <1>1, <1>5, <1>6, <2>1, RevalueGood
<1>9. ASSUME NEW j \in Live(s) PROVE Holds(t, j)
  <2>1. t.F = s.F /\ t.R = s.R /\ t.M = s.M /\ t.read = s.read
    BY <1>8 DEF Same
  <2>2. CASE j = i
    <3>1. x.at \in Regs /\ s.R[x.at] \in Content
      <4>1. x.at \in Regs
        BY <1>2 DEF Placed
      <4>2. s.R \in [Regs -> Content]
        BY <1>1, StateFields
      <4> QED BY <4>1, <4>2
    <3>2. Plus(s.R[x.at], x.off + 1) = Plus(Plus(s.R[x.at], x.off), 1)
      BY <1>2, <3>1, PlusContent
    <3>3. s.read = "right" => Plus(s.R[x.at], x.off) = x.sem
      BY <1>1 DEF Holds
    <3>4. t.v[j].t = "reg" /\ t.v[j].at = x.at /\ t.v[j].off = x.off + 1 /\ t.v[j].sem = Plus(x.sem, 1)
      BY <1>5, <1>7, <1>8, <2>2
    <3> QED BY <2>1, <3>2, <3>3, <3>4 DEF Holds, InReg, OnStack
  <2>3. CASE j # i
    <3>1. t.v[j] = s.v[j] /\ Holds(s, j)
      BY <1>1, <1>8, <2>3
    <3> QED BY <2>1, <3>1, HoldsSame
  <2> QED BY <2>2, <2>3
<1> QED BY <1>1, <1>8, <1>9 DEF Inv, Right, Same

\* Only values of X are in the flags.
FlagsOnly(s, X) == \A j \in Live(s) : s.v[j].t = "flag" => j \in X

\* An instruction leaves its result c in the register of value i, which now
\* stands for sem; the flags are lost, and no value needs them.
LEMMA ResultInv ==
  ASSUME NEW s, Inv(s), NEW i \in Live(s), InReg(s, i), s.v[i].off = 0,
         FlagsOnly(s, {}),
         NEW c, c \in Content, NEW sem, sem \in Content, sem[1] # 0, s.read = "right" => c = sem,
         NEW t, t \in State, Live(t) = Live(s), t.v[i] = Value(s.v[i].n, "reg", s.v[i].at, 0, sem),
         \A j \in Live(s) \ {i} : t.v[j] = s.v[j], t.R[s.v[i].at] = c,
         \A q \in Regs \ {s.v[i].at} : t.R[q] = s.R[q], t.list = s.list, t.next = s.next, t.M = s.M,
         t.rsv = s.rsv, t.cs = s.cs, t.cur = s.cur, t.ice = s.ice, t.read = s.read
  PROVE  Inv(t)
<1> DEFINE x == Value(s.v[i].n, "reg", s.v[i].at, 0, sem)
           r == s.v[i].at
           n == s.v[i].n
<1>1. /\ Good(s) /\ s \in State /\ s.ice = "no" /\ Kept(s) /\ s.read # "wrong"
      /\ \A j \in Live(s) : Holds(s, j)
  BY DEF Inv, Right, Good
<1>2. n \in Nat /\ r \in Nat /\ Placed(s, i)
  BY <1>1, GoodVal
<1>3. r \in Regs /\ (r \in CalleeSave => r \in s.cs) /\ n >= 1 /\ s.v[i].t = "reg"
  BY <1>2 DEF Placed, InReg
<1>4. x \in Val /\ x.n = s.v[i].n /\ x.t = "reg" /\ x.at = r /\ x.off = 0 /\ x.sem = sem
  <2>1. "reg" \in Kinds /\ 0 \in Int
    BY DEF Kinds
  <2>2. x = Value(n, "reg", r, 0, sem) /\ n = s.v[i].n
    OBVIOUS
  <2> HIDE DEF x, n, r
  <2> QED BY <1>2, <2>1, <2>2, ValueVal
<1>6. t.v[i] = x /\ \A j \in Live(s) \ {i} : t.v[j] = s.v[j]
  OBVIOUS
<1> HIDE DEF x
<1>7. t.R[r] = c /\ \A q \in Regs \ {r} : t.R[q] = s.R[q]
  OBVIOUS
<1> HIDE DEF r, n
<1>8. Good(t)
  <2>1. Kept(t)
    BY <1>1, <1>3, <1>7, RegSets DEF Kept
  <2>2. ASSUME NEW j \in Live(s)
        PROVE  /\ t.v[j].t = s.v[j].t /\ t.v[j].at = s.v[j].at
               /\ t.v[j].n >= 1 /\ t.v[j].sem[1] # 0
               /\ t.v[j].t = "flag" => t.v[j].n = 1
               /\ t.v[j].t # "reg" => t.v[j].off = 0
    <3>1. CASE j = i
      BY <1>3, <1>4, <1>6, <3>1 DEF r, n
    <3>2. CASE j # i
      <4>1. t.v[j] = s.v[j] /\ Placed(s, j)
        BY <1>1, <1>6, <3>2, GoodVal
      <4> QED BY <4>1 DEF Placed, InReg
    <3> QED BY <3>1, <3>2
  <2> QED BY <1>1, <1>6, <2>1, <2>2, GoodEdit
<1>9. ASSUME NEW j \in Live(s) PROVE Holds(t, j)
  <2>1. CASE j = i
    <3>1. Plus(c, 0) = c
      BY PlusContent
    <3>2. t.v[j].t = "reg" /\ t.v[j].at = r /\ t.v[j].off = 0 /\ t.v[j].sem = sem
      BY <1>4, <1>6, <2>1
    <3> QED BY <1>7, <3>1, <3>2 DEF Holds, InReg, OnStack
  <2>2. CASE j # i
    <3>1. t.v[j] = s.v[j] /\ Holds(s, j) /\ s.v[j].t # "flag"
      BY <1>1, <1>6, <2>2 DEF FlagsOnly
    <3>2. InReg(s, j) => s.v[j].at \in Regs \ {r}
      BY <1>1, <2>2, GoodVal DEF Good, Apart, Placed, r
    <3>3. InReg(s, j) => t.R[s.v[j].at] = s.R[s.v[j].at]
      BY <1>7, <3>2
    <3> QED BY <3>1, <3>3, HoldsSame
  <2> QED BY <2>1, <2>2
<1> QED BY <1>1, <1>8, <1>9 DEF Inv, Right

\* out_op() adding a constant with an instruction.
LEMMA AddInsnInv ==
  ASSUME NEW s, Inv(s), s.ret \in Live(s), InReg(s, s.ret), s.v[s.ret].off = 0,
         FlagsOnly(s, {}), NEW t, t = AddInsn(s)
  PROVE  Inv(t) /\ t.rsv = s.rsv
<1> DEFINE i == s.ret
           r == s.v[i].at
           c == Plus(s.R[r], 1)
           sem == Plus(s.v[i].sem, 1)
           a == AddTo(s, r, 1)
           v1 == [s.v EXCEPT ![i] = Value(s.v[i].n, "reg", r, 0, sem)]
<1>1. Good(s) /\ s \in State /\ s.ice = "no" /\ Holds(s, i)
  BY DEF Inv, Right, Good
<1>2. /\ s.v[i] \in Val /\ s.v[i].n \in Nat /\ r \in Nat /\ s.v[i].sem \in Content /\ Placed(s, i)
      /\ s.v[i].t = "reg" /\ s.v \in Vals
  BY <1>1, GoodVal, StateFields DEF InReg
<1>3. r \in Regs /\ s.v[i].sem[1] # 0
  BY <1>2 DEF Placed, InReg
<1>4. s.R[r] \in Content /\ 1 \in Int
  <2>1. s.R \in [Regs -> Content]
    BY <1>1, StateFields
  <2> QED BY <1>3, <2>1
<1>5. c \in Content /\ sem \in Content /\ sem[1] # 0
  <2>1. c \in Content
    <3> HIDE DEF r
    <3> QED BY <1>4, PlusContent
  <2>2. sem \in Content /\ sem[1] = s.v[i].sem[1]
    <3> HIDE DEF i
    <3> QED BY <1>2, <1>4, PlusContent
  <2> QED BY <1>3, <2>1, <2>2
<1>6. s.read = "right" => c = sem
  <2>1. s.read = "right" => Plus(s.R[r], 0) = s.v[i].sem
    BY <1>1 DEF Holds
  <2>2. Plus(s.R[r], 0) = s.R[r]
    <3> HIDE DEF r
    <3> QED BY <1>4, PlusContent
  <2> QED BY <2>1, <2>2
<1>7. /\ a \in State /\ a.v = s.v /\ a.list = s.list /\ a.next = s.next /\ a.M = s.M
      /\ a.rsv = s.rsv /\ a.cs = s.cs /\ a.cur = s.cur /\ a.ice = s.ice /\ a.read = s.read
      /\ a.ret = s.ret /\ a.reg = s.reg
  <2> HIDE DEF r
  <2> QED BY <1>1, <1>3, <1>4, AddFields
<1>8. a.R = [s.R EXCEPT ![r] = c]
  <2> HIDE DEF r, Content, Vals, Mem
  <2> QED BY <1>1, <1>3 DEF AddTo, State
<1>9. t = [a EXCEPT !.v = v1, !.F = Junk]
  <2>1. t = [a EXCEPT !.v = [a.v EXCEPT ![i] = [a.v[i] EXCEPT !.sem = Plus(@, 1)]], !.F = Junk]
    <3> HIDE DEF Content, Vals, Mem
    <3> QED BY <1>1, <1>7 DEF AddInsn, Stopped, State
  <2>2. [a.v[i] EXCEPT !.sem = Plus(@, 1)] = [s.v[i] EXCEPT !.sem = sem]
    BY <1>2, <1>7 DEF Val
  <2>3. [s.v[i] EXCEPT !.sem = sem] = Value(s.v[i].n, s.v[i].t, s.v[i].at, s.v[i].off, sem)
    <3> HIDE DEF i, sem
    <3> QED BY <1>2, <1>5, ValFields
  <2> QED BY <1>2, <1>7, <2>1, <2>2, <2>3
<1>10a. Value(s.v[i].n, "reg", r, 0, sem) \in Val
  <2>1. "reg" \in Kinds /\ 0 \in Int
    BY DEF Kinds
  <2> HIDE DEF i, r, sem
  <2> QED BY <1>2, <1>5, <2>1, ValueVal
<1>10. v1 \in Vals
  BY <1>2, <1>10a, ValsUpdate DEF Live
<1>11. Junk \in Content
  BY Contents
<1> HIDE DEF a, v1
<1>12. /\ t \in State /\ t.v = v1 /\ t.list = a.list /\ t.next = a.next /\ t.M = a.M /\ t.R = a.R
       /\ t.rsv = a.rsv /\ t.cs = a.cs /\ t.cur = a.cur /\ t.ice = a.ice /\ t.read = a.read
  <2> HIDE DEF Vals, Mem, Content, Junk
  <2> QED BY <1>7, <1>9, <1>10, <1>11 DEF State
<1>13. /\ t.R[s.v[i].at] = c /\ \A q \in Regs \ {s.v[i].at} : t.R[q] = s.R[q]
  <2>1. s.R \in [Regs -> Content]
    BY <1>1, StateFields
  <2> HIDE DEF c, Content
  <2> QED BY <1>3, <1>8, <1>12, <2>1
<1>15. /\ Live(t) = Live(s) /\ t.v[i] = Value(s.v[i].n, "reg", s.v[i].at, 0, sem)
       /\ \A j \in Live(s) \ {i} : t.v[j] = s.v[j]
  <2> DEFINE x == Value(s.v[i].n, "reg", r, 0, sem)
  <2>1. v1 = [s.v EXCEPT ![i] = x] /\ i \in DOMAIN s.v
    BY DEF v1, Live
  <2>2. x \in Val
    BY <1>10a
  <2>3. x = Value(s.v[i].n, "reg", s.v[i].at, 0, sem)
    OBVIOUS
  <2> HIDE DEF x, i
  <2> QED BY <1>2, <1>12, <2>1, <2>2, <2>3, ValsUpdate DEF Live
<1>14. i \in Live(s) /\ InReg(s, i) /\ s.v[i].off = 0
  OBVIOUS
<1> HIDE DEF c, sem, r, i
<1> QED BY <1>5, <1>6, <1>7, <1>12, <1>13, <1>14, <1>15, ResultInv

\* Once an operand is in a register, flags are only other values'.
LEMMA CarriedFlags ==
  ASSUME NEW s, NEW t, NEW i, Carried(s, t, i), NEW X, FlagsOnly(s, X)
  PROVE  FlagsOnly(t, X \ {i})
<1>1. ASSUME NEW j \in Live(t), t.v[j].t = "flag" PROVE j \in X \ {i}
  <2>1. j \in Live(s) \ {i}
    BY <1>1 DEF Carried
  <2>2. s.v[j].t = "flag"
    BY <1>1, <2>1 DEF Carried, Stays
  <2> QED BY <2>1, <2>2 DEF FlagsOnly
<1> QED BY <1>1 DEF FlagsOnly

LEMMA DecayFlagsOnly ==
  ASSUME NEW s, Inv(s), NEW X, NEW t, t = DecayFlagsExcept(s, X)
  PROVE  Halted(t) \/ (Inv(t) /\ Walked(s, t) /\ FlagsOnly(t, X))
BY DecayOK DEF FlagsOnly

LEMMA HaltedStopped ==
  ASSUME NEW t
  PROVE  /\ Halted(t) => Stopped(t) /\ Fine(t)
         /\ Inv(t) => ~Stopped(t) /\ t \in State
BY DEF Halted, Stopped, Fine, Inv, Good

\* out_op() adding a constant to a value in a register.
LEMMA OpOffsetOK ==
  ASSUME NEW s, Inv(s), s.rsv = {}, NEW i \in Live(s), NEW t, t = OpOffset(s, i)
  PROVE  Fine(t)
<1> DEFINE d == DecayFlagsExcept(s, {i})
<1>1. Halted(d) \/ (Inv(d) /\ Walked(s, d) /\ FlagsOnly(d, {i}))
  BY DecayFlagsOnly
<1>2. t = AddConst(d, i)
  BY DEF OpOffset
<1> HIDE DEF d
<1>3. CASE Halted(d)
  BY <1>2, <1>3, HaltedStopped DEF AddConst
<1>4. CASE Inv(d) /\ Walked(s, d) /\ FlagsOnly(d, {i})
  <2>1. i \in Live(d) /\ d.rsv = {} /\ ~Stopped(d) /\ Inv(d)
    BY <1>4, HaltedStopped DEF Walked
  <2>2. CASE InReg(d, i)
    <3> DEFINE u == DupOrReuse(d, i)
    <3>1. Halted(u) \/ (Inv(u) /\ u.rsv = d.rsv /\ u.ret \in Live(u) /\ InReg(u, u.ret))
      BY <2>1, <2>2, DupOrReuseOK
    <3>2. t = AddOffset(u)
      BY <1>2, <2>1, <2>2 DEF AddConst
    <3> HIDE DEF u
    <3>3. CASE Halted(u)
      BY <3>2, <3>3, HaltedStopped DEF AddOffset
    <3>4. CASE Inv(u) /\ u.rsv = d.rsv /\ u.ret \in Live(u) /\ InReg(u, u.ret)
      BY <2>1, <3>2, <3>4, AddOffsetInv DEF Fine
    <3> QED BY <3>1, <3>3, <3>4
  <2>3. CASE ~InReg(d, i)
    <3> DEFINE u == ToPlainReg(d, i)
    <3>1. Halted(u) \/ (Inv(u) /\ Carried(d, u, i) /\ InReg(u, u.ret) /\ u.v[u.ret].off = 0)
      BY <2>1, ToPlainRegOK
    <3>2. t = AddInsn(u)
      BY <1>2, <2>1, <2>3 DEF AddConst
    <3> HIDE DEF u
    <3>3. CASE Halted(u)
      BY <3>2, <3>3, HaltedStopped DEF AddInsn
    <3>4. CASE Inv(u) /\ Carried(d, u, i) /\ InReg(u, u.ret) /\ u.v[u.ret].off = 0
      <4>1. u.ret \in Live(u) /\ u.rsv = {}
        BY <2>1, <3>4 DEF Carried
      <4>2. FlagsOnly(u, {i} \ {i})
        BY <1>4, <3>4, CarriedFlags
      <4>3. FlagsOnly(u, {})
        BY <4>2 DEF FlagsOnly
      <4> QED BY <3>2, <3>4, <4>1, <4>3, AddInsnInv DEF Fine
    <3> QED BY <3>1, <3>3, <3>4
  <2> QED BY <2>2, <2>3
<1> QED BY <1>1, <1>3, <1>4

\* impl_op(): the result is in the left operand's register.
ResultIn(s, l) == [s EXCEPT !.R[s.v[l].at] = Made, !.F = Junk, !.v[l].sem = Made]

LEMMA ResultInOK ==
  ASSUME NEW s, Inv(s), NEW l \in Live(s), InReg(s, l), s.v[l].off = 0,
         FlagsOnly(s, {}), NEW t, t = ResultIn(s, l)
  PROVE  Inv(t) /\ Live(t) = Live(s) /\ t.rsv = s.rsv
<1> DEFINE r == s.v[l].at
           x == Value(s.v[l].n, "reg", s.v[l].at, 0, Made)
           v1 == [s.v EXCEPT ![l] = x]
           R1 == [s.R EXCEPT ![r] = Made]
<1>1. Good(s) /\ s \in State
  BY DEF Inv, Good
<1>2. /\ s.v[l] \in Val /\ s.v[l].n \in Nat /\ r \in Nat /\ Placed(s, l)
      /\ s.v[l].t = "reg" /\ s.v \in Vals /\ s.R \in [Regs -> Content] /\ l \in DOMAIN s.v
  BY <1>1, GoodVal, StateFields DEF InReg, Live
<1>3. r \in Regs
  BY <1>2 DEF Placed, InReg
<1>4. Made \in Content /\ Made[1] # 0 /\ Junk \in Content
  BY Contents
<1>5. x \in Val
  <2>1. "reg" \in Kinds /\ 0 \in Int
    BY DEF Kinds
  <2> HIDE DEF r
  <2> QED BY <1>2, <1>4, <2>1, ValueVal DEF r
<1>6. [s.v[l] EXCEPT !.sem = Made] = x
  BY <1>2, <1>4, ValFields
<1>7. t = [s EXCEPT !.R = R1, !.F = Junk, !.v = v1]
  <2>1. t = [s EXCEPT !.R = R1, !.F = Junk, !.v = [s.v EXCEPT ![l] = [s.v[l] EXCEPT !.sem = Made]]]
    <3> HIDE DEF Content, Vals, Mem, Made, Junk
    <3> QED BY <1>1 DEF ResultIn, State
  <2> QED BY <1>6, <2>1
<1>8. v1 \in Vals /\ DOMAIN v1 = DOMAIN s.v /\ v1[l] = x /\ \A j \in DOMAIN s.v \ {l} : v1[j] = s.v[j]
  <2> HIDE DEF x
  <2> QED BY <1>2, <1>5, ValsUpdate
<1>9. R1 \in [Regs -> Content] /\ R1[r] = Made /\ \A q \in Regs \ {r} : R1[q] = s.R[q]
  <2> HIDE DEF Content, Made, r
  <2> QED BY <1>2, <1>3, <1>4
<1> HIDE DEF v1, R1
<1>10. /\ t \in State /\ t.v = v1 /\ t.R = R1 /\ t.list = s.list /\ t.next = s.next /\ t.M = s.M
       /\ t.rsv = s.rsv /\ t.cs = s.cs /\ t.cur = s.cur /\ t.ice = s.ice /\ t.read = s.read
  <2> HIDE DEF Vals, Mem, Content, Junk
  <2> QED BY <1>1, <1>4, <1>7, <1>8, <1>9 DEF State
<1>11. /\ Live(t) = Live(s) /\ t.v[l] = Value(s.v[l].n, "reg", s.v[l].at, 0, Made)
       /\ \A j \in Live(s) \ {l} : t.v[j] = s.v[j]
       /\ t.R[s.v[l].at] = Made /\ \A q \in Regs \ {s.v[l].at} : t.R[q] = s.R[q]
  BY <1>8, <1>9, <1>10 DEF Live
<1> HIDE DEF r, x
<1>12. Inv(t)
  BY <1>4, <1>10, <1>11, ResultInv
<1> QED BY <1>10, <1>11, <1>12

LEMMA BinaryInsnOK ==
  ASSUME NEW s, Inv(s), s.rsv = {}, NEW l \in Live(s), InReg(s, l) => s.v[l].off = 0,
         s.ret \in Live(s), s.ret # l, FlagsOnly(s, {}),
         NEW t, t = BinaryInsn(s, l)
  PROVE  Fine(t)
<1>1. ~Stopped(s) /\ s \in State
  BY HaltedStopped
<1>2. CASE ~InReg(s, l)
  <2>1. t = OperandIce(s)
    BY <1>1, <1>2 DEF BinaryInsn
  <2> QED BY <1>1, <2>1, IceHalts, HaltedStopped
<1>3. CASE InReg(s, l)
  <2> DEFINE u == ResultIn(s, l)
  <2>1. t = Release(u, s.ret)
    BY <1>1, <1>3 DEF BinaryInsn, ResultIn
  <2>2. Inv(u) /\ Live(u) = Live(s) /\ u.rsv = {}
    BY <1>3, ResultInOK
  <2> HIDE DEF u
  <2> QED BY <2>1, <2>2, ReleaseInv DEF Fine
<1> QED BY <1>2, <1>3

\* First the left operand (d to a), then the right one (a to b) is taken to where
\* an instruction needs it: they are different values, and none is in the flags.
LEMMA TwoOperands ==
  ASSUME NEW d, NEW a, NEW b, NEW l \in Live(d), NEW r \in Live(d), l # r,
         FlagsOnly(d, {l, r}),
         Carried(d, a, l), Carried(a, b, r)
  PROVE  /\ b.rsv = d.rsv /\ a.ret \in Live(b) /\ b.ret \in Live(b) /\ a.ret # b.ret
         /\ Stays(a, b, a.ret) /\ FlagsOnly(b, {})
<1>1. a.ret \in Live(a) \ {r} /\ r \in Live(a)
  BY DEF Carried
<1>2. a.ret \in Live(b) /\ Stays(a, b, a.ret) /\ b.ret \in Live(b) /\ b.rsv = d.rsv
  BY <1>1 DEF Carried
<1>3. a.ret # b.ret
  BY <1>1 DEF Carried
<1>4. FlagsOnly(a, {l, r} \ {l})
  BY CarriedFlags
<1>5. FlagsOnly(a, {r})
  BY <1>4 DEF FlagsOnly
<1>6. FlagsOnly(b, {r} \ {r})
  BY <1>5, CarriedFlags
<1>7. FlagsOnly(b, {})
  BY <1>6 DEF FlagsOnly
<1> QED BY <1>2, <1>3, <1>7

\* The flags that are not operands have gone to registers.
LEMMA OperandFlags ==
  ASSUME NEW s, Inv(s), s.rsv = {}, NEW l \in Live(s), NEW r \in Live(s),
         NEW d, d = DecayFlagsExcept(s, {l, r})
  PROVE  \/ Halted(d)
         \/ /\ Inv(d) /\ ~Stopped(d) /\ d.rsv = {} /\ l \in Live(d) /\ r \in Live(d)
            /\ d.v[l].n = s.v[l].n
            /\ FlagsOnly(d, {l, r})
<1>1. Halted(d) \/ (Inv(d) /\ Walked(s, d) /\ FlagsOnly(d, {l, r}))
  BY DecayFlagsOnly
<1> QED BY <1>1, HaltedStopped DEF Walked

LEMMA OpBinaryOK ==
  ASSUME NEW s, Inv(s), s.rsv = {}, NEW l \in Live(s), NEW r \in Live(s), l # r, s.v[l].n = 1,
         NEW t, t = OpBinary(s, l, r)
  PROVE  Fine(t)
<1> DEFINE d == DecayFlagsExcept(s, {l, r})
           a == ToPlainReg(d, l)
           b == ToRegOrConst(a, r)
<1>1. \/ Halted(d)
      \/ /\ Inv(d) /\ ~Stopped(d) /\ d.rsv = {} /\ l \in Live(d) /\ r \in Live(d)
         /\ d.v[l].n = s.v[l].n
         /\ FlagsOnly(d, {l, r})
  BY OperandFlags
<1>2. /\ t = BinaryRight(a, r) /\ a = ToPlainReg(d, l) /\ b = ToRegOrConst(a, r)
      /\ Stopped(d) => a = d
  BY DEF OpBinary, ToPlainReg
<1>3. /\ ~Stopped(a) => t = BinaryInsn(b, a.ret)
      /\ Stopped(a) => t = a
  BY <1>2 DEF BinaryRight
<1> HIDE DEF d, a, b
<1>4. CASE Halted(d)
  BY <1>2, <1>3, <1>4, HaltedStopped
<1>5. CASE /\ Inv(d) /\ ~Stopped(d) /\ d.rsv = {} /\ l \in Live(d) /\ r \in Live(d)
           /\ d.v[l].n = s.v[l].n
           /\ FlagsOnly(d, {l, r})
  <2>1. Halted(a) \/ (Inv(a) /\ Carried(d, a, l) /\ InReg(a, a.ret) /\ a.v[a.ret].off = 0)
    BY <1>2, <1>5, ToPlainRegOK
  <2>2. CASE Halted(a)
    BY <1>3, <2>2, HaltedStopped
  <2>3. CASE Inv(a) /\ Carried(d, a, l) /\ InReg(a, a.ret) /\ a.v[a.ret].off = 0
    <3>1. r \in Live(a) /\ ~Stopped(a)
      BY <1>5, <2>3, HaltedStopped DEF Carried
    <3>2. Halted(b) \/ (Inv(b) /\ Carried(a, b, r) /\ Operand(b, b.ret))
      BY <1>2, <2>3, <3>1, ToRegOrConstOK
    <3>3. t = BinaryInsn(b, a.ret)
      BY <1>3, <3>1
    <3>4. CASE Halted(b)
      BY <3>3, <3>4, HaltedStopped DEF BinaryInsn
    <3>5. CASE Inv(b) /\ Carried(a, b, r)
      <4>1. /\ b.rsv = d.rsv /\ a.ret \in Live(b) /\ b.ret \in Live(b) /\ a.ret # b.ret
            /\ Stays(a, b, a.ret) /\ FlagsOnly(b, {})
        BY <1>5, <2>3, <3>5, TwoOperands
      <4>2. b.v[a.ret].off = 0
        BY <2>3, <4>1 DEF Stays
      <4> DEFINE k == a.ret
      <4>3. k \in Live(b) /\ b.v[k].off = 0 /\ b.ret # k /\ t = BinaryInsn(b, k)
        BY <3>3, <4>1, <4>2
      <4> HIDE DEF k
      <4> QED BY <1>5, <3>5, <4>1, <4>3, BinaryInsnOK
    <3> QED BY <3>2, <3>4, <3>5
  <2> QED BY <2>1, <2>2, <2>3
<1> QED BY <1>1, <1>4, <1>5

\* The comparison instruction: flags in place of one operand, the other released.
LEMMA CompareInsnOK ==
  ASSUME NEW s, Inv(s), s.rsv = {}, NEW l \in Live(s), NEW r \in Live(s), l # r,
         FlagsOnly(s, {}), NEW t, t = CompareInsn(s, l, r)
  PROVE  Fine(t)
<1> DEFINE f == WriteFlags(s, Made)
<1>1. ~Stopped(s) /\ s \in State
  BY HaltedStopped
<1>2. Made \in Content /\ Made[1] # 0
  BY Contents
<1>3. Inv(f) /\ f.rsv = s.rsv /\ Live(f) = Live(s) /\ f.F = Made
  BY <1>1, <1>2, FlagsInv, FlagFields DEF FlagsOnly
<1>4. PICK keep \in {l, r}, drop \in {l, r} :
        keep # drop /\ t = Become(Release(f, drop), keep, "flag", 0, Made)
  BY <1>1 DEF CompareInsn, WriteFlags
<1> HIDE DEF f
<1> DEFINE g == Release(f, drop)
<1>5. Inv(g) /\ g.rsv = {}
  BY <1>3, ReleaseInv
<1>6. keep \in Live(g) /\ g.F = Made
  <2>1. /\ Good(f) /\ drop \in Live(f) /\ f.v[drop].n \in Nat /\ Placed(f, drop)
    BY <1>3, GoodVal DEF Inv
  <2>2. f.v[drop].n = 1 \/ f.v[drop].n > 1
    BY <2>1 DEF Placed
  <2>3. /\ Same(f, g) /\ (f.v[drop].n > 1 => Live(g) = Live(f))
        /\ (f.v[drop].n = 1 => Live(g) = Live(f) \ {drop})
    BY <2>1, GoodRelease
  <2> QED BY <1>3, <1>4, <2>2, <2>3 DEF Same
<1>7. t = Become(g, keep, "flag", 0, Made)
  BY <1>4
<1> HIDE DEF g
<1>8. Good(g) /\ g.read # "wrong" /\ \A j \in Live(g) : Holds(g, j)
  BY <1>5 DEF Inv, Right
<1> DEFINE k == "flag"
<1>9. k \in {"reg", "flag"} /\ k # "reg" /\ t = Become(g, keep, k, 0, Made) /\ 0 \in Nat
  BY <1>7
<1> HIDE DEF k
<1>10. Inv(t) /\ t.rsv = g.rsv
  BY <1>2, <1>6, <1>8, <1>9, ReplaceInv
<1> QED BY <1>5, <1>10 DEF Fine

LEMMA OpCompareOK ==
  ASSUME NEW s, Inv(s), s.rsv = {}, NEW l \in Live(s), NEW r \in Live(s), l # r,
         NEW t, t = OpCompare(s, l, r)
  PROVE  Fine(t)
<1> DEFINE d == DecayFlagsExcept(s, {l, r})
           a == ToRegOrConst(d, l)
           b == ToRegOrConst(a, r)
<1>1. \/ Halted(d)
      \/ /\ Inv(d) /\ ~Stopped(d) /\ d.rsv = {} /\ l \in Live(d) /\ r \in Live(d)
         /\ d.v[l].n = s.v[l].n
         /\ FlagsOnly(d, {l, r})
  BY OperandFlags
<1>2. /\ t = CompareRight(a, r) /\ a = ToRegOrConst(d, l) /\ b = ToRegOrConst(a, r)
      /\ Stopped(d) => a = d \/ a = Ret(d, l)
  BY DEF OpCompare, ToRegOrConst, ToPlainReg
<1>3. /\ ~Stopped(a) => t = CompareInsn(b, a.ret, b.ret)
      /\ Stopped(a) => t = a
  BY <1>2 DEF CompareRight, CompareWith
<1> HIDE DEF d, a, b
<1>4. CASE Halted(d)
  <2>1. l \in Nat
    BY StateFields, HaltedStopped
  <2>2. Halted(a)
    BY <1>2, <1>4, <2>1, HaltedStopped, RetFields DEF Halted, Same
  <2> QED BY <1>3, <2>2, HaltedStopped
<1>5. CASE /\ Inv(d) /\ ~Stopped(d) /\ d.rsv = {} /\ l \in Live(d) /\ r \in Live(d)
           /\ d.v[l].n = s.v[l].n
           /\ FlagsOnly(d, {l, r})
  <2>1. Halted(a) \/ (Inv(a) /\ Carried(d, a, l) /\ Operand(a, a.ret))
    BY <1>2, <1>5, ToRegOrConstOK
  <2>2. CASE Halted(a)
    BY <1>3, <2>2, HaltedStopped
  <2>3. CASE Inv(a) /\ Carried(d, a, l)
    <3>1. r \in Live(a) /\ ~Stopped(a)
      BY <1>5, <2>3, HaltedStopped DEF Carried
    <3>2. Halted(b) \/ (Inv(b) /\ Carried(a, b, r) /\ Operand(b, b.ret))
      BY <1>2, <2>3, <3>1, ToRegOrConstOK
    <3> DEFINE k == a.ret
               m == b.ret
    <3>3. t = CompareInsn(b, k, m)
      BY <1>3, <3>1
    <3>4. CASE Halted(b)
      BY <3>3, <3>4, HaltedStopped DEF CompareInsn
    <3>5. CASE Inv(b) /\ Carried(a, b, r)
      <4>1. /\ b.rsv = d.rsv /\ k \in Live(b) /\ m \in Live(b) /\ k # m
            /\ FlagsOnly(b, {})
        <5>0. /\ l \in Live(d) /\ r \in Live(d) /\ Carried(d, a, l) /\ Carried(a, b, r)
              /\ FlagsOnly(d, {l, r})
          BY <1>5, <2>3, <3>5
        <5> HIDE DEF k, m
        <5>1. /\ b.rsv = d.rsv /\ a.ret \in Live(b) /\ b.ret \in Live(b) /\ a.ret # b.ret
              /\ Stays(a, b, a.ret) /\ FlagsOnly(b, {})
          BY <5>0, TwoOperands
        <5> USE DEF k, m
        <5> QED BY <5>1
      <4> HIDE DEF k, m
      <4> QED BY <1>5, <3>3, <3>5, <4>1, CompareInsnOK
    <3> QED BY <3>2, <3>4, <3>5
  <2> QED BY <2>1, <2>2, <2>3
<1> QED BY <1>1, <1>4, <1>5

\* v_freeup_reg(): whoever is in scratch register r moves away.
LEMMA FreeupRegOK ==
  ASSUME NEW s, Inv(s), NEW r, r \in Scratch, NEW t, t = FreeupReg(s, r)
  PROVE  \/ Halted(t)
         \/ Inv(t) /\ Moved(s, t) /\ \A i \in Live(t) : ~InRegAt(t, i, r)
<1>1. Good(s) /\ ~Stopped(s)
  BY HaltedStopped DEF Inv
<1>2. CASE \E i \in Live(s) : InRegAt(s, i, r)
  <2>1. PICK i \in Live(s) : InRegAt(s, i, r) /\ t = Freeup(s, i)
    BY <1>1, <1>2 DEF FreeupReg
  <2>2. InReg(s, i) /\ s.v[i].at = r
    BY <2>1 DEF InReg, InRegAt
  <2>3. Halted(t) \/ Freed(s, t, i)
    BY <1>1, <2>1, <2>2, FreeupAllOK
  <2>4. ASSUME Freed(s, t, i)
        PROVE  Inv(t) /\ Moved(s, t) /\ \A j \in Live(t) : ~InRegAt(t, j, r)
    <3>1. Free(t, r)
      BY <1>1, <2>2, <2>4, FreedFree
    <3> QED BY <2>4, <3>1, MovedInv DEF Freed, Free
  <2> QED BY <2>3, <2>4
<1>3. CASE ~\E i \in Live(s) : InRegAt(s, i, r)
  <2>1. t = s
    BY <1>3 DEF FreeupReg
  <2> QED BY <1>1, <1>3, <2>1, MovedSelf
<1> QED BY <1>2, <1>3

\* rdx is reserved.
Reserve(s) == [s EXCEPT !.rsv = {2}]

LEMMA ReserveFields ==
  ASSUME NEW s, s \in State, NEW t, t = Reserve(s)
  PROVE  /\ t \in State /\ t.v = s.v /\ t.list = s.list /\ t.next = s.next /\ t.M = s.M /\ t.R = s.R
         /\ t.F = s.F /\ t.rsv = {2} /\ t.cs = s.cs /\ t.cur = s.cur /\ t.ice = s.ice
         /\ t.read = s.read /\ Live(t) = Live(s)
<1> HIDE DEF Vals, Mem, Content
<1> QED BY DEF Reserve, State, Live

LEMMA ReserveInv ==
  ASSUME NEW s, Inv(s), \A i \in Live(s) : ~InRegAt(s, i, 2), NEW t, t = Reserve(s)
  PROVE  Inv(t) /\ t.rsv = {2} /\ t.v = s.v /\ Live(t) = Live(s)
<1>1. Good(s) /\ s \in State /\ s.read # "wrong" /\ \A j \in Live(s) : Holds(s, j) /\ Placed(s, j)
  BY DEF Inv, Right, Good
<1>2. /\ t \in State /\ t.v = s.v /\ t.list = s.list /\ t.next = s.next /\ t.M = s.M /\ t.R = s.R
      /\ t.F = s.F /\ t.rsv = {2} /\ t.cs = s.cs /\ t.cur = s.cur /\ t.ice = s.ice
      /\ t.read = s.read /\ Live(t) = Live(s)
  BY <1>1, ReserveFields
<1>3. ASSUME NEW j \in Live(s) PROVE Placed(t, j)
  BY <1>1, <1>2 DEF Placed, InReg, InRegAt, OnStack
<1>4. Good(t)
  BY <1>1, <1>2, <1>3 DEF Good, Listed, Kept, Apart, InReg, OnStack
<1>5. ASSUME NEW j \in Live(s) PROVE Holds(t, j)
  BY <1>1, <1>2, HoldsSame
<1> QED BY <1>1, <1>2, <1>4, <1>5 DEF Inv, Right

\* x86_idiv() so far: the dividend, whose only reference the caller gave up, is in rax.
\* An offset is applied in place where a value has one reference; a value that is not looked at
\* stays, if a register is free for a copy.
LEMMA ApplyStays ==
  ASSUME NEW s, Inv(s), NEW i \in Live(s), InReg(s, i), NEW t, t = Apply(s, i)
  PROVE  /\ s.v[i].n = 1 => t.v[i].t = s.v[i].t /\ t.v[i].at = s.v[i].at
         /\ FreeRegs(s, Scratch) # {} => \A j \in Live(s) \ {i} : t.v[j] = s.v[j]
<1> DEFINE d == s.v[i].off
           at == s.v[i].at
<1>0. /\ Good(s) /\ s \in State /\ Placed(s, i) /\ i \in Nat
      /\ s.v[i].n \in Nat /\ at \in Nat /\ d \in Int
  <2>1. Good(s)
    BY DEF Inv
  <2>2. s \in State /\ Placed(s, i) /\ s.v[i].n \in Nat /\ at \in Nat /\ d \in Int
    BY <2>1, GoodVal
  <2> QED BY <2>1, <2>2, StateFields
<1>1. CASE d = 0
  <2>1. t = Ret(s, i)
    BY <1>1 DEF Apply, ApplyOffset
  <2>2. t.v = s.v
    BY <1>0, <2>1, RetFields
  <2> QED BY <2>2
<1>2. CASE d # 0 /\ s.v[i].n = 1
  <2> DEFINE a == AddTo(s, at, d)
             p == Plain(a, i)
  <2>1. t = Ret(p, i)
    BY <1>2 DEF Apply, ApplyOffset
  <2>2. at \in Regs /\ (at \in CalleeSave => at \in s.cs)
    BY <1>0 DEF Placed
  <2> HIDE DEF d, at
  <2>3. Good(a) /\ a.v = s.v /\ Live(a) = Live(s)
    <3>1. Good(a)
      BY <1>0, <2>2, GoodAdd
    <3> QED BY <1>0, <2>2, <3>1, AddFields
  <2> HIDE DEF a
  <2>4. /\ Good(p) /\ p.v[i].t = a.v[i].t /\ p.v[i].at = a.v[i].at
        /\ \A j \in Live(a) \ {i} : p.v[j] = a.v[j]
    BY <2>3, PlainOK
  <2> HIDE DEF p
  <2>5. t.v = p.v
    <3>1. p \in State
      BY <2>4 DEF Good
    <3> QED BY <1>0, <2>1, <3>1, RetFields
  <2> QED BY <2>3, <2>4, <2>5
<1>3. CASE d # 0 /\ s.v[i].n # 1
  <2> SUFFICES ASSUME FreeRegs(s, Scratch) # {}
               PROVE  \A j \in Live(s) \ {i} : t.v[j] = s.v[j]
    BY <1>3
  <2> DEFINE p == Plain(s, i)
             f == Unused(p)
             r == Lowest(FreeRegs(p, Scratch))
  <2>1. t = AddToCopy(CopyToReg(f, i), i, d)
    BY <1>3 DEF Apply, ApplyOffset
  <2>2. /\ Good(p) /\ p.rsv = s.rsv /\ Live(p) = Live(s)
        /\ p.v[i].n = s.v[i].n /\ p.v[i].t = s.v[i].t /\ p.v[i].at = s.v[i].at /\ p.v[i].off = 0
        /\ \A j \in Live(s) \ {i} : p.v[j] = s.v[j]
    BY <1>0, PlainOK DEF Same
  <2> HIDE DEF d, p
  <2>3. FreeRegs(p, Scratch) = FreeRegs(s, Scratch)
    <3>1. \A j \in Live(s) : \A q : InRegAt(p, j, q) <=> InRegAt(s, j, q)
      BY <2>2 DEF InRegAt
    <3> QED BY <2>2, <3>1 DEF FreeRegs
  <2>4. r \in Scratch /\ Free(p, r) /\ r \in Nat
    BY <2>3, FreeRegsFree, RegSets
  <2>5. f = [p EXCEPT !.reg = r]
    BY <2>3 DEF Unused, UnusedReg
  <2> HIDE DEF f, r
  <2>6. Good(f) /\ f.v = p.v /\ Live(f) = Live(p) /\ f.reg = r /\ f.rsv = p.rsv
    <3>1. p \in State
      BY <2>2 DEF Good
    <3> QED BY <2>2, <2>4, <2>5, <3>1, RegFields DEF Same
  <2>7. Free(f, f.reg) /\ f.reg \in Scratch
    BY <2>4, <2>6 DEF Free, InRegAt
  <2>8. i \in Live(f) /\ InReg(f, i) /\ f.v[i].n > 1 /\ f.v[i].off = 0
    BY <1>0, <1>3, <2>2, <2>6 DEF Placed, InReg
  <2>9. \A j \in Live(f) \ {i} : t.v[j] = f.v[j]
    BY <1>0, <2>1, <2>6, <2>7, <2>8, AddToCopyOK
  <2> QED BY <2>2, <2>6, <2>9
<1> QED BY <1>1, <1>2, <1>3

\* v_to(TO_REG) with a register free for it: the other values stay where they are.
LEMMA ToPlainFree ==
  ASSUME NEW s, Inv(s), FreeRegs(s, Scratch) # {}, NEW i \in Live(s), NEW j \in Live(s), j # i,
         NEW t, t = ToPlainReg(s, i)
  PROVE  t.v[j] = s.v[j]
<1>0. Good(s) /\ s \in State /\ i \in Nat /\ ~Stopped(s)
  <2>1. Good(s) /\ s \in State
    BY DEF Inv, Good
  <2> QED BY <2>1, StateFields, HaltedStopped
<1>1. CASE InReg(s, i)
  <2> DEFINE u == Ret(s, i)
  <2>1. Inv(u) /\ u.v = s.v /\ Live(u) = Live(s) /\ u.ret = i /\ u.rsv = s.rsv
    BY <1>0, RetFields DEF Same
  <2>2. t = ApplyRet(u)
    BY <1>0, <1>1 DEF ToPlainReg, ToReg
  <2> HIDE DEF u
  <2>3. t = Apply(u, i) /\ InReg(u, i) /\ i \in Live(u)
    BY <1>1, <2>1, <2>2, HaltedStopped DEF ApplyRet, InReg
  <2>4. FreeRegs(u, Scratch) # {}
    BY <2>1 DEF FreeRegs, InRegAt
  <2> QED BY <2>1, <2>3, <2>4, ApplyStays
<1>2. CASE ~InReg(s, i)
  <2> DEFINE r == Lowest(FreeRegs(s, Scratch))
             f == [s EXCEPT !.reg = r]
             w == LoadInto(f, i, r)
             k == w.ret
  <2>1. r \in Scratch /\ Free(s, r) /\ r \in Nat
    BY FreeRegsFree, RegSets
  <2>2. Unused(s) = f
    BY DEF Unused, UnusedReg
  <2> HIDE DEF r
  <2>3. Good(f) /\ f.v = s.v /\ Live(f) = Live(s) /\ f.reg = r /\ Same(s, f) /\ f.list = s.list
        /\ f.cur = s.cur
    BY <1>0, <2>1, RegFields
  <2> HIDE DEF f
  <2>4. Free(f, r) /\ Inv(f)
    <3>1. Free(f, r)
      BY <2>1, <2>3 DEF Free, InRegAt, Same
    <3>2. Moved(s, f)
      BY <1>0, <2>3, MovedSelf, MovedSame
    <3> QED BY <2>3, <3>1, <3>2, MovedInv
  <2>5. ToReg(s, i) = w
    BY <1>2, <2>2, <2>3, <2>4, HaltedStopped DEF ToReg, LoadUnused
  <2>6. /\ Inv(w) /\ Carried(f, w, i) /\ w.v[w.ret].off = 0
        /\ \A x \in Live(f) \ {i} : w.v[x] = f.v[x]
    BY <2>1, <2>3, <2>4, LoadOK
  <2> HIDE DEF w
  <2>7. k \in Nat /\ w \in State
    <3>1. w \in State /\ k \in Live(w)
      BY <2>6 DEF Inv, Good, Carried
    <3> QED BY <3>1, StateFields
  <2>8. t = Ret(w, k)
    BY <1>0, <2>5, <2>6, HaltedStopped DEF ToPlainReg, ApplyRet, Apply, ApplyOffset
  <2> HIDE DEF k
  <2>9. t.v = w.v
    BY <2>7, <2>8, RetFields
  <2> QED BY <2>3, <2>6, <2>9
<1> QED BY <1>1, <1>2

LEMMA IdivLeftOK ==
  ASSUME NEW s, Inv(s), s.rsv = {2}, NEW l \in Live(s), NEW t, t = IdivLeft(s, l)
  PROVE  \/ Halted(t)
         \/ Inv(t) /\ Carried(s, t, l) /\ (s.v[l].n = 1 => InRegAt(t, l, 1))
<1>1. ~Stopped(s)
  BY HaltedStopped
<1>2. CASE InReg(s, l) /\ s.v[l].at = 1
  <2>1. t = Apply(s, l)
    BY <1>1, <1>2 DEF IdivLeft
  <2>2. s.v[l].n = 1 => t.v[l].t = s.v[l].t /\ t.v[l].at = s.v[l].at
    BY <1>2, <2>1, ApplyStays
  <2> QED BY <1>2, <2>1, <2>2, ApplyOK DEF InRegAt, InReg
<1>3. CASE ~(InReg(s, l) /\ s.v[l].at = 1)
  <2> DEFINE u == FreeupReg(s, 1)
             w == IdivLoad(u, l)
             k == w.ret
  <2>1. t = ApplyRet(w) /\ w = IdivLoad(u, l) /\ u = FreeupReg(s, 1)
    BY <1>1, <1>3 DEF IdivLeft
  <2>2. 1 \in Scratch /\ 1 # 2 /\ 1 \in Regs
    BY RegSets
  <2>3. \/ Halted(u)
        \/ Inv(u) /\ Moved(s, u) /\ \A i \in Live(u) : ~InRegAt(u, i, 1)
    BY <2>2, FreeupRegOK
  <2> HIDE DEF u, w
  <2>4. CASE Halted(u)
    <3>1. w = u
      BY <2>1, <2>4, HaltedStopped DEF IdivLoad
    <3> QED BY <2>1, <2>4, <3>1, HaltedStopped DEF ApplyRet
  <2>5. CASE Inv(u) /\ Moved(s, u) /\ \A i \in Live(u) : ~InRegAt(u, i, 1)
    <3>1. l \in Live(u) /\ u.rsv = {2} /\ Good(u)
      BY <2>5 DEF Moved, Inv
    <3>2. Free(u, 1)
      BY <2>2, <2>5, <3>1 DEF Free
    <3>3. w = LoadInto(u, l, 1)
      BY <2>1, <2>5, HaltedStopped DEF IdivLoad
    <3>4. Inv(w) /\ Carried(u, w, l) /\ InRegAt(w, w.ret, 1) /\ w.v[w.ret].off = 0
      BY <2>2, <2>5, <3>1, <3>2, <3>3, LoadOK
    <3>5. k \in Live(w) /\ InReg(w, k) /\ t = Apply(w, k)
      BY <2>1, <3>4, HaltedStopped DEF Carried, InReg, InRegAt, ApplyRet
    <3>6. k = w.ret
      OBVIOUS
    <3> HIDE DEF k
    <3>7. Halted(t) \/ (Inv(t) /\ Carried(w, t, k) /\ InReg(t, t.ret) /\ t.v[t.ret].off = 0)
      BY <3>4, <3>5, ApplyOK
    <3>8. Carried(s, w, l)
      BY <2>5, <3>1, <3>4, MovedCarried
    <3>9. ASSUME s.v[l].n = 1 PROVE InRegAt(t, l, 1)
      <4>1. k = l /\ w.v[k].off = 0 /\ InRegAt(w, k, 1) /\ w \in State /\ k \in Nat
        <5>1. w \in State
          BY <3>4 DEF Inv, Good
        <5> QED BY <3>4, <3>5, <3>6, <3>8, <3>9, <5>1, StateFields DEF Carried
      <4>2. t = Ret(w, k)
        BY <3>5, <4>1 DEF Apply, ApplyOffset
      <4>3. t.v = w.v
        BY <4>1, <4>2, RetFields
      <4> QED BY <4>1, <4>3 DEF InRegAt
    <3> QED BY <3>6, <3>7, <3>8, <3>9, CarriedTrans
  <2> QED BY <2>3, <2>4, <2>5
<1> QED BY <1>2, <1>3

\* The idiv instruction: rax, rdx and the flags are written, rdx is no longer reserved.
Divided(s, res) ==
  [s EXCEPT !.R[1] = IF res = 1 THEN Made ELSE Junk, !.R[2] = IF res = 2 THEN Made ELSE Junk,
            !.F = Junk, !.rsv = {}]

LEMMA DividedFields ==
  ASSUME NEW s, s \in State, NEW res, res \in {1, 2}, NEW t, t = Divided(s, res)
  PROVE  /\ t \in State /\ t.v = s.v /\ t.list = s.list /\ t.next = s.next /\ t.M = s.M
         /\ t.rsv = {} /\ t.cs = s.cs /\ t.cur = s.cur /\ t.ice = s.ice /\ t.ret = s.ret
         /\ t.read = s.read /\ Live(t) = Live(s)
         /\ t.R[res] = Made /\ \A q \in Regs \ {1, 2} : t.R[q] = s.R[q]
<1> DEFINE q == IF res = 1 THEN Made ELSE Junk
           m == IF res = 2 THEN Made ELSE Junk
           R1 == [[s.R EXCEPT ![1] = q] EXCEPT ![2] = m]
<1>1. Made \in Content /\ Junk \in Content /\ s.R \in [Regs -> Content] /\ 1 \in Regs /\ 2 \in Regs
  BY Contents, RegSets, StateFields
<1>2. q \in Content /\ m \in Content /\ (res = 1 => q = Made) /\ (res = 2 => m = Made)
  BY <1>1
<1> HIDE DEF q, m
<1>3. R1 \in [Regs -> Content] /\ R1[1] = q /\ R1[2] = m /\ \A x \in Regs \ {1, 2} : R1[x] = s.R[x]
  <2> HIDE DEF Content
  <2> QED BY <1>1, <1>2
<1>4. t = [s EXCEPT !.R = R1, !.F = Junk, !.rsv = {}]
  <2> HIDE DEF Content, Vals, Mem, Junk
  <2> QED BY DEF Divided, State, q, m
<1> HIDE DEF R1
<1>5. /\ t \in State /\ t.v = s.v /\ t.list = s.list /\ t.next = s.next /\ t.M = s.M
      /\ t.rsv = {} /\ t.cs = s.cs /\ t.cur = s.cur /\ t.ice = s.ice /\ t.ret = s.ret
      /\ t.read = s.read /\ t.R = R1
  <2> HIDE DEF Content, Vals, Mem, Junk
  <2> QED BY <1>1, <1>3, <1>4 DEF State
<1> QED BY <1>2, <1>3, <1>5 DEF Live

LEMMA IdivInsnOK ==
  ASSUME NEW s, Inv(s), s.rsv = {2}, NEW l \in Live(s), s.v[l].n = 1, s.ret \in Live(s), s.ret # l,
         FlagsOnly(s, {}), NEW res, res \in {1, 2}, NEW full, full \in BOOLEAN,
         full \/ InRegAt(s, l, 1), NEW t, t = IdivInsn(s, l, res, full)
  PROVE  Fine(t)
<1>1. Good(s) /\ s \in State /\ s.ice = "no" /\ Kept(s) /\ ~Stopped(s) /\ s.read # "wrong" /\ \A j \in Live(s) : Holds(s, j)
  BY HaltedStopped DEF Inv, Right, Good
<1>2. CASE ~InRegAt(s, l, 1)
  <2>1. t = LostDividend(s, full) /\ full = TRUE
    BY <1>1, <1>2 DEF IdivInsn
  <2> QED BY <1>1, <2>1, IceHalts, HaltedStopped
<1>4. InRegAt(s, l, 1) <=> InReg(s, l) /\ s.v[l].at = 1
  BY DEF InReg, InRegAt
<1>3. CASE InReg(s, l) /\ s.v[l].at = 1
  <2> DEFINE e == Divided(s, res)
             g == Release(e, s.ret)
  <2>1. t = Become(g, l, "reg", res, Made) /\ g = Release(e, s.ret)
    BY <1>1, <1>3, <1>4 DEF IdivInsn, Divided
  <2>2. /\ e \in State /\ e.v = s.v /\ e.list = s.list /\ e.next = s.next /\ e.M = s.M
        /\ e.rsv = {} /\ e.cs = s.cs /\ e.cur = s.cur /\ e.ice = s.ice
        /\ e.read = s.read /\ Live(e) = Live(s)
        /\ e.R[res] = Made /\ \A q \in Regs \ {1, 2} : e.R[q] = s.R[q]
    BY <1>1, DividedFields
  <2> HIDE DEF e
  <2>3. Kept(e)
    BY <1>1, <2>2, RegSets DEF Kept
  <2>4. ASSUME NEW j \in Live(s) \ {l}, InReg(s, j) PROVE s.v[j].at \in Regs \ {1, 2}
    <3>1. s.v[j].at \in Regs \ s.rsv
      BY <1>1, <2>4, GoodVal DEF Placed
    <3>2. s.v[j].at # 1
      BY <1>1, <1>3, <2>4 DEF Good, Apart
    <3> QED BY <3>1, <3>2
  <2>5. Good(e) /\ \A j \in Live(s) \ {l} : Holds(e, j)
    <3>1. ASSUME NEW j \in Live(s) \ {l}
          PROVE  /\ Holds(s, j)
                 /\ s.v[j].t = "flag" => e.F = s.F
                 /\ InReg(s, j) => e.R[s.v[j].at] = s.R[s.v[j].at]
      BY <1>1, <2>2, <2>4 DEF FlagsOnly
    <3>2. e.rsv \subseteq s.rsv /\ e.ice = "no"
      BY <1>1, <2>2
    <3> QED BY <1>1, <2>2, <2>3, <3>1, <3>2, EditHolds
  <2>6. /\ Good(g) /\ Same(e, g) /\ g.rsv = e.rsv
        /\ \A j \in Live(g) : j \in Live(e) /\ g.v[j].t = e.v[j].t /\ g.v[j].at = e.v[j].at
        /\ \A j \in Live(g) : Holds(e, j) => Holds(g, j)
        /\ \A j \in Live(e) \ {s.ret} : j \in Live(g) /\ g.v[j] = e.v[j]
    <3> DEFINE k == s.ret
    <3>1. k \in Live(e) /\ g = Release(e, k)
      BY <2>2
    <3> HIDE DEF k, g
    <3>2. /\ Good(g) /\ Same(e, g) /\ g.rsv = e.rsv
          /\ \A j \in Live(g) : j \in Live(e) /\ g.v[j].t = e.v[j].t /\ g.v[j].at = e.v[j].at
          /\ \A j \in Live(g) : Holds(e, j) => Holds(g, j)
          /\ \A j \in Live(e) \ {k} : j \in Live(g) /\ g.v[j] = e.v[j]
      BY <2>5, <3>1, ReleaseKeeps
    <3> QED BY <3>2 DEF k
  <2> HIDE DEF g
  <2>7. l \in Live(g) /\ g.v[l] = s.v[l] /\ g.rsv = {} /\ g.read # "wrong" /\ g.R = e.R /\ g.cs = s.cs
    BY <1>1, <2>2, <2>6 DEF Same
  <2>8. ASSUME NEW j \in Live(g), j # l \/ g.v[l].n > 1 PROVE Holds(g, j)
    BY <2>2, <2>5, <2>6, <2>7, <2>8
  <2>9. Free(g, res) \/ (InRegAt(g, l, res) /\ g.v[l].n = 1)
    <3>1. CASE res = 1
      BY <1>3, <2>7, <3>1 DEF InRegAt, InReg
    <3>2. CASE res = 2
      <4>1. ASSUME NEW j \in Live(g) PROVE ~InRegAt(g, j, 2)
        <5>1. j \in Live(s)
          BY <2>2, <2>6
        <5>2. CASE j = l
          BY <1>3, <2>7, <5>2 DEF InRegAt
        <5>3. CASE j # l
          <6>1. InReg(s, j) => s.v[j].at # 2
            BY <2>4, <5>1, <5>3
          <6> QED BY <2>2, <2>6, <5>1, <6>1 DEF InReg, InRegAt
        <5> QED BY <5>2, <5>3
      <4> QED BY <2>7, <3>2, <4>1, RegSets DEF Free
    <3> QED BY <3>1, <3>2
  <2>10. /\ Made \in Content /\ Made[1] # 0 /\ res \in Nat /\ g.R[res] = Made
         /\ res \in CalleeSave => res \in g.cs
    <3>1. res \in Nat /\ res \notin CalleeSave
      BY RegSets
    <3> QED BY <2>2, <2>7, <3>1, Contents
  <2>11. Inv(t) /\ t.rsv = g.rsv
    <3>1. "reg" \in {"reg", "flag"} /\ "reg" # "flag"
      OBVIOUS
    <3> QED BY <2>1, <2>6, <2>7, <2>8, <2>9, <2>10, <3>1, ReplaceInv
  <2> QED BY <2>7, <2>11 DEF Fine
<1> QED BY <1>2, <1>3, <1>4

LEMMA IdivOK ==
  ASSUME NEW s, Inv(s), s.rsv = {}, NEW l \in Live(s), NEW r \in Live(s), l # r, s.v[l].n = 1,
         NEW res, res \in {1, 2}, NEW t, t = Idiv(s, l, r, res)
  PROVE  Fine(t)
<1> DEFINE d == DecayFlagsExcept(s, {l, r})
           f == FreeupReg(d, 2)
           q == Reserve(f)
           a == IdivLeft(q, l)
           b == ToPlainReg(a, r)
           full == (FreeRegs(a, Scratch) = {})
<1>1. \/ Halted(d)
      \/ /\ Inv(d) /\ ~Stopped(d) /\ d.rsv = {} /\ l \in Live(d) /\ r \in Live(d)
         /\ d.v[l].n = s.v[l].n
         /\ FlagsOnly(d, {l, r})
  BY OperandFlags
<1>2. /\ t = IdivRight(a, r, res) /\ a = IdivLeft(q, l) /\ q = Reserve(f) /\ f = FreeupReg(d, 2)
      /\ b = ToPlainReg(a, r)
  BY DEF Idiv, Reserve
<1>3. /\ ~Stopped(a) => t = IdivInsn(b, a.ret, res, full)
      /\ Stopped(a) => t = a
  BY <1>2 DEF IdivRight
<1>0. full \in BOOLEAN /\ (~full => FreeRegs(a, Scratch) # {})
  OBVIOUS
<1> HIDE DEF d, f, q, a, b, full
<1>4. ASSUME Halted(f) PROVE Fine(t)
  <2>1. Halted(q)
    BY <1>2, <1>4, ReserveFields DEF Halted
  <2>2. a = q
    BY <1>2, <2>1, HaltedStopped DEF IdivLeft
  <2> QED BY <1>3, <2>1, <2>2, HaltedStopped
<1>5. CASE Halted(d)
  <2>1. f = d
    BY <1>2, <1>5, HaltedStopped DEF FreeupReg
  <2> QED BY <1>4, <1>5, <2>1
<1>6. CASE /\ Inv(d) /\ ~Stopped(d) /\ d.rsv = {} /\ l \in Live(d) /\ r \in Live(d)
           /\ d.v[l].n = s.v[l].n
           /\ FlagsOnly(d, {l, r})
  <2>1. Halted(f) \/ (Inv(f) /\ Moved(d, f) /\ \A i \in Live(f) : ~InRegAt(f, i, 2))
    BY <1>2, <1>6, FreeupRegOK, RegSets
  <2>2. CASE Inv(f) /\ Moved(d, f) /\ \A i \in Live(f) : ~InRegAt(f, i, 2)
    <3>1. Inv(q) /\ q.rsv = {2} /\ q.v = f.v /\ Live(q) = Live(f)
      BY <1>2, <2>2, ReserveInv
    <3>2. /\ l \in Live(q) /\ r \in Live(q) /\ q.v[l].n = 1
          /\ FlagsOnly(q, {l, r})
      <4>1. Walked(d, f)
        BY <2>2, MovedWalked DEF Inv
      <4> QED BY <1>6, <3>1, <4>1 DEF Walked, FlagsOnly
    <3>3. Halted(a) \/ (Inv(a) /\ Carried(q, a, l) /\ InRegAt(a, l, 1))
      BY <1>2, <3>1, <3>2, IdivLeftOK
    <3>4. CASE Halted(a)
      BY <1>3, <3>4, HaltedStopped
    <3>5. CASE Inv(a) /\ Carried(q, a, l) /\ InRegAt(a, l, 1)
      <4>1. r \in Live(a) /\ ~Stopped(a)
        BY <3>2, <3>5, HaltedStopped DEF Carried
      <4>2. Halted(b) \/ (Inv(b) /\ Carried(a, b, r) /\ InReg(b, b.ret) /\ b.v[b.ret].off = 0)
        BY <1>2, <3>5, <4>1, ToPlainRegOK
      <4>3. t = IdivInsn(b, a.ret, res, full)
        BY <1>3, <4>1
      <4>4. CASE Halted(b)
        BY <4>3, <4>4, HaltedStopped DEF IdivInsn
      <4>5. CASE Inv(b) /\ Carried(a, b, r)
        <5>1. /\ l \in Live(q) /\ r \in Live(q) /\ Carried(q, a, l) /\ Carried(a, b, r)
              /\ FlagsOnly(q, {l, r})
          BY <3>2, <3>5, <4>5
        <5>2. /\ b.rsv = q.rsv /\ a.ret \in Live(b) /\ b.ret \in Live(b) /\ a.ret # b.ret
              /\ Stays(a, b, a.ret) /\ FlagsOnly(b, {})
          BY <5>1, TwoOperands
        <5>4. a.ret = l /\ a.v[l].n = 1
          BY <3>2, <3>5 DEF Carried
        <5>3. b.rsv = {2} /\ l \in Live(b) /\ b.v[l].n = 1 /\ b.ret # l
              /\ t = IdivInsn(b, l, res, full)
          BY <3>1, <4>3, <5>2, <5>4 DEF Stays
        <5>5. full \/ InRegAt(b, l, 1)
          <6>1. l \in Live(a) /\ r \in Live(a) /\ l # r
            BY <3>2, <3>5, <4>1 DEF Carried
          <6>2. ~full => b.v[l] = a.v[l]
            BY <1>0, <1>2, <3>5, <6>1, ToPlainFree
          <6> QED BY <1>0, <3>5, <6>2 DEF InRegAt
        <5> QED BY <1>0, <4>5, <5>2, <5>3, <5>5, IdivInsnOK
      <4> QED BY <4>2, <4>4, <4>5
    <3> QED BY <3>3, <3>4, <3>5
  <2> QED BY <1>4, <2>1, <2>2
<1> QED BY <1>1, <1>5, <1>6

LEMMA ClobberJunk ==
  ASSUME NEW s, Inv(s), NEW regs, \A r \in CalleeSave \cap regs : r \in s.cs,
         \A j \in Live(s) : InReg(s, j) => s.v[j].at \notin regs, FlagsOnly(s, {}),
         NEW t, t = ClobberRegs(s, regs)
  PROVE  Inv(t) /\ t.rsv = s.rsv /\ t.v = s.v
<1> DEFINE f == Junk
           u == WriteFlags(ClobberRegs(s, regs), f)
<1>1. s \in State /\ f \in Content
  BY HaltedStopped, Contents
<1>2. t \in State /\ t.F = f
  BY <1>1, ClobberFields
<1>3. u = t
  <2> HIDE DEF f, Vals, Mem, Content
  <2> QED BY <1>2 DEF WriteFlags, State
<1>4. \A j \in Live(s) : s.v[j].t = "flag" => f = s.F
  BY DEF FlagsOnly
<1>5. u = WriteFlags(ClobberRegs(s, regs), f)
  OBVIOUS
<1> HIDE DEF f, u
<1>6. \A x : x = WriteFlags(ClobberRegs(s, regs), f) => Inv(x) /\ x.rsv = s.rsv /\ x.v = s.v
  <2> TAKE x
  <2> HAVE x = WriteFlags(ClobberRegs(s, regs), f)
  <2> QED BY <1>1, <1>4, ClobberInv
<1> QED BY <1>3, <1>5, <1>6

\* impl_call().
LEMMA CallOK ==
  ASSUME NEW s, Inv(s), s.rsv = {}, NEW t, t = Call(s)
  PROVE  Fine(t)
<1> DEFINE u == SaveRegs(s, TRUE, {})
           w == ClobberRegs(u, Scratch)
<1>1. Halted(u) \/ (Inv(u) /\ Walked(s, u) /\ \A i \in Live(u) \ {} : ~NeedsSave(u, i, TRUE))
  BY SaveRegsOK
<1>2. t = CallInsn(u)
  BY DEF Call
<1> HIDE DEF u
<1>3. CASE Halted(u)
  BY <1>2, <1>3, HaltedStopped DEF CallInsn
<1>4. CASE Inv(u) /\ Walked(s, u) /\ \A i \in Live(u) \ {} : ~NeedsSave(u, i, TRUE)
  <2>1. u.rsv = {} /\ ~Stopped(u) /\ FlagsOnly(u, {})
    BY <1>4, HaltedStopped DEF Walked, NeedsSave, FlagsOnly
  <2>2. \A j \in Live(u) : InReg(u, j) => u.v[j].at \notin Scratch
    BY <1>4, RegSets DEF NeedsSave, InReg
  <2>3. \A r \in CalleeSave \cap Scratch : r \in u.cs
    BY RegSets
  <2>4. Inv(w) /\ w.rsv = {} /\ w.v = u.v
    BY <1>4, <2>1, <2>2, <2>3, ClobberJunk
  <2>5. t = New(Write(w, 1, Made), "reg", 1, 0, Made)
    BY <1>2, <2>1 DEF CallInsn, Write
  <2> HIDE DEF w
  <2>6. 1 \in Scratch /\ 1 \in Regs
    BY RegSets
  <2>7. Free(w, 1)
    BY <2>2, <2>4, <2>6 DEF Free, Live, InReg, InRegAt
  <2>8. Made \in Content /\ Made[1] # 0
    BY Contents
  <2> QED BY <2>4, <2>5, <2>6, <2>7, <2>8, NewRegInv DEF Fine
<1> QED BY <1>1, <1>3, <1>4

\* out_ctrl_transfer().
LEMMA CtrlTransferOK ==
  ASSUME NEW s, Inv(s), s.rsv = {}, NEW t, t = CtrlTransfer(s)
  PROVE  Fine(t)
<1> DEFINE d == DecayFlagsExcept(s, {})
           u == SaveRegs(d, FALSE, {})
<1>1. Halted(d) \/ (Inv(d) /\ Walked(s, d) /\ FlagsOnly(d, {}))
  BY DecayFlagsOnly
<1>2. t = JoinPoint(u) /\ u = SaveRegs(d, FALSE, {})
  BY DEF CtrlTransfer
<1> HIDE DEF d, u
<1>3. ASSUME Halted(u) PROVE Fine(t)
  BY <1>2, <1>3, HaltedStopped DEF JoinPoint
<1>4. CASE Halted(d)
  <2>1. u = d
    BY <1>2, <1>4, HaltedStopped DEF SaveRegs
  <2> QED BY <1>3, <1>4, <2>1
<1>5. CASE Inv(d) /\ Walked(s, d)
  <2>1. Halted(u) \/ (Inv(u) /\ Walked(d, u) /\ \A i \in Live(u) \ {} : ~NeedsSave(u, i, FALSE))
    BY <1>2, <1>5, SaveRegsOK
  <2>2. CASE Inv(u) /\ Walked(d, u) /\ \A i \in Live(u) \ {} : ~NeedsSave(u, i, FALSE)
    <3>1. u.rsv = {} /\ ~Stopped(u) /\ FlagsOnly(u, {}) /\ \A j \in Live(u) : ~InReg(u, j)
      BY <1>5, <2>2, HaltedStopped DEF Walked, NeedsSave, FlagsOnly, InReg
    <3> DEFINE regs == Scratch \cup u.cs
    <3>2. t = ClobberRegs(u, regs)
      BY <1>2, <3>1 DEF JoinPoint
    <3>3. \A r \in CalleeSave \cap regs : r \in u.cs
      BY RegSets
    <3> HIDE DEF regs
    <3> QED BY <2>2, <3>1, <3>2, <3>3, ClobberJunk DEF Fine
  <2> QED BY <1>3, <2>1, <2>2
<1> QED BY <1>1, <1>4, <1>5

\* The jump, and the code after it.
LEMMA AfterJumpOK ==
  ASSUME NEW s, Inv(s), s.rsv = {}, NEW c, FlagsOnly(s, {c}), NEW t, t = AfterJump(s, c)
  PROVE  Fine(t)
<1> DEFINE kept == {s.v[i].at : i \in {j \in Live(s) : InReg(s, j)}}
           f == IF c \in Live(s) /\ s.v[c].t = "flag" THEN s.F ELSE Junk
           regs == (Scratch \cup s.cs) \ kept
<1>1. s \in State /\ s.F \in Content /\ Junk \in Content
  BY HaltedStopped, Contents, StateFields
<1>2. t = WriteFlags(ClobberRegs(s, regs), f)
  BY DEF AfterJump, WriteFlags
<1>3. \A r \in CalleeSave \cap regs : r \in s.cs
  BY RegSets
<1>4. \A j \in Live(s) : InReg(s, j) => s.v[j].at \notin regs
  OBVIOUS
<1>5. f \in Content /\ \A j \in Live(s) : s.v[j].t = "flag" => f = s.F
  BY <1>1 DEF FlagsOnly
<1> HIDE DEF f, regs
<1> QED BY <1>2, <1>3, <1>4, <1>5, ClobberInv DEF Fine

LEMMA JumpOK ==
  ASSUME NEW s, Inv(s), s.rsv = {}, s.ret \in Live(s), NEW c, FlagsOnly(s, {c}), NEW t, t = Jump(s, c)
  PROVE  Fine(t)
<1> DEFINE k == s.ret
           u == ReadFlags(s, k)
           w == Release(u, k)
<1>1. Good(s) /\ ~Stopped(s) /\ s.read # "wrong" /\ \A j \in Live(s) : Holds(s, j)
  BY HaltedStopped DEF Inv, Right
<1>2. t = AfterJump(w, c) /\ w = Release(u, k) /\ u = ReadFlags(s, k) /\ k \in Live(s)
  BY <1>1 DEF Jump
<1> HIDE DEF k, u, w
<1>3. /\ Good(u) /\ Live(u) = Live(s) /\ u.v = s.v /\ u.R = s.R /\ u.M = s.M /\ u.F = s.F /\ u.rsv = s.rsv
      /\ u.read = "right" => s.read = "right" /\ (s.v[k].t = "flag" => s.F = s.v[k].sem)
      /\ s.read # "wrong" /\ Holds(s, k) => u.read # "wrong"
  BY <1>1, <1>2, ReadFields
<1>4. ASSUME NEW j \in Live(s) PROVE Holds(u, j)
  BY <1>1, <1>3, HoldsSame
<1>5. Inv(u)
  BY <1>1, <1>2, <1>3, <1>4 DEF Inv, Right
<1>6. Inv(w) /\ w.rsv = {}
  BY <1>2, <1>3, <1>5, ReleaseInv
<1>7. FlagsOnly(w, {c})
  <2>1. \A j \in Live(w) : j \in Live(u) /\ w.v[j].t = u.v[j].t /\ w.v[j].at = u.v[j].at
    BY <1>2, <1>3, ReleaseKeeps
  <2> QED BY <1>3, <2>1 DEF FlagsOnly
<1> QED BY <1>2, <1>6, <1>7, AfterJumpOK

\* out_ctrl_branch().
LEMMA CtrlBranchOK ==
  ASSUME NEW s, Inv(s), s.rsv = {}, NEW c \in Live(s), NEW t, t = CtrlBranch(s, c)
  PROVE  Fine(t)
<1> DEFINE d == DecayFlagsExcept(s, {c})
           u == SaveRegs(d, FALSE, {c})
<1>1. Halted(d) \/ (Inv(d) /\ Walked(s, d) /\ FlagsOnly(d, {c}))
  BY DecayFlagsOnly
<1>2. t = TestCond(u, c) /\ u = SaveRegs(d, FALSE, {c})
  BY DEF CtrlBranch
<1> HIDE DEF d, u
<1>3. ASSUME Halted(u) PROVE Fine(t)
  BY <1>2, <1>3, HaltedStopped DEF TestCond
<1>4. CASE Halted(d)
  <2>1. u = d
    BY <1>2, <1>4, HaltedStopped DEF SaveRegs
  <2> QED BY <1>3, <1>4, <2>1
<1>5. CASE Inv(d) /\ Walked(s, d) /\ FlagsOnly(d, {c})
  <2>1. Halted(u) \/ (Inv(u) /\ Walked(d, u) /\ \A i \in Live(u) \ {c} : ~NeedsSave(u, i, FALSE))
    BY <1>2, <1>5, SaveRegsOK
  <2>2. CASE Inv(u) /\ Walked(d, u)
    <3>1. u.rsv = {} /\ ~Stopped(u) /\ FlagsOnly(u, {c}) /\ c \in Live(u) /\ u \in State /\ c \in Nat
      <4>1. u.rsv = {} /\ ~Stopped(u) /\ FlagsOnly(u, {c}) /\ c \in Live(u) /\ u \in State
        BY <1>5, <2>2, HaltedStopped DEF Walked, FlagsOnly
      <4> QED BY <4>1, StateFields
    <3>2. CASE u.v[c].t = "flag"
      <4> DEFINE b == Ret(u, c)
      <4>1. Inv(b) /\ b.rsv = {} /\ b.ret = c /\ b.v = u.v /\ Live(b) = Live(u)
        BY <2>2, <3>1, RetFields DEF Same
      <4>2. t = Jump(b, c)
        BY <1>2, <3>1, <3>2 DEF TestCond
      <4> HIDE DEF b
      <4>3. FlagsOnly(b, {c}) /\ b.ret \in Live(b)
        BY <3>1, <4>1 DEF FlagsOnly
      <4> QED BY <4>1, <4>2, <4>3, JumpOK
    <3>3. CASE u.v[c].t # "flag"
      <4> DEFINE b == ToPlainReg(u, c)
      <4>1. Halted(b) \/ (Inv(b) /\ Carried(u, b, c) /\ InReg(b, b.ret) /\ b.v[b.ret].off = 0)
        BY <2>2, <3>1, ToPlainRegOK
      <4>2. t = Jump(b, c)
        BY <1>2, <3>1, <3>3 DEF TestCond
      <4> HIDE DEF b
      <4>3. CASE Halted(b)
        BY <4>2, <4>3, HaltedStopped DEF Jump
      <4>4. CASE Inv(b) /\ Carried(u, b, c)
        <5>1. b.rsv = {} /\ b.ret \in Live(b)
          BY <3>1, <4>4 DEF Carried
        <5>2. FlagsOnly(b, {c} \ {c})
          BY <3>1, <4>4, CarriedFlags
        <5>3. FlagsOnly(b, {c})
          BY <5>2 DEF FlagsOnly
        <5> QED BY <4>2, <4>4, <5>1, <5>3, JumpOK
      <4> QED BY <4>1, <4>3, <4>4
    <3> QED BY <3>2, <3>3
  <2> QED BY <1>3, <2>1, <2>2
<1> QED BY <1>1, <1>4, <1>5

-----------------------------------------------------------------------------
(* Numbering the values anew changes no fact about them.                   *)

LEMMA PlacesNat ==
  ASSUME NEW s, Good(s), NEW c
  PROVE  Places(s, c) \in SUBSET Nat /\ \A p \in Places(s, c) : p >= 1
<1>1. s.list \in Seq(Nat)
  BY StateFields DEF Good
<1> QED BY <1>1 DEF Places

\* A token that some value stands for is renamed to that value's place.
LEMMA TokenOK ==
  ASSUME NEW s, Good(s), NEW i \in Live(s), NEW c, c \in Content, c[1] = s.v[i].sem[1]
  PROVE  /\ Token(s, c) = <<Lowest(Places(s, s.v[i].sem)), c[2]>> /\ Clean(s, c, TRUE) = Token(s, c)
         /\ Token(s, c) \in Content /\ Token(s, c)[1] # 0
<1> DEFINE P == Places(s, c)
<1>1. s.v[i].sem[1] # 0 /\ Caller[1] = 0
  BY GoodVal, Contents DEF Placed
<1>2. c # Caller
  BY <1>1
<1>3. P = Places(s, s.v[i].sem)
  BY DEF Places
<1>4. P # {}
  <2>1. PICK p \in DOMAIN s.list : s.list[p] = i
    BY DEF Good, Listed
  <2> QED BY <2>1 DEF Places
<1>5. P \in SUBSET Nat /\ \A p \in P : p >= 1
  BY PlacesNat
<1> DEFINE m == Lowest(P)
<1>6. m \in Nat /\ m >= 1
  <2> HIDE DEF P
  <2> QED BY <1>4, <1>5, LowestIn
<1>7. Token(s, c) = <<m, c[2]>> /\ Clean(s, c, TRUE) = Token(s, c)
  BY <1>2, <1>4 DEF Token, Clean
<1>8. c[2] \in Int
  BY DEF Content
<1>9. m = Lowest(Places(s, s.v[i].sem))
  BY <1>3
<1> HIDE DEF m, P
<1>10. <<m, c[2]>> \in Content /\ <<m, c[2]>>[1] # 0
  BY <1>6, <1>8 DEF Content
<1> QED BY <1>7, <1>9, <1>10

LEMMA TokenPlus ==
  ASSUME NEW s, Good(s), NEW i \in Live(s), NEW c, c \in Content, NEW d, d \in Int,
         Plus(c, d) = s.v[i].sem
  PROVE  /\ c[1] = s.v[i].sem[1]
         /\ Plus(Token(s, c), d) = Token(s, s.v[i].sem)
<1> DEFINE sem == s.v[i].sem
           m == Lowest(Places(s, sem))
<1>1. sem \in Content /\ sem[1] = c[1] /\ sem[2] = c[2] + d
  <2>1. sem \in Content
    BY GoodVal
  <2>2. sem = <<c[1], c[2] + d>>
    BY DEF Plus
  <2> QED BY <2>1, <2>2
<1>2. Token(s, c) = <<m, c[2]>>
  <2>1. c[1] = s.v[i].sem[1]
    BY <1>1
  <2> QED BY <2>1, TokenOK
<1>3. Token(s, sem) = <<m, sem[2]>>
  <2> DEFINE e == s.v[i].sem
  <2>1. e \in Content /\ e[1] = s.v[i].sem[1] /\ e = s.v[i].sem
    BY <1>1
  <2> HIDE DEF e
  <2>2. Token(s, e) = <<Lowest(Places(s, s.v[i].sem)), e[2]>>
    BY <2>1, TokenOK
  <2> QED BY <2>1, <2>2
<1>4. Plus(<<m, c[2]>>, d) = <<m, c[2] + d>>
  BY DEF Plus
<1> QED BY <1>1, <1>2, <1>3, <1>4

LEMMA CleanContent ==
  ASSUME NEW s, Good(s), NEW c, c \in Content, NEW b
  PROVE  Clean(s, c, b) \in Content
<1> DEFINE P == Places(s, c)
<1>1. Junk \in Content /\ Caller \in Content
  BY Contents
<1>2. CASE P = {}
  BY <1>1, <1>2 DEF Clean, Token
<1>3. CASE P # {}
  <2>1. Lowest(P) \in Nat
    <3>1. P \in SUBSET Nat
      BY PlacesNat
    <3> HIDE DEF P
    <3> QED BY <1>3, <3>1, LowestIn
  <2>2. <<Lowest(P), c[2]>> \in Content
    <3> HIDE DEF P
    <3> QED BY <2>1 DEF Content
  <2> QED BY <1>1, <1>3, <2>2 DEF Clean, Token
<1> QED BY <1>2, <1>3

\* The fields of the renumbered state.
Used(s) == {m \in DOMAIN s.M : \E i \in Live(s) : OnStack(s, i) /\ s.v[i].at = m}
ValNow(s, p) ==
  LET x == s.v[s.list[p]] IN Value(x.n, x.t, x.at, x.off, Token(s, x.sem))
RegNow(s, r) == Clean(s, s.R[r], \E i \in Live(s) : InRegAt(s, i, r))
FlagsNow(s) == IF s.F = Sum /\ LiveFlags(s) # {} THEN Sum ELSE Clean(s, s.F, LiveFlags(s) # {})

\* What renumbering makes of each part of the state.
Renewed(s, t) ==
  /\ t \in State /\ t.rsv = s.rsv /\ t.cs = s.cs /\ t.cur = s.cur /\ t.ice = s.ice /\ t.read = s.read
  /\ DOMAIN t.list = DOMAIN s.list /\ t.next = Len(s.list) + 1
  /\ Live(t) = DOMAIN s.list /\ DOMAIN t.M = Used(s) /\ t.F = FlagsNow(s)
  /\ \A p \in DOMAIN s.list : t.list[p] = p /\ t.v[p] = ValNow(s, p)
  /\ \A r \in Regs : t.R[r] = RegNow(s, r)
  /\ \A m \in Used(s) : t.M[m] = Clean(s, s.M[m], TRUE)

LEMMA RenumberedFields ==
  ASSUME NEW s, Good(s), NEW t, t = Renumbered(s)
  PROVE  Renewed(s, t)
<1> DEFINE D == DOMAIN s.list
           X(p) == s.v[s.list[p]]
           l1 == [p \in D |-> p]
           v1 == [p \in D |-> [X(p) EXCEPT !.sem = Token(s, @)]]
           R1 == [r \in Regs |-> Clean(s, s.R[r], \E i \in Live(s) : InRegAt(s, i, r))]
           M1 == [m \in Used(s) |-> Clean(s, s.M[m], TRUE)]
           F1 == IF s.F = Sum /\ LiveFlags(s) # {} THEN Sum ELSE Clean(s, s.F, LiveFlags(s) # {})
           n1 == Len(s.list) + 1
<1>1. /\ s \in State /\ s.list \in Seq(Nat) /\ s.R \in [Regs -> Content] /\ s.M \in Mem /\ s.F \in Content
  BY StateFields DEF Good
<1>2. D = 1..Len(s.list) /\ Len(s.list) \in Nat /\ n1 \in Nat /\ D \in SUBSET Nat /\ l1 \in Seq(Nat)
  BY <1>1
<1>3. ASSUME NEW p \in D
      PROVE  /\ [X(p) EXCEPT !.sem = Token(s, @)] = Value(X(p).n, X(p).t, X(p).at, X(p).off, Token(s, X(p).sem))
             /\ Value(X(p).n, X(p).t, X(p).at, X(p).off, Token(s, X(p).sem)) \in Val
  <2> DEFINE i == s.list[p]
             c == s.v[i].sem
  <2>1. i \in Live(s)
    BY DEF Good, Listed
  <2>2. /\ s.v[i] \in Val /\ s.v[i].n \in Nat /\ s.v[i].t \in Kinds /\ s.v[i].at \in Nat
        /\ s.v[i].off \in Int /\ c \in Content /\ c[1] = s.v[i].sem[1]
    <3> HIDE DEF i
    <3> QED BY <2>1, GoodVal
  <2>3. Token(s, c) \in Content
    <3> HIDE DEF c, i
    <3> QED BY <2>1, <2>2, TokenOK
  <2>4. [s.v[i] EXCEPT !.sem = Token(s, @)] = [s.v[i] EXCEPT !.sem = Token(s, c)]
    BY <2>2 DEF Val
  <2>5. X(p) = s.v[i]
    OBVIOUS
  <2> HIDE DEF i
  <2>6. [s.v[i] EXCEPT !.sem = Token(s, c)] = Value(s.v[i].n, s.v[i].t, s.v[i].at, s.v[i].off, Token(s, c))
    BY <2>2, <2>3, ValFields
  <2>7. Value(s.v[i].n, s.v[i].t, s.v[i].at, s.v[i].off, Token(s, c)) \in Val
    BY <2>2, <2>3, ValueVal
  <2> QED BY <2>4, <2>5, <2>6, <2>7
<1>4. v1 \in Vals /\ DOMAIN v1 = D
      /\ \A p \in D : v1[p] = Value(X(p).n, X(p).t, X(p).at, X(p).off, Token(s, X(p).sem))
  <2>1. DOMAIN v1 = D /\ \A p \in D : v1[p] = [X(p) EXCEPT !.sem = Token(s, @)]
    OBVIOUS
  <2>2. v1 = [p \in D |-> v1[p]]
    OBVIOUS
  <2> HIDE DEF v1, X, D
  <2>3. \A p \in D : v1[p] = Value(X(p).n, X(p).t, X(p).at, X(p).off, Token(s, X(p).sem)) /\ v1[p] \in Val
    BY <1>3, <2>1
  <2>4. v1 \in [D -> Val]
    <3> HIDE DEF Val
    <3> QED BY <2>2, <2>3
  <2> QED BY <1>2, <2>1, <2>3, <2>4, ValsIntro
<1>5. R1 \in [Regs -> Content] /\ \A r \in Regs : R1[r] = Clean(s, s.R[r], \E i \in Live(s) : InRegAt(s, i, r))
  <2>1. ASSUME NEW r \in Regs PROVE R1[r] \in Content
    <3>1. s.R[r] \in Content
      BY <1>1
    <3> QED BY <3>1, CleanContent
  <2>2. R1 = [r \in Regs |-> R1[r]] /\ \A r \in Regs : R1[r] = Clean(s, s.R[r], \E i \in Live(s) : InRegAt(s, i, r))
    OBVIOUS
  <2> HIDE DEF R1, Content
  <2> QED BY <2>1, <2>2
<1>6. M1 \in Mem /\ DOMAIN M1 = Used(s) /\ \A m \in Used(s) : M1[m] = Clean(s, s.M[m], TRUE)
  <2>1. Used(s) \in SUBSET Nat /\ Used(s) \subseteq DOMAIN s.M
    BY <1>1, MemApply DEF Used
  <2>2. ASSUME NEW m \in Used(s) PROVE M1[m] \in Content
    <3>1. s.M[m] \in Content
      BY <1>1, <2>1, MemApply
    <3> QED BY <3>1, CleanContent
  <2>3. DOMAIN M1 = Used(s) /\ M1 = [m \in Used(s) |-> M1[m]] /\ \A m \in Used(s) : M1[m] = Clean(s, s.M[m], TRUE)
    OBVIOUS
  <2> HIDE DEF M1, Content
  <2>4. M1 \in [Used(s) -> Content]
    BY <2>2, <2>3
  <2> QED BY <2>1, <2>3, <2>4, MemIntro
<1>7. F1 \in Content
  BY <1>1, CleanContent, Contents
<1>8. t = [s EXCEPT !.list = l1, !.next = n1, !.v = v1, !.R = R1, !.M = M1, !.F = F1, !.ret = 0, !.reg = 0]
  BY DEF Renumbered, Used
<1>9. l1 = [p \in DOMAIN s.list |-> p] /\ n1 = Len(s.list) + 1
  OBVIOUS
<1>9a. F1 = IF s.F = Sum /\ LiveFlags(s) # {} THEN Sum ELSE Clean(s, s.F, LiveFlags(s) # {})
  OBVIOUS
<1> HIDE DEF l1, n1, v1, R1, M1, F1
<1>10. /\ t \in State /\ t.rsv = s.rsv /\ t.cs = s.cs /\ t.cur = s.cur /\ t.ice = s.ice /\ t.read = s.read
       /\ t.list = l1 /\ t.next = n1 /\ t.v = v1 /\ t.R = R1 /\ t.M = M1 /\ t.F = F1
  <2>1. 0 \in Nat
    OBVIOUS
  <2> HIDE DEF Vals, Mem, Content
  <2>2. l1 \in Seq(Nat) /\ n1 \in Nat /\ v1 \in Vals /\ R1 \in [Regs -> Content] /\ M1 \in Mem /\ F1 \in Content
    BY <1>2, <1>4, <1>5, <1>6, <1>7 DEF l1, n1
  <2>3. s \in State
    BY <1>1
  <2>4. t \in State
    <3> DEFINE a == [s EXCEPT !.v = v1, !.list = l1, !.next = n1, !.ret = 0]
               b == [a EXCEPT !.R = R1]
               c == [b EXCEPT !.M = M1]
               d == [c EXCEPT !.reg = 0]
    <3>1. a \in State
      BY <2>1, <2>2, <2>3, StateUpdate
    <3>2. b \in State
      <4> HIDE DEF a
      <4> QED BY <2>2, <3>1, StateUpdate
    <3>3. c \in State
      <4> HIDE DEF b
      <4> QED BY <2>2, <3>2, StateUpdate
    <3>4. d \in State
      <4> HIDE DEF c
      <4> QED BY <2>1, <3>3, StateUpdate
    <3>5. t = [d EXCEPT !.F = F1]
      BY <1>8, <2>3 DEF State
    <3> HIDE DEF d
    <3> QED BY <2>2, <3>4, <3>5 DEF State
  <2>5. t.rsv = s.rsv /\ t.cs = s.cs /\ t.cur = s.cur /\ t.ice = s.ice /\ t.read = s.read
    BY <1>8, <2>3 DEF State
  <2>6. t.list = l1 /\ t.next = n1 /\ t.v = v1 /\ t.R = R1 /\ t.M = M1 /\ t.F = F1
    BY <1>8, <2>3 DEF State
  <2> QED BY <2>4, <2>5, <2>6
<1>11. \A r \in Regs : t.R[r] = RegNow(s, r)
  BY <1>5, <1>10 DEF RegNow
<1>12. t.F = FlagsNow(s)
  BY <1>9a, <1>10 DEF FlagsNow
<1>13. DOMAIN t.list = DOMAIN s.list /\ \A p \in DOMAIN s.list : t.list[p] = p
  BY <1>9, <1>10
<1>14. \A p \in DOMAIN s.list : t.v[p] = ValNow(s, p)
  BY <1>4, <1>10 DEF ValNow
<1>15. Live(t) = DOMAIN s.list
  BY <1>4, <1>10 DEF Live
<1>16. DOMAIN t.M = Used(s) /\ \A m \in Used(s) : t.M[m] = Clean(s, s.M[m], TRUE)
  BY <1>6, <1>10
<1> QED BY <1>9, <1>10, <1>11, <1>12, <1>13, <1>14, <1>15, <1>16 DEF Renewed

\* Value p of the renumbered state is the p-th of the list, in the same place.
LEMMA RenumberedVal ==
  ASSUME NEW s, Good(s), NEW t, t = Renumbered(s), NEW p \in Live(t), NEW i, i = s.list[p]
  PROVE  /\ i \in Live(s) /\ t.v[p].n = s.v[i].n /\ t.v[p].t = s.v[i].t /\ t.v[p].at = s.v[i].at
         /\ t.v[p].off = s.v[i].off /\ t.v[p].sem = Token(s, s.v[i].sem) /\ t.v[p].sem[1] # 0
<1>1. Live(t) = DOMAIN s.list /\ \A q \in DOMAIN s.list : t.list[q] = q /\ t.v[q] = ValNow(s, q)
  <2>1. Renewed(s, t)
    BY RenumberedFields
  <2> QED BY <2>1 DEF Renewed
<1>2. i \in Live(s)
  BY <1>1 DEF Good, Listed
<1> DEFINE c == s.v[i].sem
           k == Token(s, c)
<1>3. /\ s.v[i].n \in Nat /\ s.v[i].t \in Kinds /\ s.v[i].at \in Nat /\ s.v[i].off \in Int
      /\ c \in Content /\ c[1] = s.v[i].sem[1]
  BY <1>2, GoodVal
<1>4. k \in Content /\ k[1] # 0
  <2> HIDE DEF c
  <2> QED BY <1>2, <1>3, TokenOK
<1>5. t.v[p] = Value(s.v[i].n, s.v[i].t, s.v[i].at, s.v[i].off, k)
  BY <1>1 DEF ValNow
<1>6. k = Token(s, s.v[i].sem)
  OBVIOUS
<1> HIDE DEF k, c
<1>7. /\ t.v[p].n = s.v[i].n /\ t.v[p].t = s.v[i].t /\ t.v[p].at = s.v[i].at
      /\ t.v[p].off = s.v[i].off /\ t.v[p].sem = k
  BY <1>3, <1>4, <1>5, ValueVal
<1> QED BY <1>2, <1>4, <1>6, <1>7

LEMMA RenumberedGood ==
  ASSUME NEW s, Good(s), NEW t, t = Renumbered(s)
  PROVE  Good(t)
<1>1. /\ t \in State /\ t.rsv = s.rsv /\ t.cs = s.cs /\ t.cur = s.cur /\ t.ice = s.ice
      /\ DOMAIN t.list = DOMAIN s.list /\ t.next = Len(s.list) + 1
      /\ Live(t) = DOMAIN s.list /\ DOMAIN t.M = Used(s)
      /\ \A p \in DOMAIN s.list : t.list[p] = p
      /\ \A r \in Regs : t.R[r] = RegNow(s, r)
  <2>1. Renewed(s, t)
    BY RenumberedFields
  <2> QED BY <2>1 DEF Renewed
<1>2. s \in State /\ s.ice = "no" /\ Listed(s) /\ Kept(s) /\ s.list \in Seq(Nat)
  BY StateFields DEF Good
<1>3. Listed(t)
  <2>1. \A k \in DOMAIN s.list : t.list[k] = k
    BY <1>1
  <2>2. \A k \in DOMAIN s.list : k < Len(s.list) + 1
    BY <1>2
  <2> QED BY <1>1, <2>1, <2>2 DEF Listed
<1>4. Kept(t)
  <2>1. ASSUME NEW r \in CalleeSave, r \notin t.cs PROVE t.R[r] = Caller
    <3>1. r \in Regs /\ s.R[r] = Caller
      BY <1>1, <1>2, <2>1, RegSets DEF Kept
    <3>2. RegNow(s, r) = Caller
      BY <3>1 DEF RegNow, Clean, Token
    <3> QED BY <1>1, <3>1, <3>2
  <2> QED BY <2>1 DEF Kept
<1>5. ASSUME NEW p \in Live(t) PROVE Placed(t, p)
  <2> DEFINE i == s.list[p]
  <2>1. /\ i \in Live(s) /\ t.v[p].n = s.v[i].n /\ t.v[p].t = s.v[i].t /\ t.v[p].at = s.v[i].at
        /\ t.v[p].off = s.v[i].off /\ t.v[p].sem[1] # 0
    BY RenumberedVal
  <2> HIDE DEF i
  <2>2. Placed(s, i)
    BY <2>1 DEF Good
  <2>3. OnStack(s, i) => s.v[i].at \in Used(s)
    BY <2>1, <2>2 DEF Placed, Used
  <2> QED BY <1>1, <2>1, <2>2, <2>3 DEF Placed, InReg, OnStack
<1>6. ASSUME NEW p \in Live(t), NEW q \in Live(t), p # q PROVE Apart(t, p, q)
  <2> DEFINE i == s.list[p]
             j == s.list[q]
  <2>1. i # j
    BY <1>1, <1>2, <1>6 DEF Listed
  <2>2. i \in Live(s) /\ t.v[p].t = s.v[i].t /\ t.v[p].at = s.v[i].at
    BY RenumberedVal
  <2>3. j \in Live(s) /\ t.v[q].t = s.v[j].t /\ t.v[q].at = s.v[j].at
    BY RenumberedVal
  <2> HIDE DEF i, j
  <2>4. Apart(s, i, j)
    BY <2>1, <2>2, <2>3 DEF Good
  <2> QED BY <2>2, <2>3, <2>4 DEF Apart, InReg, OnStack
<1> QED BY <1>1, <1>2, <1>3, <1>4, <1>5, <1>6 DEF Good

LEMMA RenumberedInv ==
  ASSUME NEW s, Inv(s), NEW t, t = Renumbered(s)
  PROVE  Inv(t) /\ t.rsv = s.rsv
<1>1. Good(s) /\ s \in State /\ s.read # "wrong" /\ \A j \in Live(s) : Holds(s, j)
  BY DEF Inv, Right, Good
<1>2. Good(t)
  BY <1>1, RenumberedGood
<1>3. /\ t.rsv = s.rsv /\ t.read = s.read /\ Live(t) = DOMAIN s.list
      /\ \A r \in Regs : t.R[r] = RegNow(s, r)
      /\ \A m \in Used(s) : t.M[m] = Clean(s, s.M[m], TRUE)
      /\ t.F = FlagsNow(s)
  <2>1. Renewed(s, t)
    BY <1>1, RenumberedFields
  <2> QED BY <2>1 DEF Renewed
<1>4. ASSUME NEW p \in Live(t) PROVE Holds(t, p)
  <2> DEFINE i == s.list[p]
             c == s.v[i].sem
  <2>1. /\ i \in Live(s) /\ t.v[p].t = s.v[i].t /\ t.v[p].at = s.v[i].at
        /\ t.v[p].off = s.v[i].off /\ t.v[p].sem = Token(s, c)
    BY <1>1, RenumberedVal
  <2> HIDE DEF i
  <2>2. /\ Placed(s, i) /\ Holds(s, i) /\ c \in Content /\ c[1] = s.v[i].sem[1] /\ s.v[i].off \in Int
        /\ c[1] # 0
    BY <1>1, <2>1, GoodVal DEF Placed
  <2>3. Clean(s, c, TRUE) = Token(s, c)
    <3>1. c = s.v[i].sem
      OBVIOUS
    <3> HIDE DEF c
    <3> QED BY <1>1, <2>1, <2>2, TokenOK
  <2>4. t.v[p].t = "flag" => t.F \in {t.v[p].sem, Sum}
    <3>1. SUFFICES ASSUME s.v[i].t = "flag" PROVE t.F \in {Token(s, c), Sum}
      BY <2>1
    <3>2. LiveFlags(s) # {}
      BY <2>1, <3>1 DEF LiveFlags
    <3>3. s.F \in {c, Sum}
      BY <2>2, <3>1 DEF Holds
    <3>4. CASE s.F = Sum
      BY <1>3, <3>2, <3>4 DEF FlagsNow
    <3>5. CASE s.F # Sum
      <4>1. s.F = c /\ t.F = Clean(s, s.F, TRUE)
        BY <1>3, <3>2, <3>3, <3>5 DEF FlagsNow
      <4> QED BY <2>3, <4>1
    <3> QED BY <3>4, <3>5
  <2>5. InReg(t, p) /\ t.read = "right" => Plus(t.R[t.v[p].at], t.v[p].off) = t.v[p].sem
    <3> DEFINE r == s.v[i].at
               e == s.R[r]
               d == s.v[i].off
    <3>1. SUFFICES ASSUME InReg(s, i), s.read = "right" PROVE Plus(t.R[r], d) = Token(s, c)
      BY <1>3, <2>1 DEF InReg
    <3>2. r \in Regs
      BY <2>2, <3>1 DEF Placed
    <3>3. e \in Content
      BY <1>1, <3>2, StateFields
    <3>4. Plus(e, d) = s.v[i].sem
      BY <2>2, <3>1 DEF Holds
    <3>5. \E j \in Live(s) : InRegAt(s, j, r)
      BY <2>1, <3>1 DEF InReg, InRegAt
    <3>6. t.R[r] = Clean(s, e, TRUE)
      BY <1>3, <3>2, <3>5 DEF RegNow
    <3>7. c = s.v[i].sem /\ d \in Int
      BY <2>2
    <3> HIDE DEF r, e, d, c
    <3>8. e[1] = s.v[i].sem[1] /\ Plus(Token(s, e), d) = Token(s, s.v[i].sem)
      BY <1>1, <2>1, <3>3, <3>4, <3>7, TokenPlus
    <3>9. Clean(s, e, TRUE) = Token(s, e)
      BY <1>1, <2>1, <3>3, <3>8, TokenOK
    <3> QED BY <3>6, <3>7, <3>8, <3>9
  <2>6. OnStack(t, p) /\ t.read = "right" => t.M[t.v[p].at] = t.v[p].sem
    <3>1. SUFFICES ASSUME OnStack(s, i), s.read = "right" PROVE t.M[s.v[i].at] = Token(s, c)
      BY <1>3, <2>1 DEF OnStack
    <3>2. s.v[i].at \in Used(s) /\ s.M[s.v[i].at] = c
      BY <2>1, <2>2, <3>1 DEF Placed, Used, Holds
    <3> QED BY <1>3, <2>3, <3>2
  <2> QED BY <2>4, <2>5, <2>6 DEF Holds
<1> QED BY <1>1, <1>2, <1>3, <1>4 DEF Inv, Right

-----------------------------------------------------------------------------
(* The theorems.                                                           *)

\* The state the last operation left, whether or not the next one stopped in
\* an assertion.
Resumed(s) == [s EXCEPT !.ice = "no"]

\* The inductive invariant.  Between operations no register is reserved.
IInv == st \in State /\ st.rsv = {} /\ Inv(Resumed(st))

LEMMA ResumedFields ==
  ASSUME NEW s, s \in State, NEW t, t = Resumed(s)
  PROVE  /\ t \in State /\ t.v = s.v /\ t.M = s.M /\ t.R = s.R /\ t.F = s.F /\ t.cs = s.cs
         /\ t.cur = s.cur /\ t.read = s.read /\ Live(t) = Live(s)
         /\ s.ice = "no" => t = s
<1> HIDE DEF Vals, Mem, Content
<1> QED BY DEF Resumed, State, Live

LEMMA InitIInv ==
  ASSUME Init
  PROVE  IInv
<1> DEFINE R1 == [r \in Regs |-> IF r \in CalleeSave THEN Caller ELSE Junk]
           v1 == [i \in {} |-> Junk]
<1>1. Junk \in Content /\ Caller \in Content
  BY Contents
<1>2. R1 \in [Regs -> Content] /\ \A r \in CalleeSave : R1[r] = Caller
  <2> HIDE DEF Content
  <2> QED BY <1>1, RegSets
<1>3. v1 \in Vals /\ v1 \in Mem /\ DOMAIN v1 = {}
  <2>1. {} \in SUBSET Nat /\ v1 \in [{} -> Val] /\ v1 \in [{} -> Content] /\ DOMAIN v1 = {}
    OBVIOUS
  <2> HIDE DEF v1
  <2> QED BY <2>1, ValsIntro, MemIntro
<1>4. /\ st.v = v1 /\ st.list = << >> /\ st.next = 1 /\ st.R = R1 /\ st.M = v1 /\ st.F = Junk
      /\ st.rsv = {} /\ st.cs = {} /\ st.cur = 0 /\ st.ice = "no" /\ st.read = "right"
      /\ st.ret = 0 /\ st.reg = 0
  BY DEF Init
<1>5. st \in State
  <2>1. st = [v |-> v1, list |-> << >>, next |-> 1, R |-> R1, M |-> v1, F |-> Junk, rsv |-> {}, cs |-> {},
              cur |-> 0, ice |-> "no", read |-> "right", ret |-> 0, reg |-> 0]
    BY DEF Init
  <2>2. << >> \in Seq(Nat) /\ 0 \in Nat /\ 1 \in Nat
    OBVIOUS
  <2> HIDE DEF v1, R1, Vals, Mem, Content, Junk
  <2> QED BY <1>1, <1>2, <1>3, <2>1, <2>2 DEF State
<1>6. Live(st) = {} /\ DOMAIN st.list = {}
  BY <1>3, <1>4 DEF Live
<1> HIDE DEF v1, R1
<1>7. Good(st)
  <2>1. Kept(st)
    BY <1>2, <1>4 DEF Kept
  <2>2. Listed(st)
    BY <1>6 DEF Listed
  <2> QED BY <1>4, <1>5, <1>6, <2>1, <2>2 DEF Good
<1>8. Inv(st)
  BY <1>4, <1>6, <1>7 DEF Inv, Right
<1> QED BY <1>4, <1>5, <1>8, ResumedFields DEF IInv

\* An operation that leaves a state to go on from, or stops, keeps the invariant.
LEMMA RanIInv ==
  ASSUME IInv, Running, NEW t, Fine(t), st' = Ran(t)
  PROVE  IInv'
<1>1. st \in State /\ st.ice = "no" /\ st.rsv = {} /\ Inv(st)
  BY ResumedFields DEF IInv, Running, Stopped
<1>2. CASE Halted(t)
  <2> DEFINE x == t.ice
  <2>1. st' = [st EXCEPT !.ice = x] /\ x \in {"no", "reg_cp", "operand", "dividend"}
    BY <1>2, StateFields DEF Ran, Stopped, Halted
  <2> HIDE DEF x
  <2>2. st' \in State /\ st'.rsv = {} /\ Resumed(st') = st
    <3> HIDE DEF Vals, Mem, Content
    <3> QED BY <1>1, <2>1 DEF Resumed, State
  <2> QED BY <1>1, <2>2 DEF IInv
<1>3. CASE Inv(t) /\ t.rsv = {}
  <2>1. st' = Renumbered(t)
    BY <1>3, HaltedStopped DEF Ran
  <2>2. Inv(st') /\ st'.rsv = {}
    BY <1>3, <2>1, RenumberedInv
  <2>3. st' \in State /\ st'.ice = "no"
    BY <2>2 DEF Inv, Good
  <2>4. Resumed(st') = st'
    BY <2>3, ResumedFields
  <2> QED BY <2>2, <2>3, <2>4 DEF IInv
<1> QED BY <1>2, <1>3 DEF Fine

LEMMA NextIInv ==
  ASSUME IInv, [Next]_st
  PROVE  IInv'
<1>1. CASE UNCHANGED st
  BY <1>1 DEF IInv
<1> DEFINE Step == \E t : Fine(t) /\ st' = Ran(t)
<1>2. ASSUME Running PROVE Inv(st) /\ st.rsv = {}
  BY <1>2, ResumedFields DEF IInv, Running, Stopped
<1>3. ASSUME OutNewL PROVE Running /\ Step
  BY <1>2, <1>3, NewLOK DEF OutNewL
<1>4. ASSUME OutAalloc PROVE Running /\ Step
  BY <1>2, <1>4, LocalOK DEF OutAalloc
<1>5. ASSUME OutDeref PROVE Running /\ Step
  BY <1>2, <1>5, DerefLabelOK, DerefLocalOK, DerefPtrOK DEF OutDeref
<1>6. ASSUME OutCall PROVE Running /\ Step
  BY <1>2, <1>6, CallOK DEF OutCall
<1>7. ASSUME OutCtrlTransfer PROVE Running /\ Step
  BY <1>2, <1>7, CtrlTransferOK DEF OutCtrlTransfer
<1>8. ASSUME NEW i, OutRetain(i) PROVE Running /\ Step
  BY <1>2, <1>8, RetainInv DEF OutRetain
<1>9. ASSUME NEW i, OutRelease(i) PROVE Running /\ Step
  BY <1>2, <1>9, ReleaseOK DEF OutRelease
<1>10. ASSUME NEW i, OutOpOffset(i) PROVE Running /\ Step
  BY <1>2, <1>10, OpOffsetOK DEF OutOpOffset
<1>11. ASSUME NEW c, OutCtrlBranch(c) PROVE Running /\ Step
  BY <1>2, <1>11, CtrlBranchOK DEF OutCtrlBranch
<1>12. ASSUME NEW l, NEW r, OutOp(l, r) PROVE Running /\ Step
  <2>1. Running /\ l \in Live(st) /\ r \in Live(st) /\ l # r
    BY <1>12 DEF OutOp
  <2>2. Inv(st) /\ st.rsv = {}
    BY <1>2, <2>1
  <2>3. CASE st.v[l].n = 1 /\ st' = Ran(OpBinary(st, l, r))
    BY <2>1, <2>2, <2>3, OpBinaryOK
  <2>4. CASE st' = Ran(OpCompare(st, l, r))
    BY <2>1, <2>2, <2>4, OpCompareOK
  <2>5. CASE st.v[l].n = 1 /\ \E res \in {1, 2} : st' = Ran(Idiv(st, l, r, res))
    BY <2>1, <2>2, <2>5, IdivOK
  <2> QED BY <1>12, <2>3, <2>4, <2>5 DEF OutOp
<1>13. ASSUME Next PROVE Running /\ Step
  <2> HIDE DEF Step
  <2> QED BY <1>3, <1>4, <1>5, <1>6, <1>7, <1>8, <1>9, <1>10, <1>11, <1>12, <1>13 DEF Next
<1>14. CASE Next
  BY <1>13, <1>14, RanIInv
<1> QED BY <1>1, <1>14

LEMMA AlwaysIInv == Spec => []IInv
<1>1. Init => IInv
  BY InitIInv
<1>2. IInv /\ [Next]_st => IInv'
  BY NextIInv
<1> QED BY <1>1, <1>2, PTL DEF Spec

\* v_try_stack_reclaim() and v_spill_reg(), for any number of values, registers and slots: a slot
\* in use is one value's and inside the part of the frame that is allocated.
THEOREM SlotsCorrect == Spec => []SlotsAllocated
<1>1. IInv => SlotsAllocated
  <2> SUFFICES ASSUME IInv PROVE SlotsAllocated
    OBVIOUS
  <2> DEFINE s == Resumed(st)
  <2>1. Good(s) /\ s.v = st.v /\ s.cur = st.cur /\ Live(s) = Live(st)
    BY ResumedFields DEF IInv, Inv
  <2> HIDE DEF s
  <2>2. ASSUME NEW i \in Live(st), OnStack(st, i) PROVE st.v[i].at <= st.cur
    BY <2>1, <2>2 DEF Good, Placed, OnStack
  <2>3. ASSUME NEW i \in Live(st), NEW j \in Live(st), OnStack(st, i), OnStack(st, j), i # j
        PROVE  st.v[i].at # st.v[j].at
    BY <2>1, <2>3 DEF Good, Apart, OnStack
  <2> QED BY <2>2, <2>3 DEF SlotsAllocated
<1> QED BY <1>1, AlwaysIInv, PTL

\* v_save_reg() and impl_used_callee_saves(): a callee-save register that the prologue will not
\* save is never written, so it still holds the caller's value.
THEOREM CalleeSavesCorrect == Spec => []CalleeSavedKept
<1>1. IInv => CalleeSavedKept
  <2> SUFFICES ASSUME IInv PROVE CalleeSavedKept
    OBVIOUS
  <2> DEFINE s == Resumed(st)
  <2>1. Kept(s) /\ s.R = st.R /\ s.cs = st.cs
    BY ResumedFields DEF IInv, Inv, Good
  <2> HIDE DEF s
  <2> QED BY <2>1 DEF Kept, CalleeSavedKept
<1> QED BY <1>1, AlwaysIInv, PTL

\* Register allocation, spilling and reclaiming lose nothing: whatever sequence of operations the
\* front end asks for, the place a live value names holds what the value stands for; and x86_idiv
\* finds its dividend in rax, unless no scratch register was free when it loaded the divisor.
THEOREM ValuesCorrect == Spec => []ValuesIntact
<1>1. IInv => ValuesIntact
  <2>0. IInv => st.ice # "misplaced"
    BY StateFields DEF IInv
  <2> SUFFICES ASSUME IInv, ~Stopped(st), st.read = "right", NEW i \in Live(st), st.v[i].t # "flag"
               PROVE  Loaded(st, i) = st.v[i].sem
    BY <2>0 DEF ValuesIntact
  <2>1. Inv(st) /\ st \in State
    BY ResumedFields DEF IInv, Stopped
  <2>2. Good(st) /\ Holds(st, i)
    BY <2>1 DEF Inv, Right
  <2> QED BY <2>2, LoadedRight
<1> QED BY <1>1, AlwaysIInv, PTL

\* v_decay_flags_except(): a comparison's flags are there when a jump or a setcc reads them, or
\* were destroyed by the addition that applies a spilt register's offset, and by nothing else.
THEOREM FlagsCorrect == Spec => []FlagsIntact
<1>1. IInv => FlagsIntact
  <2> SUFFICES ASSUME IInv, ~Stopped(st)
               PROVE  st.read # "wrong" /\ \A i \in LiveFlags(st) : st.F \in {st.v[i].sem, Sum}
    BY DEF FlagsIntact
  <2>1. Inv(st) /\ st \in State
    BY ResumedFields DEF IInv, Stopped
  <2>2. ASSUME NEW i \in LiveFlags(st) PROVE st.F \in {st.v[i].sem, Sum}
    BY <2>1 DEF Inv, Right, Holds, LiveFlags
  <2> QED BY <2>1, <2>2 DEF Inv, Right
<1> QED BY <1>1, AlwaysIInv, PTL
=============================================================================

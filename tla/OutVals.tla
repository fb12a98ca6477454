------------------------------ MODULE OutVals ------------------------------
(***************************************************************************)
(* The values of the code generator and where they live: reference-counted *)
(* out_vals in registers, spill slots, CPU flags or constants, register    *)
(* allocation and spilling (src/cc1/out/val.c, virt.c, stack.c), and the   *)
(* operations that use them (op.c, out.c, ctrl.c, x86_64.c).               *)
(*                                                                         *)
(* The back end works on one mutable out_ctx and its calls nest deeply, so *)
(* an operation is a function on the record st of the whole state, built   *)
(* from one operator per C function.  Beside the compiler's bookkeeping st *)
(* keeps, as ghost, what the emitted code has put in each register, slot   *)
(* and the flags (R, M, F) and what each value stands for (its field sem). *)
(***************************************************************************)
EXTENDS Integers, Sequences, FiniteSets

CONSTANTS
  NVals,          (* bound: out_vals live at once                          *)
  NScratch,       (* registers 1..NScratch are scratch; 1 is rax, 2 is rdx *)
  NCalleeSave,    (* the ones after them are callee-save                   *)
  MaxRetains,     (* bound: references to one value                        *)
  MaxShared,      (* bound: values with several references                 *)
  MaxOff,         (* bound: constants added to a value                     *)
  NSlots          (* bound: spill slots                                    *)

ASSUME ValsAssumption ==
  /\ NVals \in Nat \ {0} /\ NScratch \in Nat \ {0, 1} /\ NCalleeSave \in Nat
  /\ MaxRetains \in Nat \ {0} /\ MaxShared \in Nat /\ MaxOff \in Nat /\ NSlots \in Nat

VARIABLE st

Ids == 1..NVals
Scratch == 1..NScratch
CalleeSave == NScratch+1..NScratch+NCalleeSave
Regs == Scratch \cup CalleeSave

(* What a location can hold: <<k, d>> is the k-th live value plus d.  Made *)
(* is what an operation computes; Sum the flags left by applying an offset.*)
Junk == <<0, 0>>
Caller == <<0, 1>>
Sum == <<0, 2>>
Made == <<NVals + 1, 0>>

(* st.v: the live values; list: oldest first (octx->val_head is the        *)
(* newest); next: the number the next one gets; R, M, F: registers, slots  *)
(* and flags; rsv: reserved_regs; cs: used_callee_saved; cur: the stack    *)
(* size now; ice: how it ended, "no" while it runs; read: what the flags   *)
(* were when read, "right", "sum" or "wrong"; ret, reg: the value and the  *)
(* register the last call returned.                                        *)

-----------------------------------------------------------------------------
(* Values and their references: val.c.                                     *)

Live(s) == DOMAIN s.v
InReg(s, i) == s.v[i].t = "reg"
InRegAt(s, i, r) == s.v[i].t = "reg" /\ s.v[i].at = r
OnStack(s, i) == s.v[i].t \in {"spilt", "mem"}
Lowest(S) == CHOOSE x \in S : \A y \in S : x <= y
Highest(S) == CHOOSE x \in S : \A y \in S : y <= x

(* The end: impl_reg_cp_no_off finds its source no longer in a register,   *)
(* v_dup_or_reuse its operand, v_save_regs flags with two owners.          *)
Stopped(s) == s.ice # "no"
RegCpIce(s) == [s EXCEPT !.ice = "reg_cp"]
OperandIce(s) == [s EXCEPT !.ice = "operand"]

(* No assertion: loading the divisor took rax from the dividend (full: no  *)
(* register was free for it) and an idiv of something else is emitted.     *)
(* The program is wrong and not followed any further.                      *)
LostDividend(s, full) == [s EXCEPT !.ice = IF full THEN "dividend" ELSE "misplaced"]

Reclaim_NewestOnly(s) ==
  IF s.list = << >> \/ \E i \in Live(s) : InReg(s, i) THEN s
  ELSE LET last == s.list[Len(s.list)] IN
       [s EXCEPT !.cur = IF OnStack(s, last) THEN Lowest({@, s.v[last].at}) ELSE 0]

(* v_try_stack_reclaim: with nothing in a register, the stack below what   *)
(* the live values refer to is free again.                                 *)
Below(s, m) == \A i \in Live(s) : OnStack(s, i) => s.v[i].at <= m
Reclaim(s) ==
  IF \E i \in Live(s) : InReg(s, i) THEN s
  ELSE [s EXCEPT !.cur = Lowest({m \in 0..s.cur : m = s.cur \/ Below(s, m)})]

(* out_val_release (and out_val_consume).                                  *)
Unlink(list, i) ==
  LET p == CHOOSE p \in DOMAIN list : list[p] = i
  IN [k \in 1..Len(list) - 1 |-> IF k < p THEN list[k] ELSE list[k + 1]]
Drop(s, i) ==
  [s EXCEPT !.v = [j \in Live(s) \ {i} |-> s.v[j]], !.list = Unlink(@, i)]
Release(s, i) ==
  IF s.v[i].n > 1 THEN [s EXCEPT !.v[i].n = @ - 1] ELSE Reclaim(Drop(s, i))

Retain(s, i) == [s EXCEPT !.v[i].n = @ + 1]

Ret(s, i) == [s EXCEPT !.ret = i]

(* v_new: the new value is the newest.  octx->val_tail, which only         *)
(* v_save_regs starts from, is the oldest once a function has made two     *)
(* values, and what loads a register has made one before it.               *)
Value(n, t, at, off, c) == [n |-> n, t |-> t, at |-> at, off |-> off, sem |-> c]
New(s, t, at, off, c) ==
  [s EXCEPT !.v = [j \in Live(s) \cup {s.next} |->
                     IF j = s.next THEN Value(1, t, at, off, c) ELSE s.v[j]],
            !.list = Append(@, s.next), !.next = @ + 1, !.ret = s.next]

(* v_reuse, then a change of place: a shared value loses a reference and a *)
(* new one takes the place, standing for c.                                *)
Become(s, i, t, at, c) ==
  IF s.v[i].n > 1
  THEN New(Release(s, i), t, at, 0, c)
  ELSE [s EXCEPT !.v[i] = Value(1, t, at, 0, c), !.ret = i]

-----------------------------------------------------------------------------
(* Finding and freeing registers: virt.c, stack.c.                         *)

(* v_unused_reg2's search: not reserved and not held by a live value.      *)
FreeRegs(s, class) ==
  {r \in class : r \notin s.rsv /\ \A i \in Live(s) : ~InRegAt(s, i, r)}

(* `first': the newest value in a scratch register.                        *)
FirstInReg(s) ==
  s.list[Highest({k \in DOMAIN s.list : InReg(s, s.list[k]) /\ s.v[s.list[k]].at \in Scratch})]

(* impl_reg_cp_no_off, and the value's register changed.                   *)
MoveTo(s, i, r) ==
  [s EXCEPT !.R[r] = s.R[s.v[i].at], !.v[i].at = r]

MarkCalleeSaved_Never(s, r) == s

MarkCalleeSaved(s, r) == [s EXCEPT !.cs = @ \cup {r}]

(* out_aalloct: the next slot down the frame.                              *)
Aalloc(s) == [s EXCEPT !.cur = @ + 1]

Store(s, slot, c) ==
  [s EXCEPT !.M = [m \in DOMAIN s.M \cup {slot} |-> IF m = slot THEN c ELSE s.M[m]]]

(* The end of v_spill_reg: c stored to the slot, the value mutated, and    *)
(* the temporary naming the slot released.                                 *)
StoreSpilt(s, i, slot, c) ==
  Reclaim([Store(s, slot, c) EXCEPT !.v[i] = Value(@.n, "spilt", slot, 0, @.sem)])

(* v_save_reg, given the state in which i has been spilt: a callee-save    *)
(* register if the function type allows it and one is free, otherwise the  *)
(* stack.                                                                  *)
SaveReg(s, i, fnty, spilt) ==
  IF fnty /\ FreeRegs(s, CalleeSave) # {}
  THEN LET r == Lowest(FreeRegs(s, CalleeSave)) IN MarkCalleeSaved(MoveTo(s, i, r), r)
  ELSE spilt

(* v_freeup_regp: another scratch register if one is free.                 *)
FreeupRegp(s, i, spilt) ==
  LET others == FreeRegs(s, Scratch) \ {s.v[i].at} IN
  IF others # {} THEN MoveTo(s, i, Lowest(others)) ELSE SaveReg(s, i, TRUE, spilt)

(* v_unused_reg with the stack as backup; the register is s.reg.           *)
UnusedReg(s, spilt) ==
  IF FreeRegs(s, Scratch) # {}
  THEN [s EXCEPT !.reg = Lowest(FreeRegs(s, Scratch))]
  ELSE [FreeupRegp(s, FirstInReg(s), spilt) EXCEPT !.reg = s.v[FirstInReg(s)].at]

(* v_dup of a value in a register, once s.reg is free for it.              *)
(* impl_reg_cp_no_off asserts that the value is still in a register.       *)
CopyToReg(s, i) ==
  IF Stopped(s) THEN s
  ELSE IF ~InReg(s, i) THEN RegCpIce(s)
  ELSE New([Release(s, i) EXCEPT !.R[s.reg] = s.R[s.v[i].at]],
           "reg", s.reg, s.v[i].off, s.v[i].sem)

(* v_reg_apply_offset: in place, or if the value is shared on a copy, in   *)
(* the register found (unused) while the value's offset is zero.  The add  *)
(* changes the flags.                                                      *)
Plus(c, d) == <<c[1], c[2] + d>>
Plain(s, i) == [s EXCEPT !.v[i].off = 0]
AddTo(s, r, d) == [s EXCEPT !.R[r] = Plus(@, d), !.F = Sum]
AddToCopy(s, i, d) ==
  IF Stopped(s) THEN s ELSE [AddTo(s, s.v[s.ret].at, d) EXCEPT !.v[i].off = d]

ApplyOffset(s, i, unused) ==
  IF s.v[i].off = 0 THEN Ret(s, i)
  ELSE IF s.v[i].n = 1 THEN Ret(Plain(AddTo(s, s.v[i].at, s.v[i].off), i), i)
  ELSE AddToCopy(CopyToReg(unused, i), i, s.v[i].off)

(* v_spill_reg.  The slot comes first; an offset is applied on a copy,     *)
(* which needs a register.  When that register has to be freed by spilling *)
(* in turn (SpillLast), a value with an offset ends in the assertion: no   *)
(* register is left for its copy and v_unused_reg picks it again.          *)
SpillLast(s, i) ==
  IF s.v[i].off # 0 THEN RegCpIce(s)
  ELSE StoreSpilt(Aalloc(s), i, s.cur + 1, s.R[s.v[i].at])
UnusedLast(s) == UnusedReg(s, SpillLast(s, FirstInReg(s)))

SpillCopy(s, i, slot) ==
  IF Stopped(s) THEN s
  ELSE StoreSpilt(Release(s, s.ret), i, slot, s.R[s.v[s.ret].at])
ApplyLast(s, i) == ApplyOffset(s, i, UnusedLast(Plain(s, i)))
SpillReg(s, i) ==
  IF s.v[i].off = 0 THEN SpillLast(s, i)
  ELSE SpillCopy(ApplyLast(Retain(Aalloc(s), i), i), i, s.cur + 1)

(* The four above as the rest of the code calls them.                      *)
Save(s, i, fnty) == SaveReg(s, i, fnty, SpillReg(s, i))
Freeup(s, i) == FreeupRegp(s, i, SpillReg(s, i))
Unused(s) == UnusedReg(s, SpillReg(s, FirstInReg(s)))
Apply(s, i) == ApplyOffset(s, i, Unused(Plain(s, i)))

(* What loading value i into a register gives (impl_load).                 *)
Loaded(s, i) ==
  CASE InReg(s, i)           -> Plus(s.R[s.v[i].at], s.v[i].off)
    [] OnStack(s, i)         -> s.M[s.v[i].at]
    [] s.v[i].t = "flag"     -> s.F
    [] s.v[i].t = "const"    -> s.v[i].sem

(* setcc and jcc read the flags: do they still hold the comparison?        *)
ReadFlags(s, i) ==
  [s EXCEPT !.read = IF s.v[i].t # "flag" \/ s.F = s.v[i].sem THEN @
                     ELSE IF s.F = Sum THEN "sum" ELSE "wrong"]

LoadInto(s, i, r) ==
  Become([ReadFlags(s, i) EXCEPT !.R[r] = Loaded(s, i)], i, "reg", r, s.v[i].sem)
LoadUnused(s, i) == IF Stopped(s) THEN s ELSE LoadInto(s, i, s.reg)

(* v_to_reg.                                                               *)
ToReg(s, i) == IF InReg(s, i) THEN Ret(s, i) ELSE LoadUnused(Unused(s), i)

(* v_to(TO_REG [| TO_MEM]): in a register, with no offset.                 *)
ApplyRet(s) == IF Stopped(s) THEN s ELSE Apply(s, s.ret)
ToPlainReg(s, i) == IF Stopped(s) THEN s ELSE ApplyRet(ToReg(s, i))
ToRegOrConst(s, i) == IF s.v[i].t = "const" THEN Ret(s, i) ELSE ToPlainReg(s, i)

-----------------------------------------------------------------------------
(* Whole-list walks.                                                       *)

(* v_decay_flags_except: flags become registers, newest first, before an   *)
(* instruction or a jump loses them.                                       *)
LiveFlags(s) == {i \in Live(s) : s.v[i].t = "flag"}
SetccTo(s, i, r) ==
  [ReadFlags(s, i) EXCEPT !.R[r] = s.F, !.v[i] = Value(@.n, "reg", r, 0, @.sem)]
SetccUnused(s, i) == IF Stopped(s) THEN s ELSE SetccTo(s, i, s.reg)
DecayFlag(s, i) == IF Stopped(s) THEN s ELSE SetccUnused(Unused(s), i)
DecayFlagsExcept_Never(s, except) == s

DecayOne(s, i, except) ==
  IF s.v[i].t # "flag" \/ i \in except THEN s ELSE DecayFlag(s, i)
DecaySteps(s, except) ==
  LET walk[k \in 0..Len(s.list)] ==
        IF k = 0 THEN s ELSE DecayOne(walk[k - 1], s.list[Len(s.list) + 1 - k], except)
  IN walk
DecayFlagsExcept(s, except) == DecaySteps(s, except)[Len(s.list)]

(* v_save_regs: oldest first, everything held in a register the callee, or *)
(* (fnty FALSE) the code after a jump, may not preserve.                   *)
NeedsSave_NotOldest(s, i, fnty) ==
  /\ i # s.list[1]
  /\ s.v[i].t = "reg" => ~(fnty /\ s.v[i].at \in CalleeSave)
  /\ s.v[i].t \in {"reg", "flag"}

NeedsSave(s, i, fnty) ==
  /\ s.v[i].t = "reg" => ~(fnty /\ s.v[i].at \in CalleeSave)
  /\ s.v[i].t \in {"reg", "flag"}

SaveLoaded(s, i, fnty) == IF Stopped(s) THEN s ELSE Save(s, i, fnty)
SaveOne(s, i, fnty, skip) ==
  IF Stopped(s) \/ i \in skip \/ ~NeedsSave(s, i, fnty) THEN s
  ELSE IF s.v[i].t = "flag" /\ s.v[i].n > 1 THEN OperandIce(s)
  ELSE SaveLoaded(ToReg(s, i), i, fnty)
SaveSteps(s, fnty, skip) ==
  LET walk[k \in 0..Len(s.list)] ==
        IF k = 0 THEN s ELSE SaveOne(walk[k - 1], s.list[k], fnty, skip)
  IN walk
SaveRegs(s, fnty, skip) ==
  IF Stopped(s) THEN s ELSE SaveSteps(s, fnty, skip)[Len(s.list)]

ClobberRegs(s, regs) ==
  [s EXCEPT !.R = [r \in Regs |-> IF r \in regs THEN Junk ELSE @[r]], !.F = Junk]

-----------------------------------------------------------------------------
(* Operations.  Each returns the state after the whole call.               *)

(* v_dup_or_reuse of a value in a register: a shared one is copied to a    *)
(* register of its own.                                                    *)
DupOrReuse(s, i) == IF s.v[i].n = 1 THEN Ret(s, i) ELSE CopyToReg(Unused(s), i)

(* out_deref of a local (its address stays with the symbol), of a label,   *)
(* and of a pointer in a register, which it may reuse.                     *)
LoadNew(s, c, sem) ==
  IF Stopped(s) THEN s ELSE New([s EXCEPT !.R[s.reg] = c], "reg", s.reg, 0, sem)
DerefLocal(s, i) == LoadNew(Unused(s), s.M[s.v[i].at], s.v[i].sem)
DerefLabel(s) == LoadNew(Unused(s), Made, Made)
DerefInto(s, i, r) == Become([s EXCEPT !.R[r] = Made], i, "reg", r, Made)
DerefUnused(s, i) == IF Stopped(s) THEN s ELSE DerefInto(s, i, s.reg)
DerefPtr(s, i) ==
  IF s.v[i].n = 1 THEN DerefInto(s, i, s.v[i].at) ELSE DerefUnused(Unused(s), i)

(* out_op, adding a constant to a value in a register (try_mem_offset), or *)
(* with an instruction if the flags' decay has spilt it.                   *)
AddOffset(s) ==
  IF Stopped(s) THEN s
  ELSE [s EXCEPT !.v[s.ret].off = @ + 1, !.v[s.ret].sem = Plus(@, 1)]
AddInsn(s) ==
  IF Stopped(s) THEN s
  ELSE [AddTo(s, s.v[s.ret].at, 1) EXCEPT !.v[s.ret].sem = Plus(@, 1), !.F = Junk]
AddConst(s, i) ==
  IF Stopped(s) THEN s
  ELSE IF InReg(s, i) THEN AddOffset(DupOrReuse(s, i)) ELSE AddInsn(ToPlainReg(s, i))
OpOffset(s, i) == AddConst(DecayFlagsExcept(s, {i}), i)

(* out_op with a two-operand instruction (impl_op): the left operand's     *)
(* register gets the result.  v_dup_or_reuse asserts it was not spilt      *)
(* while the right operand was loaded.  (A commutative operation whose     *)
(* operands suit it the other way round has them swapped first: that is    *)
(* the other choice of l and r.)                                           *)
BinaryInsn(s, l) ==
  IF Stopped(s) THEN s
  ELSE IF ~InReg(s, l) THEN OperandIce(s)
  ELSE Release([s EXCEPT !.R[s.v[l].at] = Made, !.F = Junk, !.v[l].sem = Made], s.ret)
BinaryRight(s, r) == IF Stopped(s) THEN s ELSE BinaryInsn(ToRegOrConst(s, r), s.ret)
OpBinary(s, l, r) == BinaryRight(ToPlainReg(DecayFlagsExcept(s, {l, r}), l), r)

(* A comparison: the flags are the result, in place of the operand with    *)
(* fewer references (min_retained, v_new_flag).                            *)
CompareInsn(s, l, r) ==
  IF Stopped(s) THEN s
  ELSE LET keep == IF s.v[l].n > s.v[r].n THEN r ELSE l
           drop == IF keep = l THEN r ELSE l
       IN Become(Release([s EXCEPT !.F = Made], drop), keep, "flag", 0, Made)
CompareWith(s, l) == CompareInsn(s, l, s.ret)
CompareRight(s, r) == IF Stopped(s) THEN s ELSE CompareWith(ToRegOrConst(s, r), s.ret)
OpCompare(s, l, r) == CompareRight(ToRegOrConst(DecayFlagsExcept(s, {l, r}), l), r)

(* x86_idiv: rdx is freed and reserved, the dividend is moved to rax, the  *)
(* divisor to any register, and the quotient or the remainder is the       *)
(* result.  That the dividend is in rax still is not looked at.            *)
FreeupReg(s, r) ==
  LET hold == {i \in Live(s) : InRegAt(s, i, r)} IN
  IF Stopped(s) \/ hold = {} THEN s ELSE Freeup(s, CHOOSE i \in hold : TRUE)

IdivInsn(s, l, res, full) ==
  IF Stopped(s) THEN s
  ELSE IF ~InRegAt(s, l, 1) THEN LostDividend(s, full)
  ELSE Become(Release([s EXCEPT !.R[1] = IF res = 1 THEN Made ELSE Junk,
                                !.R[2] = IF res = 2 THEN Made ELSE Junk,
                                !.F = Junk, !.rsv = {}], s.ret),
              l, "reg", res, Made)
IdivRight(s, r, res) ==
  IF Stopped(s) THEN s
  ELSE IdivInsn(ToPlainReg(s, r), s.ret, res, FreeRegs(s, Scratch) = {})
IdivLoad(s, l) == IF Stopped(s) THEN s ELSE LoadInto(s, l, 1)
IdivLeft(s, l) ==
  IF Stopped(s) THEN s
  ELSE IF InReg(s, l) /\ s.v[l].at = 1 THEN Apply(s, l)
  ELSE ApplyRet(IdivLoad(FreeupReg(s, 1), l))
Idiv(s, l, r, res) ==
  IdivRight(IdivLeft([FreeupReg(DecayFlagsExcept(s, {l, r}), 2) EXCEPT !.rsv = {2}], l), r, res)

(* impl_call without arguments: every register the callee may change is    *)
(* saved, and the result is in rax.                                        *)
CallInsn(s) ==
  IF Stopped(s) THEN s
  ELSE New([ClobberRegs(s, Scratch) EXCEPT !.R[1] = Made], "reg", 1, 0, Made)
Call(s) == CallInsn(SaveRegs(s, TRUE, {}))

(* out_ctrl_transfer, then code that other blocks also jump to.  A jump on *)
(* a constant (impl_branch) is one too.                                    *)
JoinPoint(s) == IF Stopped(s) THEN s ELSE ClobberRegs(s, Scratch \cup s.cs)
CtrlTransfer(s) == JoinPoint(SaveRegs(DecayFlagsExcept(s, {}), FALSE, {}))

(* out_ctrl_branch on cond (impl_branch): flags are jumped on, a register  *)
(* is tested.  The other target starts from what is saved here; a cond the *)
(* caller has retained (`a ?: b') is used only where control comes         *)
(* straight from the jump, and its place is as it was.                     *)
AfterJump(s, c) ==
  LET kept == {s.v[i].at : i \in {j \in Live(s) : InReg(s, j)}}
      flags == IF c \in Live(s) /\ s.v[c].t = "flag" THEN s.F ELSE Junk
  IN [ClobberRegs(s, (Scratch \cup s.cs) \ kept) EXCEPT !.F = flags]
Jump(s, c) ==
  IF Stopped(s) THEN s ELSE AfterJump(Release(ReadFlags(s, s.ret), s.ret), c)
TestCond(s, c) ==
  IF Stopped(s) THEN s
  ELSE Jump(IF s.v[c].t = "flag" THEN Ret(s, c) ELSE ToPlainReg(s, c), c)
CtrlBranch(s, c) == TestCond(SaveRegs(DecayFlagsExcept(s, {c}), FALSE, {c}), c)

-----------------------------------------------------------------------------
(* The machine: any sequence of operations the front end can ask for.      *)

Init ==
  st = [v |-> [i \in {} |-> Junk], list |-> << >>, next |-> 1,
        R |-> [r \in Regs |-> IF r \in CalleeSave THEN Caller ELSE Junk],
        M |-> [m \in {} |-> Junk], F |-> Junk,
        rsv |-> {}, cs |-> {}, cur |-> 0, ice |-> "no", read |-> "right",
        ret |-> 0, reg |-> 0]

(* The bounds: room for the values and slots one operation may create.     *)
Room(n) == Cardinality(Live(st)) + n <= NVals /\ st.cur + NVals <= NSlots
(* What happens after a jump on wrong flags is not followed.               *)
Running == ~Stopped(st) /\ st.read = "right"

(* Between operations the values are numbered from the oldest, and so are  *)
(* their contents; nothing is kept where no live value is.  Operations     *)
(* follow the list's order, write a place before they put a value there,   *)
(* and compare only live values' contents, so the numbers say nothing.     *)
Places(s, c) == {p \in DOMAIN s.list : s.v[s.list[p]].sem[1] = c[1]}
Token(s, c) == IF c = Caller \/ Places(s, c) = {} THEN c ELSE <<Lowest(Places(s, c)), c[2]>>
Clean(s, c, live) ==
  IF c = Caller \/ (live /\ Places(s, c) # {}) THEN Token(s, c) ELSE Junk
Renumbered(s) ==
  LET used == {m \in DOMAIN s.M : \E i \in Live(s) : OnStack(s, i) /\ s.v[i].at = m}
  IN [s EXCEPT !.list = [p \in DOMAIN s.list |-> p], !.next = Len(s.list) + 1,
               !.v = [p \in DOMAIN s.list |->
                        [s.v[s.list[p]] EXCEPT !.sem = Token(s, @)]],
               !.R = [r \in Regs |-> Clean(s, s.R[r], \E i \in Live(s) : InRegAt(s, i, r))],
               !.M = [m \in used |-> Clean(s, s.M[m], TRUE)],
               !.F = IF @ = Sum /\ LiveFlags(s) # {} THEN Sum ELSE Clean(s, @, LiveFlags(s) # {}),
               !.ret = 0, !.reg = 0]

(* An operation that runs into an assertion (an ICE) is the last.          *)
Ran(s) == IF Stopped(s) THEN [st EXCEPT !.ice = s.ice] ELSE Renumbered(s)

(* A constant (out_new_l); a local (out_aalloct, then a store).            *)
OutNewL ==
  /\ Running /\ Room(2)
  /\ st' = Ran(New(st, "const", 0, 0, Made))

OutAalloc ==
  /\ Running /\ Room(2)
  /\ st' = Ran(New(Store(Aalloc(st), st.cur + 1, Made), "mem", st.cur + 1, 0, Made))

OutDeref ==
  \/ Running /\ Room(2) /\ st' = Ran(DerefLabel(st))
  \/ Running /\ Room(2) /\ \E i \in Live(st) : st.v[i].t = "mem" /\ st' = Ran(DerefLocal(st, i))
  \/ Running /\ Room(1) /\ \E i \in Live(st) : InReg(st, i) /\ st' = Ran(DerefPtr(st, i))

(* Left out: a comparison with two owners (`switch(a < b)'), which outlives *)
(* its flags.  Another reference is for an operation to come: it is only   *)
(* taken while there is room for one.                                      *)
OutRetain(i) ==
  /\ Running /\ i \in Live(st) /\ Room(1)
  /\ Cardinality({j \in Live(st) \ {i} : st.v[j].n > 1}) < MaxShared
  /\ st.v[i].n < MaxRetains /\ st.v[i].t \notin {"mem", "flag"}
  /\ st' = Ran(Retain(st, i))

OutRelease(i) ==
  /\ Running /\ i \in Live(st)
  /\ st' = Ran(Release(st, i))

OutOpOffset(i) ==
  /\ Running /\ i \in Live(st) /\ Room(1)
  /\ InReg(st, i) /\ st.v[i].sem[2] < MaxOff
  /\ st' = Ran(OpOffset(st, i))

(* Callers give the left operand of an instruction that writes it away:    *)
(* none of them holds another reference to it.                             *)
OutOp(l, r) ==
  /\ Running /\ {l, r} \subseteq Live(st) /\ l # r /\ Room(2)
  /\ st.v[l].t # "mem" /\ st.v[r].t # "mem"
  /\ \/ st.v[l].n = 1 /\ st' = Ran(OpBinary(st, l, r))
     \/ st' = Ran(OpCompare(st, l, r))
     \/ st.v[l].n = 1 /\ \E res \in {1, 2} : st' = Ran(Idiv(st, l, r, res))

OutCall == Running /\ Room(2) /\ st' = Ran(Call(st))

OutCtrlTransfer == Running /\ Room(1) /\ st' = Ran(CtrlTransfer(st))

OutCtrlBranch(c) ==
  /\ Running /\ c \in Live(st) /\ Room(1)
  /\ st.v[c].t \in {"reg", "flag"}
  /\ st' = Ran(CtrlBranch(st, c))

Next ==
  \/ OutNewL \/ OutAalloc \/ OutDeref \/ OutCall \/ OutCtrlTransfer
  \/ \E i \in Ids : OutRetain(i) \/ OutRelease(i) \/ OutOpOffset(i) \/ OutCtrlBranch(i)
  \/ \E l, r \in Ids : OutOp(l, r)

Spec == Init /\ [][Next]_st

-----------------------------------------------------------------------------
(* Properties.                                                             *)

(* Whatever was moved, shared, spilt or reclaimed since it was made, the   *)
(* place a live value names holds what the value stands for (as long as no *)
(* stale flags were read: FlagsIntact is about those).  x86_idiv loses its *)
(* dividend, and the result is wrong, only when the divisor needed a       *)
(* register and every scratch register was taken.                          *)
ValuesIntact ==
  /\ st.ice # "misplaced"
  /\ ~Stopped(st) /\ st.read = "right"
       => \A i \in Live(st) : st.v[i].t # "flag" => Loaded(st, i) = st.v[i].sem

(* A comparison's flags hold its result for as long as it is in the flags, *)
(* and when a jump or a setcc reads them.  The exception is a register     *)
(* with an offset spilt in between, whose addition destroys them.          *)
FlagsIntact ==
  ~Stopped(st) => /\ st.read # "wrong"
                  /\ \A i \in LiveFlags(st) : st.F \in {st.v[i].sem, Sum}

(* A slot in use is one value's and inside the part of the frame that      *)
(* v_try_stack_reclaim leaves allocated.                                   *)
SlotsAllocated ==
  /\ \A i, j \in Live(st) : OnStack(st, i) /\ OnStack(st, j) /\ i # j
                              => st.v[i].at # st.v[j].at
  /\ \A i \in Live(st) : OnStack(st, i) => st.v[i].at <= st.cur

(* A callee-save register the prologue will not save keeps the caller's    *)
(* value.                                                                  *)
CalleeSavedKept ==
  \A r \in CalleeSave : r \notin st.cs => st.R[r] = Caller
=============================================================================

-------------------------------- MODULE Calls --------------------------------
(***************************************************************************)
(* Function calls: a caller and a function it calls, each compiled to      *)
(* moves between registers and stack words, and run.  Memory and the       *)
(* stack are counted in 8-byte words; a value is <<kind, number>>.         *)
(***************************************************************************)
EXTENDS Integers, Sequences, FiniteSets, SequencesExt

CONSTANT Programs \* the calls that are compiled (see Program in MCCalls)

VARIABLES prog,  \* the program: its types and where its values are before the call
          code,  \* what is left to run
          regs,  \* the registers, bp and sp among them
          mem,   \* the stack
          va,    \* the callee's va_list
          seen   \* what the callee's body read, in order
vars == <<prog, code, regs, mem, va, seen>>

(***************************************************************************)
(* Registers, as x86_64.h numbers them; float registers follow.            *)
(***************************************************************************)
RAX == 0
RBX == 1
RDX == 3
RDI == 4
RSI == 5
BP == 14
SP == 15
Xmm(n) == 16 + n
N_CALL_REGS_F == 8
IntRegs == 0..13
FloatRegs == Xmm(0)..Xmm(7)
CallRegs(conv) ==
  CASE conv = "sysv" -> <<RDI, RSI, RDX, 2, 6, 7>>
    [] conv = "ms" -> <<2, RDX, 6, 7>>
    [] conv = "fastcall" -> <<2, RDX>>
    [] OTHER -> <<>>
CalleeSaves(conv) ==
  CASE conv = "sysv" -> {RBX, 10, 11, 12, 13}
    [] conv = "ms" -> {RBX, RDI, RSI, 10, 11, 12, 13, Xmm(6), Xmm(7)}
    [] conv = "cdecl" -> {RBX, RDI, RSI}
    [] OTHER -> {}
impl_reg_is_scratch(conv, r) == r \in FloatRegs \/ r \notin CalleeSaves(conv)
\* What a function of the convention really keeps for its caller.
Kept(conv) == {r \in IntRegs \cup FloatRegs : ~impl_reg_is_scratch(conv, r)}
x86_caller_cleanup(conv) == conv \notin {"stdcall", "fastcall"}

Junk == <<"junk", 0>>
Word(k, n) == <<k, n>>
Low(S) == CHOOSE x \in S : \A y \in S : x <= y
Least(a, b) == IF a < b THEN a ELSE b
Most(a, b) == IF a > b THEN a ELSE b
Even(n) == n + (n % 2)
Count(s, k) == Len(SelectSeq(s, LAMBDA x : x = k))

(***************************************************************************)
(* The machine.  A place is a register, a word at an offset from bp or     *)
(* sp, a word at the address a register holds, or an immediate.            *)
(***************************************************************************)
Reg(r) == <<"reg", r>>
BpWord(off) == <<"bp", off>>
SpWord(off) == <<"sp", off>>
At(r, off) == <<"at", <<r, off>>>>
Imm(v) == <<"imm", v>>
Op(o, d, s) == [o |-> o, d |-> d, s |-> s]
Mov(d, s) == Op("mov", d, s)
AdjustSp(n) == Op("sp", n, <<>>)

Addr(p) == CASE p[1] = "bp" -> regs[BP][2] + p[2]
             [] p[1] = "sp" -> regs[SP][2] + p[2]
             [] p[1] = "at" -> regs[p[2][1]][2] + p[2][2]

\* An "at" place whose register holds no address is a wild access.
Wild(p) == p[1] = "at" /\ regs[p[2][1]][1] # "addr"
Read(p) == CASE p[1] = "reg" -> regs[p[2]]
             [] p[1] = "imm" -> p[2]
             [] Wild(p) -> Junk
             [] OTHER -> IF Addr(p) \in DOMAIN mem THEN mem[Addr(p)] ELSE Junk
\* The words a program's stack may use; the callers' frames are above.
StackTop == 60
Stack == 0..StackTop

(***************************************************************************)
(* The compiler's state while it generates a function: its convention, the *)
(* code so far, where each live value is, the stack in use, and what the   *)
(* frame needs.  Registers are always judged by the convention of the      *)
(* function that is generated (current_fnty), never by the callee's.       *)
(***************************************************************************)
NewOctx(conv, cur, alloca) ==
  [conv |-> conv, code |-> <<>>, vals |-> << >>, list |-> <<>>, cur |-> cur, max |-> cur, callspace |-> 0, align |-> 1, saved |-> <<>>, alloca |-> alloca]
Emit(o, i) == [o EXCEPT !.code = Append(@, i)]
out_aalloc(o, n) == [o EXCEPT !.cur = @ + n, !.max = Most(@, o.cur + n)]
Spot(o) == BpWord(-o.cur)
IsIn(o, v, r) == o.vals[v][1] = "reg" /\ o.vals[v][2] = r
UsedRegs(o) == {r \in IntRegs \cup FloatRegs : \E v \in DOMAIN o.vals : IsIn(o, v, r)}
v_find_reg(o, r) == {v \in DOMAIN o.vals : IsIn(o, v, r)}
Unused(o, fp, callee) ==
  {r \in IF fp THEN FloatRegs ELSE IntRegs :
     IF callee THEN r \in CalleeSaves(o.conv) ELSE impl_reg_is_scratch(o.conv, r)} \ UsedRegs(o)
Moved(o, v, to) == [Emit(o, Mov(to, o.vals[v])) EXCEPT !.vals[v] = to]
mark_callee_save_reg_as_used(o, r) == IF Contains(o.saved, r) THEN o ELSE [o EXCEPT !.saved = Append(@, r)]
v_spill_reg(o, v) == LET p == out_aalloc(o, 1) IN Moved(p, v, Spot(p))
v_save_reg(o, v, fp) ==
  LET free == Unused(o, fp, TRUE) IN
  IF free = {} THEN v_spill_reg(o, v) ELSE mark_callee_save_reg_as_used(Moved(o, v, Reg(Low(free))), Low(free))
v_freeup_regp(o, v, fp) ==
  LET free == Unused(o, fp, FALSE) IN
  IF free = {} THEN v_save_reg(o, v, fp) ELSE Moved(o, v, Reg(Low(free)))
\* A possible bug: the register is loaded although a value is in it.
v_freeup_reg_Not(o, r) == o

v_freeup_reg(o, r) ==
  LET in == v_find_reg(o, r) IN
  IF in = {} THEN o ELSE v_freeup_regp(o, CHOOSE v \in in : TRUE, r \in FloatRegs)

\* Every live value but the call's own is taken out of the scratch registers.
v_save_regs(o, keep) ==
  FoldLeft(LAMBDA p, v : IF v \in keep \/ p.vals[v][1] # "reg" \/ p.vals[v][2] \in CalleeSaves(p.conv) THEN p
                         ELSE v_save_reg(p, v, p.vals[v][2] \in FloatRegs),
           o, o.list)

(***************************************************************************)
(* Structures returned by value.  A return type is scalar, or a list of    *)
(* members [fp, bytes]; up to two words come back in registers.            *)
(***************************************************************************)
Bytes(t) == FoldLeft(LAMBDA n, x : n + x.bytes, 0, t.members)
Words(t) == (Bytes(t) + 7) \div 8
x86_stret(t) == IF t.members = <<>> THEN "scalar" ELSE IF Bytes(t) > 16 THEN "memcpy" ELSE "regs"
x86_overlay_regpair_1(pair, kind) ==
  Append(pair, IF kind = "float" THEN IF pair = <<>> \/ pair[1] \notin FloatRegs THEN Xmm(0) ELSE Xmm(1)
               ELSE IF pair = <<>> \/ pair[1] \in FloatRegs THEN RAX ELSE RDX)
x86_overlay_regpair(t) ==
  LET Member(s, x) ==
        LET this == IF x.fp THEN "float" ELSE "int"
            kind == IF s.kind = "none" \/ s.kind = this THEN this ELSE "int"
            bits == s.bits + 8 * x.bytes
        IN IF bits >= 64 THEN [pair |-> x86_overlay_regpair_1(s.pair, kind), kind |-> "none", bits |-> 0]
           ELSE [s EXCEPT !.kind = kind, !.bits = bits]
      last == FoldLeft(Member, [pair |-> <<>>, kind |-> "none", bits |-> 0], t.members)
  IN IF Len(last.pair) < 2 THEN x86_overlay_regpair_1(last.pair, last.kind) ELSE last.pair
\* The memory is the frame's, from word spot on.
impl_overlay_mem_reg(t, mem2reg, spot) ==
  LET pair == x86_overlay_regpair(t)
      Place(i) == BpWord(spot + i - 1)
  IN [i \in 1..Words(t) |-> IF mem2reg THEN Mov(Reg(pair[i]), Place(i)) ELSE Mov(Place(i), Reg(pair[i]))]

(***************************************************************************)
(* impl_call.                                                              *)
(***************************************************************************)
ArgName(i) == <<"arg", i>>
Fn == <<"fn", 0>>
Held(i) == <<"held", i>>
(* What a call passes: the prototype's types if there is one, and the      *)
(* promoted types of the arguments past it.                                *)
NoPrototype(p) == p.decl # "prototype"
check_arg_counts(p) ==
  ~NoPrototype(p) /\ Len(p.given) # Len(p.named) /\ (p.variadic => Len(p.given) < Len(p.named))
check_arg_types(p, i) == p.named[i]
default_promote_args(p, i) == IF p.given[i] = "float" THEN "f" ELSE p.given[i]
Kinds(p) ==
  [i \in DOMAIN p.given |-> IF i <= Len(p.named) /\ ~NoPrototype(p) THEN check_arg_types(p, i) ELSE default_promote_args(p, i)]
IsMemcpy(p) == x86_stret(p.ret) = "memcpy"
IsFloat(p, i) == Kinds(p)[i] = "f"
\* How many arguments of the i-th's class come before it.
Before(p, i) == Count(SubSeq(Kinds(p), 1, i - 1), Kinds(p)[i])
CallReg(p, i, hidden) ==
  LET n == Before(p, i) + (IF hidden /\ ~IsFloat(p, i) THEN 1 ELSE 0) IN
  IF IsFloat(p, i) THEN IF n < N_CALL_REGS_F THEN <<Xmm(n)>> ELSE <<>>
  ELSE IF n < Len(CallRegs(p.conv)) THEN <<CallRegs(p.conv)[n + 1]>> ELSE <<>>
\* The loop that stores arguments forgets the hidden pointer; the one that loads registers does not.
OnStack(p, i) == CallReg(p, i, FALSE) = <<>>
InRegister(p, i) == CallReg(p, i, IsMemcpy(p))
StackWords(p) ==
  LET ints == Count(Kinds(p), "i") + (IF IsMemcpy(p) THEN 1 ELSE 0)
      floats == Count(Kinds(p), "f")
  IN Most(0, ints - Len(CallRegs(p.conv))) + Most(0, floats - N_CALL_REGS_F)

ArgStack(o, p) ==
  LET n == StackWords(p) IN
  IF n = 0 THEN o
  ELSE IF o.alloca THEN Emit(o, AdjustSp(-Even(n)))
  ELSE [out_aalloc(o, n) EXCEPT !.callspace = Most(@, n)]
\* A stored word passes through a register when it comes from memory.
StackArgs(o, p) ==
  LET stored == SelectSeq([i \in DOMAIN Kinds(p) |-> i], LAMBDA i : OnStack(p, i))
  IN FoldLeft(LAMBDA q, n : [Emit(q, Mov(SpWord(n - 1), q.vals[ArgName(stored[n])]))
                               EXCEPT !.vals[ArgName(stored[n])] = SpWord(n - 1)],
              o, [n \in DOMAIN stored |-> n])
\* The pointer is loaded and its value released: its register counts as unused from here on.
HiddenArg(o, p, spot) ==
  IF ~IsMemcpy(p) THEN o
  ELSE LET r == CallRegs(p.conv)[1] IN Emit(v_freeup_reg(o, r), Op("lea", Reg(r), spot))
RegArg(o, p, i) ==
  LET r == InRegister(p, i) IN
  IF r = <<>> \/ IsIn(o, ArgName(i), r[1]) THEN o ELSE Moved(v_freeup_reg(o, r[1]), ArgName(i), Reg(r[1]))
NeedFloatCount(p) == p.variadic \/ NoPrototype(p)
x86_call_jmp_target(o, p) ==
  IF o.vals[Fn][1] = "imm" THEN o
  ELSE LET q == IF o.vals[Fn][1] = "reg" THEN o ELSE Moved(o, Fn, Reg(Low(Unused(o, FALSE, FALSE)))) IN
       IF NeedFloatCount(p) /\ IsIn(q, Fn, RAX) THEN Moved(q, Fn, Reg(Low(Unused(q, FALSE, FALSE)))) ELSE q
FloatCount(o, p) ==
  IF NeedFloatCount(p) THEN Emit(o, Mov(Reg(RAX), Imm(Word("n", Least(Count(Kinds(p), "f"), N_CALL_REGS_F))))) ELSE o
\* A possible bug: what the callee popped is not taken back.
Cleanup_Caller(o, p) ==
  LET n == StackWords(p) IN IF n > 0 /\ x86_caller_cleanup(p.conv) /\ o.alloca THEN Emit(o, AdjustSp(Even(n))) ELSE o

Cleanup(o, p) ==
  LET n == StackWords(p) IN
  IF n = 0 THEN o
  ELSE IF ~x86_caller_cleanup(p.conv) THEN IF o.alloca THEN o ELSE Emit(o, AdjustSp(-n))
  ELSE IF o.alloca THEN Emit(o, AdjustSp(Even(n))) ELSE o

\* The result's place: registers, or the words set aside for a structure.
Result(p, spot) ==
  CASE x86_stret(p.ret) = "scalar" -> <<Reg(IF p.ret.fp THEN Xmm(0) ELSE RAX)>>
    [] x86_stret(p.ret) = "regs" -> [i \in 1..Words(p.ret) |-> BpWord(spot[2] + i - 1)]
    [] OTHER -> [i \in 1..Words(p.ret) |-> At(RAX, i - 1)]
impl_call(o, p) ==
  LET keep == {Fn} \cup {ArgName(i) : i \in DOMAIN Kinds(p)}
      space == IF x86_stret(p.ret) = "scalar" THEN o ELSE out_aalloc(o, Words(p.ret))
      spot == Spot(space)
      stacked == StackArgs(ArgStack([v_save_regs(space, keep) EXCEPT !.align = 2], p), p)
      loaded == FoldLeft(LAMBDA q, i : RegArg(q, p, i), HiddenArg(stacked, p, spot), [i \in DOMAIN Kinds(p) |-> i])
      target == x86_call_jmp_target(loaded, p)
      done == Cleanup(Emit(FloatCount(target, p), Op("call", target.vals[Fn], <<>>)), p)
  IN [o |-> IF x86_stret(p.ret) # "regs" THEN done
            ELSE FoldLeft(Emit, done, impl_overlay_mem_reg(p.ret, FALSE, spot[2])),
      result |-> Result(p, spot)]

(***************************************************************************)
(* Function prologues and epilogues.                                       *)
(***************************************************************************)
\* The frame's words, and the code that saves and restores what the function must keep.
CalleeSpace(o) == Len(o.saved)
FrameWords(o) ==
  LET n == CalleeSpace(o)
      max == IF n = 0 THEN o.max ELSE o.max + n + n + o.callspace
  IN IF o.align = 1 THEN max ELSE Even(max)

SaveSpot(o, i) == BpWord(-(o.max + CalleeSpace(o)) + i - 1)
callee_save_or_restore(o, reg2mem) ==
  [i \in DOMAIN o.saved |-> IF reg2mem THEN Mov(SaveSpot(o, i), Reg(o.saved[i])) ELSE Mov(Reg(o.saved[i]), SaveSpot(o, i))]

\* Where each named argument is in the function, after its prologue; the hidden pointer is first.
NamedInts(p) == Count(p.named, "i")
NamedFloats(p) == Count(p.named, "f")
SavedArgs(p) ==
  LET hidden == IF IsMemcpy(p) THEN 1 ELSE 0
      kinds == (IF IsMemcpy(p) THEN <<"i">> ELSE <<>>) \o p.named
      ni == Least(Len(CallRegs(p.conv)), NamedInts(p) + hidden)
      nf == Least(N_CALL_REGS_F, NamedFloats(p))
      RegOf(i) ==
        LET n == Count(SubSeq(kinds, 1, i - 1), kinds[i]) IN
        IF kinds[i] = "f" THEN IF n < nf THEN <<Xmm(n)>> ELSE <<>>
        ELSE IF n < ni THEN <<CallRegs(p.conv)[n + 1]>> ELSE <<>>
      Nth(i, inReg) == Cardinality({j \in 1..i - 1 : (RegOf(j) # <<>>) = inReg})
  IN [words |-> ni + nf,
      args |-> [i \in DOMAIN kinds |->
                  [reg |-> RegOf(i),
                   at |-> IF RegOf(i) # <<>> THEN BpWord(-(ni + nf) + Nth(i, TRUE)) ELSE BpWord(Nth(i, FALSE) + 2)]]]
impl_func_prologue_save_call_regs(p) ==
  LET saved == SelectSeq(SavedArgs(p).args, LAMBDA a : a.reg # <<>>)
  IN [i \in DOMAIN saved |-> Mov(saved[i].at, Reg(saved[i].reg[1]))]
VariadicArea(p) == IF p.variadic THEN 6 + 2 * N_CALL_REGS_F ELSE 0
RegSaveArea(p) == -(SavedArgs(p).words + VariadicArea(p))
impl_func_prologue_save_variadic(p) ==
  IF ~p.variadic THEN <<>>
  ELSE LET n == Len(CallRegs(p.conv))
       IN [k \in 1..Most(0, n - NamedInts(p)) |->
             LET i == NamedInts(p) + k - 1 IN Mov(BpWord(RegSaveArea(p) + i), Reg(CallRegs(p.conv)[i + 1]))]
          \o [k \in 1..N_CALL_REGS_F |-> Op("movf", BpWord(RegSaveArea(p) + 2 * (k - 1) + n), Reg(Xmm(k - 1)))]
impl_func_epilogue(p) ==
  <<Op("leave", <<>>, <<>>), Op("ret", IF x86_caller_cleanup(p.conv) THEN 0 ELSE Len(p.named), <<>>)>>

\* The function's body uses its callee-saved registers and its locals, reads
\* its arguments and may call others; then it returns its value.
NamedPlaces(p) == SubSeq(SavedArgs(p).args, IF IsMemcpy(p) THEN 2 ELSE 1, Len(SavedArgs(p).args))
x86_func_ret_memcpy(p, o) ==
  <<Mov(Reg(RAX), SavedArgs(p).args[1].at)>>
    \o [i \in 1..Words(p.ret) |-> Mov(At(RAX, i - 1), BpWord(-o.max + i - 1))]
x86_func_ret_regs(p, o) == impl_overlay_mem_reg(p.ret, TRUE, -o.max)
impl_to_retreg(p, o) ==
  CASE x86_stret(p.ret) = "memcpy" -> x86_func_ret_memcpy(p, o)
    [] x86_stret(p.ret) = "regs" -> x86_func_ret_regs(p, o)
    [] OTHER -> <<Mov(Reg(IF p.ret.fp THEN Xmm(0) ELSE RAX), Imm(Word("ret", 1)))>>
CalleeOctx(p) ==
  LET args == out_aalloc(NewOctx(p.conv, 0, FALSE), SavedArgs(p).words + VariadicArea(p))
      locals == out_aalloc(args, Most(1, Words(p.ret)))
  IN [locals EXCEPT !.saved = p.uses, !.align = IF p.leaf THEN 1 ELSE 2]
RedZone(p) == p.leaf /\ FrameWords(CalleeOctx(p)) < 16
CalleeCode(p) ==
  LET o == CalleeOctx(p) IN
  <<Op("push bp", <<>>, <<>>)>>
    \o (IF RedZone(p) THEN <<>> ELSE <<AdjustSp(-FrameWords(o))>>)
    \o impl_func_prologue_save_call_regs(p) \o impl_func_prologue_save_variadic(p)
    \o callee_save_or_restore(o, TRUE)
    \o (IF p.variadic THEN <<Op("va_start", <<>>, <<>>)>> ELSE <<>>)
    \o [i \in DOMAIN p.uses |-> Mov(Reg(p.uses[i]), Imm(Junk))]
    \o [i \in 1..Words(p.ret) |-> Mov(BpWord(-o.max + i - 1), Imm(Word("ret", i)))]
    \o (IF p.leaf THEN <<>> ELSE <<Op("other call", <<>>, <<>>)>>)
    \o [i \in DOMAIN p.named |-> Op("see", NamedPlaces(p)[i].at, <<>>)]
    \o [i \in 1..Len(p.given) - Len(p.named) |-> Op("va_arg", Kinds(p)[Len(p.named) + i], <<>>)]
    \o impl_to_retreg(p, o) \o callee_save_or_restore(o, FALSE) \o impl_func_epilogue(p)

(***************************************************************************)
(* The caller: values held across the call, the function and arguments     *)
(* are evaluated in that order, each to a register, a word or a constant.  *)
(***************************************************************************)
ArgWord(i) == Word("arg", i)
Evaluate(o, v, where, fp, x) ==
  LET free == Unused(o, fp, FALSE)
      to == CASE where = "imm" -> Imm(x)
              [] where = "reg" /\ free # {} -> Reg(Low(free))
              [] OTHER -> Spot(out_aalloc(o, 1))
      q == IF to[1] = "bp" THEN out_aalloc(o, 1) ELSE o
  IN [Emit(q, Mov(to, Imm(x))) EXCEPT !.list = Append(@, v), !.vals = [w \in DOMAIN @ \cup {v} |-> IF w = v THEN to ELSE @[w]]]
out_alloca_push(o, n) == Emit(o, AdjustSp(-(n + 1)))
Locals(p) == [i \in 1..p.locals |-> Mov(BpWord(-i), Imm(Word("local", i)))]
Vla(p) == [i \in 1..p.vla |-> Mov(SpWord(i - 1), Imm(Word("vla", i)))]
Evaluated(p) ==
  LET start == FoldLeft(Emit, NewOctx(p.caller, p.locals, p.vla > 0), Locals(p))
      vla == IF p.vla = 0 THEN start ELSE FoldLeft(Emit, out_alloca_push(start, p.vla), Vla(p))
      held == FoldLeft(LAMBDA o, i : Evaluate(o, Held(i), "reg", p.held[i] = "f", Word("held", i)), vla, [i \in DOMAIN p.held |-> i])
      fn == Evaluate(held, Fn, p.fn, FALSE, Word("fn", 0))
  IN FoldLeft(LAMBDA o, i : Evaluate(o, ArgName(i), p.args[i], IsFloat(p, i), ArgWord(i)), fn, [i \in DOMAIN Kinds(p) |-> i])
gen_expr_funcall(p) == impl_call(Evaluated(p), p)
See(places) == [i \in DOMAIN places |-> Op("see", places[i], <<>>)]
CallerOctx(p) == gen_expr_funcall(p).o
\* The array is reached by the pointer that was kept of it.
VlaWord(p, o, i) == BpWord(-(FrameWords(o) + p.vla + 1) + i - 1)
CallerCode(p) ==
  LET gen == gen_expr_funcall(p) IN
  <<AdjustSp(-FrameWords(gen.o))>> \o callee_save_or_restore(gen.o, TRUE) \o gen.o.code
    \o See(gen.result) \o See([i \in DOMAIN p.held |-> gen.o.vals[Held(i)]])
    \o See([i \in 1..p.locals |-> BpWord(-i)]) \o See([i \in 1..p.vla |-> VlaWord(p, gen.o, i)])
    \o callee_save_or_restore(gen.o, FALSE)

(***************************************************************************)
(* Running it.                                                             *)
(***************************************************************************)
Run == Head(code)
Next1 == code' = Tail(code)
Move ==
  /\ code # <<>> /\ Run.o \in {"mov", "movf", "lea"}
  /\ Next1
  /\ LET x == IF Run.o = "lea" THEN Word("addr", Addr(Run.s)) ELSE Read(Run.s)
         skip == Run.o = "movf" /\ regs[RAX] = Word("n", 0)
     IN CASE skip -> UNCHANGED <<regs, mem>>
          [] Run.d[1] = "reg" -> regs' = [regs EXCEPT ![Run.d[2]] = x] /\ UNCHANGED mem
          [] Run.d[1] = "imm" \/ Wild(Run.d) -> UNCHANGED <<regs, mem>>
          [] OTHER -> mem' = [mem EXCEPT ![Addr(Run.d)] = x] /\ UNCHANGED regs
  /\ UNCHANGED <<prog, va, seen>>
SpWith(n) == Word("addr", n)
MoveSp ==
  /\ code # <<>> /\ Run.o = "sp"
  /\ Next1
  /\ regs' = [regs EXCEPT ![SP] = SpWith(@[2] + Run.d)]
  /\ UNCHANGED <<prog, mem, va, seen>>
\* Words below sp are lost to whoever is called next.
Below(sp) == [a \in Stack |-> IF a < sp THEN Junk ELSE mem[a]]
Call ==
  /\ code # <<>> /\ Run.o = "call"
  /\ code' = CalleeCode(prog) \o Tail(code)
  /\ LET sp == regs[SP][2] - 1 IN
     /\ mem' = [Below(sp) EXCEPT ![sp] = Word("return", 0)]
     /\ regs' = [regs EXCEPT ![SP] = SpWith(sp)]
  /\ UNCHANGED <<prog, va, seen>>
impl_func_prologue_save_fp ==
  /\ code # <<>> /\ Run.o = "push bp"
  /\ Next1
  /\ LET sp == regs[SP][2] - 1 IN
     /\ mem' = [mem EXCEPT ![sp] = regs[BP]]
     /\ regs' = [regs EXCEPT ![SP] = SpWith(sp), ![BP] = SpWith(sp)]
  /\ UNCHANGED <<prog, va, seen>>
\* A function of its own convention that the callee calls loses every scratch register and the words below sp.
OtherCall ==
  /\ code # <<>> /\ Run.o = "other call"
  /\ Next1
  /\ mem' = Below(regs[SP][2])
  /\ regs' = [r \in DOMAIN regs |-> IF r \in {BP, SP} \cup Kept(prog.conv) THEN regs[r] ELSE Junk]
  /\ UNCHANGED <<prog, va, seen>>
Leave ==
  /\ code # <<>> /\ Run.o = "leave"
  /\ Next1
  /\ regs' = [regs EXCEPT ![SP] = SpWith(regs[BP][2] + 1), ![BP] = mem[regs[BP][2]]]
  /\ UNCHANGED <<prog, mem, va, seen>>
Return ==
  /\ code # <<>> /\ Run.o = "ret"
  /\ Next1
  /\ LET scratch == (IntRegs \cup FloatRegs) \ Kept(prog.conv)
         results == {RAX, RDX, Xmm(0), Xmm(1)}
     IN regs' = [r \in DOMAIN regs |-> CASE r = SP -> SpWith(regs[SP][2] + 1 + Run.d)
                                          [] r \in scratch \ results -> Junk
                                          [] OTHER -> regs[r]]
  /\ UNCHANGED <<prog, mem, va, seen>>
ReadPlace ==
  /\ code # <<>> /\ Run.o = "see"
  /\ Next1
  /\ seen' = Append(seen, Read(Run.d))
  /\ UNCHANGED <<prog, regs, mem, va>>
fold_va_start ==
  /\ code # <<>> /\ Run.o = "va_start"
  /\ Next1
  /\ va' = [gp |-> NamedInts(prog), fp |-> 6 + NamedFloats(prog),
            save |-> regs[BP][2] + RegSaveArea(prog), overflow |-> regs[BP][2] + 2]
  /\ UNCHANGED <<prog, regs, mem, seen>>

va_arg_gen_read ==
  /\ code # <<>> /\ Run.o = "va_arg"
  /\ Next1
  /\ LET fp == Run.d = "f"
         off == IF fp THEN va.fp ELSE va.gp
         inRegs == off < 6 + (IF fp THEN 32 ELSE 0)
         at == IF inRegs THEN va.save + off ELSE va.overflow
     IN /\ seen' = Append(seen, IF at \in Stack THEN mem[at] ELSE Junk)
        /\ va' = CASE inRegs /\ fp -> [va EXCEPT !.fp = @ + 2]
                   [] inRegs /\ ~fp -> [va EXCEPT !.gp = @ + 1]
                   [] OTHER -> [va EXCEPT !.overflow = @ + 1]
  /\ UNCHANGED <<prog, regs, mem>>

\* The caller starts with its frame pointer set, at an aligned word.
Base == StackTop - 8
Init ==
  /\ prog \in Programs
  /\ code = IF check_arg_counts(prog) THEN <<>> ELSE CallerCode(prog)
  /\ regs = [r \in IntRegs \cup {BP, SP} \cup FloatRegs |->
               IF r \in {BP, SP} THEN SpWith(Base) ELSE IF r \in Kept(prog.caller) THEN Word("caller's", r) ELSE Junk]
  /\ mem = [a \in Stack |-> Junk]
  /\ va = [gp |-> 0, fp |-> 0, save |-> 0, overflow |-> 0]
  /\ seen = <<>>

Next ==
  \/ Move
  \/ MoveSp
  \/ Call
  \/ impl_func_prologue_save_fp
  \/ OtherCall
  \/ Leave
  \/ Return
  \/ ReadPlace
  \/ fold_va_start
  \/ va_arg_gen_read
Spec == Init /\ [][Next]_vars

(***************************************************************************)
(* Properties.                                                             *)
(***************************************************************************)
\* What the program reads: the function its arguments, named and variadic,
\* then the caller the result, what it held across the call, and its locals.
Expected(p) ==
  [i \in DOMAIN Kinds(p) |-> ArgWord(i)]
    \o [i \in 1..Most(1, Words(p.ret)) |-> Word("ret", i)]
    \o [i \in DOMAIN p.held |-> Word("held", i)]
    \o [i \in 1..p.locals |-> Word("local", i)]
    \o [i \in 1..p.vla |-> Word("vla", i)]

\* Known to be wrong: a call to a function of a convention that keeps less
\* than the caller's loses what the caller leaves in those registers.
Lost(p) == CalleeSaves(p.caller) \ Kept(p.conv)
LostHeld(p) ==
  {i \in DOMAIN p.held : LET at == CallerOctx(p).vals[Held(i)] IN at[1] = "reg" /\ at[2] \in Lost(p)}
FirstHeld(p) == Len(p.given) + Most(1, Words(p.ret))

\* Known to be wrong: a callee that takes its arguments off the stack takes a
\* word for each of them, where the caller stored only those without a
\* register, padded if it has a variable-length array.
PopsOther(p) ==
  LET n == StackWords(p)
  IN  ~x86_caller_cleanup(p.conv) /\ Len(p.named) # (IF p.vla > 0 THEN Even(n) ELSE n)

\* Every value arrives: impl_call's moves between registers that hold each
\* other's arguments, its stack words, the prologue's saves and va_arg's
\* walk deliver what was evaluated, the function called is the one evaluated,
\* and nothing the caller keeps in registers, locals or spills is overwritten
\* by the call.
ValuesArrive ==
  /\ Len(seen) <= Len(Expected(prog))
  /\ \A k \in DOMAIN seen :
       seen[k] # Expected(prog)[k] => k - FirstHeld(prog) \in LostHeld(prog)
  /\ code = <<>> /\ ~check_arg_counts(prog) => Len(seen) = Len(Expected(prog))
  /\ code # <<>> /\ Run.o = "call" => Read(Run.d) = Word("fn", 0)

\* The stack is a multiple of 16 bytes at each call ("the stack must be
\* aligned correctly for a call", out_call).
AlignedAtCall == code # <<>> /\ Run.o = "call" => regs[SP][2] % 2 = 0

\* Each call is aligned, and once the caller is done its stack and frame
\* pointers and the registers it has to keep are as it found them, whoever
\* takes the arguments off the stack.
FrameKept ==
  /\ AlignedAtCall
  /\ code = <<>> /\ ~check_arg_counts(prog) =>
       /\ regs[BP] = SpWith(Base)
       /\ PopsOther(prog) \/
            regs[SP] = SpWith(Base - FrameWords(CallerOctx(prog)) - (IF prog.vla > 0 THEN prog.vla + 1 ELSE 0))
       /\ \A r \in Kept(prog.caller) :
            regs[r] = Word("caller's", r) \/ r \in Lost(prog) \ Range(CallerOctx(prog).saved)
==============================================================================

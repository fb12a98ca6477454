------------------------------ MODULE BlkFlush ------------------------------
(***************************************************************************)
(* The basic-block graph of one function and its emission as linear code:  *)
(* src/cc1/out/blk.c, and the terminators of src/cc1/out/ctrl.c.           *)
(*                                                                         *)
(* While a function is generated, blocks are created, made current, and    *)
(* terminated by a jump, a conditional jump, a computed jump or a dead     *)
(* end.  out_func_epilogue then calls blk_flushall, which marks the        *)
(* reachable blocks and walks them (bfs_block), writing each block's       *)
(* label and instructions and as few jumps as it can: a jump is left       *)
(* pending in flush_state.jmpto and only written when the next block       *)
(* written is not its target.                                              *)
(*                                                                         *)
(* The recursion of bfs_block is the stack of calls still to be made.      *)
(***************************************************************************)
EXTENDS Naturals, Sequences, FiniteSets, FiniteSetsExt, SequencesExt

CONSTANTS
  Blocks,         (* the blocks of the function                            *)
  Entry,          (* the flush root: entry_blk, or postprologue_blk        *)
  Epilogue,       (* epilogue_blk                                          *)
  NoBlk,          (* the null pointer                                      *)
  ThreadJumps,    (* -fthread-jumps                                        *)
  DumpBblocks,    (* -fdump-bblocks                                        *)
  JMP_THREAD_LIM, (* blk.c: 10                                             *)
  MaxMustgen,     (* bound: address-taken labels                           *)
  MaxConds,       (* bound: conditional blocks                             *)
  MaxDead         (* bound: transfers out of unreachable code              *)

ASSUME BlkAssumption ==
  /\ Entry \in Blocks /\ Epilogue \in Blocks /\ Entry # Epilogue
  /\ NoBlk \notin Blocks
  /\ ThreadJumps \in BOOLEAN /\ DumpBblocks \in BOOLEAN
  /\ JMP_THREAD_LIM \in Nat
  /\ MaxMustgen \in Nat /\ MaxConds \in Nat /\ MaxDead \in Nat

VARIABLES
  type,           (* out_blk.type                                          *)
  next,           (* bits.next of a BLK_NEXT_BLOCK, bits.cond.if_1_blk of  *)
                  (* a BLK_COND: where control goes without a jump taken   *)
  if_0,           (* bits.cond.if_0_blk: the target of the conditional     *)
  unlikely,       (* bits.cond.unlikely                                    *)
  insns,          (* does the block hold any instruction?                  *)
  merge_preds,    (* out_blk.merge_preds, in the order added               *)
  mustgen,        (* out_ctx.mustgen                                       *)
  current_blk, last_used_blk,
  phase,          (* "gen", "flush" or "done"                              *)
  reachable,      (* blocks with .reachable set                            *)
  emitted,        (* blocks with .emitted set                              *)
  calls,          (* pending calls: bfs_block(b), or what follows the      *)
                  (* merge_preds loop inside bfs_block(b)                  *)
  jmpto,          (* flush_state.jmpto                                     *)
  to, lim,        (* the locals of blk_jmpthread; NoBlk when not inside it *)
  code            (* what has been written: labelled blocks and jumps      *)

graph == <<type, next, if_0, unlikely, insns, merge_preds, mustgen>>
genVars == <<current_blk, last_used_blk>>
flushVars == <<reachable, emitted, calls, jmpto, to, lim, code>>
vars == <<graph, genVars, phase, flushVars>>

BlkType == {"uninit", "terminal", "next_block", "next_expr", "cond"}
BlkOrNull == Blocks \cup {NoBlk}
Call == [op : {"bfs", "gen"}, blk : Blocks]
Item == [op : {"blk", "jmp"}, blk : Blocks]

TypeOK ==
  /\ type \in [Blocks -> BlkType]
  /\ next \in [Blocks -> BlkOrNull]
  /\ if_0 \in [Blocks -> BlkOrNull]
  /\ unlikely \in [Blocks -> BOOLEAN]
  /\ insns \in [Blocks -> BOOLEAN]
  /\ merge_preds \in [Blocks -> Seq(Blocks)]
  /\ mustgen \in Seq(Blocks)
  /\ current_blk \in BlkOrNull
  /\ last_used_blk \in Blocks
  /\ phase \in {"gen", "flush", "done"}
  /\ reachable \subseteq Blocks
  /\ emitted \subseteq Blocks
  /\ calls \in Seq(Call)
  /\ jmpto \in BlkOrNull
  /\ to \in BlkOrNull /\ lim \in 0..JMP_THREAD_LIM
  /\ code \in Seq(Item)

-----------------------------------------------------------------------------
(* Generation: the calls the statement generators make.                    *)

Init ==
  /\ type = [b \in Blocks |-> "uninit"]
  /\ next = [b \in Blocks |-> NoBlk]
  /\ if_0 = [b \in Blocks |-> NoBlk]
  /\ unlikely = [b \in Blocks |-> FALSE]
  /\ insns = [b \in Blocks |-> FALSE]
  /\ merge_preds = [b \in Blocks |-> << >>]
  /\ mustgen = << >>
  /\ current_blk = Entry
  /\ last_used_blk = Entry
  /\ phase = "gen"
  /\ reachable = {}
  /\ emitted = {}
  /\ calls = << >>
  /\ jmpto = NoBlk
  /\ to = NoBlk /\ lim = 0
  /\ code = << >>

(* A block is made current to be filled and terminated; the epilogue block *)
(* only once everything else is generated (see FlushAll).                  *)
OutCurrentBlk(b) ==
  /\ phase = "gen"
  /\ type[b] = "uninit" /\ b # Epilogue /\ current_blk = NoBlk
  /\ current_blk' = b
  /\ last_used_blk' = b
  /\ UNCHANGED <<graph, phase, flushVars>>

(* A computed goto, or an asm label, keeps a block: &&label.               *)
OutBlkMustgen(b) ==
  /\ phase = "gen"
  /\ Len(mustgen) < MaxMustgen
  /\ mustgen' = Append(mustgen, b)
  /\ UNCHANGED <<type, next, if_0, unlikely, insns, merge_preds>>
  /\ UNCHANGED <<genVars, phase, flushVars>>

OfType(t) == {b \in Blocks : type[b] = t}
DeadTransfers == MapThenSumSet(LAMBDA b : Len(merge_preds[b]), Blocks)
                   - Cardinality(OfType("next_block"))

(* The predecessor a transfer records: the last block used if this one is  *)
(* unreachable.                                                            *)
MergePred == IF current_blk = NoBlk THEN last_used_blk ELSE current_blk

(* out_ctrl_transfer: to->merge_preds grows even when the code is dead.    *)
OutCtrlTransfer(dest, filled) ==
  /\ phase = "gen"
  /\ current_blk = NoBlk => DeadTransfers < MaxDead
  /\ LET from == current_blk
     IN /\ merge_preds' = [merge_preds EXCEPT ![dest] = Append(@, MergePred)]
        /\ IF from = NoBlk
           THEN ~filled /\ UNCHANGED <<type, next, insns>>
           ELSE /\ type' = [type EXCEPT ![from] = "next_block"]
                /\ next' = [next EXCEPT ![from] = dest]
                /\ insns' = [insns EXCEPT ![from] = filled]
  /\ current_blk' = NoBlk
  /\ UNCHANGED <<if_0, unlikely, mustgen, last_used_blk, phase, flushVars>>

(* blk_terminate_condjmp, called by impl_branch after a test or compare.   *)
BlkTerminateCondjmp(condto, uncondto, unl) ==
  /\ phase = "gen" /\ current_blk # NoBlk
  /\ Cardinality(OfType("cond")) < MaxConds
  /\ type' = [type EXCEPT ![current_blk] = "cond"]
  /\ if_0' = [if_0 EXCEPT ![current_blk] = condto]
  /\ next' = [next EXCEPT ![current_blk] = uncondto]
  /\ unlikely' = [unlikely EXCEPT ![current_blk] = unl]
  /\ insns' = [insns EXCEPT ![current_blk] = TRUE]
  /\ current_blk' = NoBlk
  /\ UNCHANGED <<merge_preds, mustgen, last_used_blk, phase, flushVars>>

(* out_ctrl_transfer_exp and out_ctrl_end_undefined: jmp *expr, ud2.       *)
OutCtrlEnd(kind) ==
  /\ phase = "gen" /\ current_blk # NoBlk
  /\ type' = [type EXCEPT ![current_blk] = kind]
  /\ insns' = [insns EXCEPT ![current_blk] = TRUE]
  /\ current_blk' = NoBlk
  /\ UNCHANGED <<next, if_0, unlikely, merge_preds, mustgen, last_used_blk>>
  /\ UNCHANGED <<phase, flushVars>>

-----------------------------------------------------------------------------
(* Flushing.                                                               *)

Succs(b) ==
  CASE type[b] = "next_block" -> {next[b]}
    [] type[b] = "cond"       -> {next[b], if_0[b]}
    [] OTHER                  -> {}

(* mark_reachable_blocks, and dot_block, which follows the same edges.     *)
Closed(S) == \A b \in S : Succs(b) \subseteq S
ReachableFrom(roots) ==
  {b \in Blocks : \A S \in SUBSET Blocks :
                    roots \subseteq S /\ Closed(S) => b \in S}

Bfs(b) == [op |-> "bfs", blk |-> b]
Gen(b) == [op |-> "gen", blk |-> b]
BfsEach(s) == [i \in 1..Len(s) |-> Bfs(s[i])]

(* out_func_epilogue: the last block falls into the epilogue, whose ret    *)
(* makes it terminal; blk_flushall then starts on the root, the mustgen    *)
(* blocks after it.  The generators terminate every block they jump to.    *)
(* -fdump-bblocks first prints the graph, marking what it prints emitted.  *)
FlushAll ==
  /\ phase = "gen" /\ current_blk = NoBlk
  /\ LET ty == [type EXCEPT ![Epilogue] = "terminal"]
     IN /\ type' = ty
        /\ insns' = [insns EXCEPT ![Epilogue] = TRUE]
        /\ \A b \in Blocks : Succs(b) \subseteq {c \in Blocks : ty[c] # "uninit"}
        /\ \A b \in ToSet(mustgen) \cup {Entry} : ty[b] # "uninit"
  /\ emitted' = IF DumpBblocks THEN ReachableFrom({Entry}) ELSE {}
  /\ reachable' = ReachableFrom({Entry} \cup ToSet(mustgen))
  /\ calls' = <<Bfs(Entry)>> \o BfsEach(mustgen)
  /\ phase' = "flush"
  /\ UNCHANGED <<next, if_0, unlikely, merge_preds, mustgen, genVars>>
  /\ UNCHANGED <<jmpto, to, lim, code>>

(* bfs_block returns at once for these; the faulty form has no reachable   *)
(* test, and another does not step past a block it need not write.         *)
SkipBlk_EmittedOnly(b) == b \in emitted
AfterSkip_Same == calls

SkipBlk(b) == b \in emitted \/ b \notin reachable
AfterSkip == Tail(calls)

(* bfs_block up to the end of its merge_preds loop.                        *)
BfsBlock ==
  /\ phase = "flush" /\ calls # << >> /\ Head(calls).op = "bfs"
  /\ LET b == Head(calls).blk IN
       IF SkipBlk(b)
       THEN calls' = AfterSkip /\ UNCHANGED emitted
       ELSE /\ emitted' = emitted \cup {b}
            /\ calls' = BfsEach(merge_preds[b]) \o (<<Gen(b)>> \o Tail(calls))
  /\ UNCHANGED <<graph, genVars, phase, reachable, jmpto, to, lim, code>>

Generating(b) == phase = "flush" /\ calls # << >> /\ Head(calls) = Gen(b)

(* blk_codegen: the pending jump must be written before b unless b is its  *)
(* target.  The faulty form always takes the block before to fall through. *)
NeedsJump_Never(b) == FALSE

NeedsJump(b) == jmpto \notin {NoBlk, b}

(* blk_jmpthread: follow blocks that hold nothing but a jump, at most      *)
(* JMP_THREAD_LIM of them, and jump there.                                 *)
ThreadOn == ThreadJumps /\ ~insns[to] /\ type[to] = "next_block" /\ lim < JMP_THREAD_LIM

JmpThread(b) ==
  /\ Generating(b) /\ NeedsJump(b) /\ to = NoBlk
  /\ to' = jmpto /\ lim' = 0
  /\ UNCHANGED <<graph, genVars, phase, reachable, emitted, calls, jmpto, code>>

JmpThreadStep ==
  /\ to # NoBlk /\ ThreadOn
  /\ to' = next[to] /\ lim' = lim + 1
  /\ UNCHANGED <<graph, genVars, phase, reachable, emitted, calls, jmpto, code>>

ImplJmp ==
  /\ to # NoBlk /\ ~ThreadOn
  /\ code' = Append(code, [op |-> "jmp", blk |-> to])
  /\ jmpto' = NoBlk /\ to' = NoBlk
  /\ UNCHANGED <<graph, genVars, phase, reachable, emitted, calls, lim>>

BfsNext_NotIf0(b) ==
  IF type[b] \in {"next_block", "cond"} THEN <<Bfs(next[b])>> ELSE << >>

(* The calls bfs_block makes after blk_codegen, by the block's type.       *)
BfsNext(b) ==
  CASE type[b] = "next_block" -> <<Bfs(next[b])>>
    [] type[b] = "cond" -> IF unlikely[b] THEN <<Bfs(if_0[b]), Bfs(next[b])>>
                                          ELSE <<Bfs(next[b]), Bfs(if_0[b])>>
    [] OTHER -> << >>

(* The rest of bfs_block: codegen, blk_jmpnext, the recursive calls.       *)
BlkCodegen(b) ==
  /\ Generating(b) /\ ~NeedsJump(b)
  /\ code' = Append(code, [op |-> "blk", blk |-> b])
  /\ jmpto' = IF type[b] \in {"next_block", "cond"} THEN next[b] ELSE NoBlk
  /\ calls' = BfsNext(b) \o Tail(calls)
  /\ UNCHANGED <<graph, genVars, phase, reachable, emitted, to, lim>>

(* The end of blk_flushall: a jump still pending is written as it is.      *)
FlushEnd ==
  /\ phase = "flush" /\ calls = << >>
  /\ code' = IF jmpto = NoBlk THEN code
             ELSE Append(code, [op |-> "jmp", blk |-> jmpto])
  /\ phase' = "done"
  /\ UNCHANGED <<graph, genVars, reachable, emitted, calls, jmpto, to, lim>>

Done == phase = "done" /\ UNCHANGED vars

Next ==
  \/ \E b \in Blocks : OutCurrentBlk(b) \/ OutBlkMustgen(b)
  \/ \E b \in Blocks, f \in BOOLEAN : OutCtrlTransfer(b, f)
  \/ \E b, c \in Blocks, u \in BOOLEAN : BlkTerminateCondjmp(b, c, u)
  \/ \E k \in {"next_expr", "terminal"} : OutCtrlEnd(k)
  \/ \E b \in Blocks : JmpThread(b) \/ BlkCodegen(b)
  \/ JmpThreadStep \/ ImplJmp
  \/ FlushAll \/ BfsBlock \/ FlushEnd \/ Done

Spec == Init /\ [][Next]_vars

(* blk_flushall is one sequential call: once begun it keeps running.       *)
FairSpec == Spec /\ WF_vars(phase = "flush" /\ Next)

-----------------------------------------------------------------------------
(* Properties.                                                             *)

FallsThrough(b) == type[b] \in {"next_block", "cond"}

(* b leads to t through blocks that do nothing but jump.                   *)
LeadsThroughEmpty(b, t) ==
  \A S \in SUBSET Blocks :
    b \in S /\ (\A c \in S : ~insns[c] /\ type[c] = "next_block" => next[c] \in S)
      => t \in S

Labelled(b) == \E i \in DOMAIN code : code[i] = [op |-> "blk", blk |-> b]

(* Control leaves every written block for the successor its terminator     *)
(* names: what follows a block that does not end in a jump of its own is   *)
(* that successor's label, or a jump to it (possibly threaded), or, for    *)
(* the last block written while flushing, the pending jmpto.               *)
FlowPreserved ==
  \A i \in DOMAIN code :
    code[i].op = "blk" /\ FallsThrough(code[i].blk) =>
      LET succ == next[code[i].blk] IN
      IF i = Len(code) THEN phase = "flush" /\ jmpto = succ
      ELSE \/ code[i+1] = [op |-> "blk", blk |-> succ]
           \/ code[i+1].op = "jmp" /\ LeadsThroughEmpty(succ, code[i+1].blk)

(* A block is written at most once, so its label is defined at most once,  *)
(* and only blocks that can be reached are written or jumped to.           *)
LabelsDefinedOnce ==
  /\ \A i, j \in DOMAIN code :
       code[i].op = "blk" /\ code[i] = code[j] => i = j
  /\ \A i \in DOMAIN code : code[i].blk \in reachable

(* When the flush ends every block control can reach is written: with that *)
(* every label a jump, a conditional or a computed jump names is defined,  *)
(* and no code of the function is lost, which a dump option ("frontend     *)
(* output" in fopts.h) must not change.                                    *)
ReachableWritten == phase = "done" => \A b \in reachable : Labelled(b)

(* blk_flushall returns, whatever the graph.                               *)
FlushTerminates == (phase = "flush") ~> (phase = "done")
=============================================================================

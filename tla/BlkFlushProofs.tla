--------------------------- MODULE BlkFlushProofs ---------------------------
(***************************************************************************)
(* What BlkFlush guarantees of every block graph, proved.                  *)
(***************************************************************************)
EXTENDS BlkFlush, TLAPS

(* A terminator that names a successor names a block.                      *)
EdgesOK ==
  \A b \in Blocks :
    /\ type[b] \in {"next_block", "cond"} => next[b] \in Blocks
    /\ type[b] = "cond" => if_0[b] \in Blocks

TypeInv == TypeOK /\ EdgesOK

-----------------------------------------------------------------------------
(* Facts about sequences, and about sequences of calls.                    *)

LEMMA HeadTail ==
  ASSUME NEW S, NEW s \in Seq(S), s # << >>
  PROVE Head(s) \in S /\ Tail(s) \in Seq(S)
  OBVIOUS

LEMMA ConcatSeq ==
  ASSUME NEW S, NEW s \in Seq(S), NEW t \in Seq(S)
  PROVE s \o t \in Seq(S)
  OBVIOUS

LEMMA SingleSeq == \A S : \A x \in S : <<x>> \in Seq(S)
  OBVIOUS

LEMMA AppendSeq ==
  ASSUME NEW S, NEW s \in Seq(S), NEW x \in S
  PROVE Append(s, x) \in Seq(S)
  OBVIOUS

LEMMA CallType ==
  /\ \A b \in Blocks : Bfs(b) \in Call /\ Gen(b) \in Call
  /\ \A c \in Call : c.blk \in Blocks
  /\ \A b : Bfs(b).blk = b /\ Gen(b).blk = b /\ Bfs(b).op = "bfs" /\ Gen(b).op = "gen"
  BY DEF Bfs, Gen, Call

LEMMA ItemType == \A x \in Item : x.blk \in Blocks
  BY DEF Item

LEMMA SeqElt == \A S : \A s \in Seq(S) : \A i \in DOMAIN s : s[i] \in S
  OBVIOUS

LEMMA BfsCalls ==
  ASSUME NEW s \in Seq(Blocks)
  PROVE BfsEach(s) \in Seq(Call)
<1>1. \A i \in 1..Len(s) : Bfs(s[i]) \in Call
  BY CallType
<1> QED BY <1>1 DEF BfsEach

LEMMA BfsNextCalls ==
  ASSUME NEW b \in Blocks, TypeInv
  PROVE BfsNext(b) \in Seq(Call)
<1> DEFINE n == Bfs(next[b])
           z == Bfs(if_0[b])
<1>1. CASE type[b] = "next_block"
  <2>1. n \in Call
    BY <1>1, CallType DEF TypeInv, EdgesOK
  <2> QED BY <1>1, <2>1 DEF BfsNext
<1>2. CASE type[b] = "cond"
  <2>1. n \in Call /\ z \in Call
    BY <1>2, CallType DEF TypeInv, EdgesOK
  <2>2. <<n, z>> \in Seq(Call) /\ <<z, n>> \in Seq(Call)
    <3> HIDE DEF n, z
    <3> QED BY <2>1
  <2> QED BY <1>2, <2>2 DEF BfsNext
<1>3. CASE type[b] \notin {"next_block", "cond"}
  BY <1>3 DEF BfsNext
<1> QED BY <1>1, <1>2, <1>3

LEMMA ReachableBlocks == \A R : ReachableFrom(R) \subseteq Blocks
  BY DEF ReachableFrom

-----------------------------------------------------------------------------
(* Type correctness.                                                       *)

LEMMA TypeInit == Init => TypeInv
  BY BlkAssumption
  DEF Init, TypeInv, TypeOK, EdgesOK, BlkType, BlkOrNull

(* The steps that build the graph.                                         *)
LEMMA TypeGen ==
  ASSUME TypeInv
  PROVE /\ \A b \in Blocks : OutCurrentBlk(b) \/ OutBlkMustgen(b) => TypeInv'
        /\ \A b \in Blocks, f \in BOOLEAN : OutCtrlTransfer(b, f) => TypeInv'
        /\ \A b, c \in Blocks, u \in BOOLEAN :
              BlkTerminateCondjmp(b, c, u) => TypeInv'
        /\ \A k \in {"next_expr", "terminal"} : OutCtrlEnd(k) => TypeInv'
<1> USE BlkAssumption DEF TypeInv, TypeOK, EdgesOK, BlkType, BlkOrNull
<1>1. ASSUME NEW b \in Blocks, OutCurrentBlk(b) PROVE TypeInv'
  BY <1>1 DEF OutCurrentBlk, graph, flushVars
<1>2. ASSUME NEW b \in Blocks, OutBlkMustgen(b) PROVE TypeInv'
  BY <1>2 DEF OutBlkMustgen, genVars, flushVars
<1>3. ASSUME NEW b \in Blocks, NEW f \in BOOLEAN, OutCtrlTransfer(b, f)
      PROVE TypeInv'
  <2>1. MergePred \in Blocks
    BY DEF MergePred
  <2>2. merge_preds' \in [Blocks -> Seq(Blocks)]
    BY <1>3, <2>1 DEF OutCtrlTransfer
  <2>3. CASE current_blk = NoBlk
    BY <1>3, <2>2, <2>3 DEF OutCtrlTransfer, flushVars
  <2>4. CASE current_blk # NoBlk
    <3>1. /\ type' = [type EXCEPT ![current_blk] = "next_block"]
          /\ next' = [next EXCEPT ![current_blk] = b]
          /\ insns' = [insns EXCEPT ![current_blk] = f]
      BY <1>3, <2>4 DEF OutCtrlTransfer
    <3>2. /\ type' \in [Blocks -> BlkType] /\ next' \in [Blocks -> BlkOrNull]
          /\ insns' \in [Blocks -> BOOLEAN]
      BY <3>1
    <3> QED BY <1>3, <2>2, <3>1, <3>2 DEF OutCtrlTransfer, flushVars
  <2> QED BY <2>3, <2>4
<1>4. ASSUME NEW b \in Blocks, NEW c \in Blocks, NEW u \in BOOLEAN,
             BlkTerminateCondjmp(b, c, u)
      PROVE TypeInv'
  BY <1>4 DEF BlkTerminateCondjmp, flushVars
<1>5. ASSUME NEW k \in {"next_expr", "terminal"}, OutCtrlEnd(k) PROVE TypeInv'
  BY <1>5 DEF OutCtrlEnd, flushVars
<1> HIDE DEF TypeInv
<1> QED BY <1>1, <1>2, <1>3, <1>4, <1>5

(* The steps that flush it leave the graph alone.                          *)
LEMMA TypeFlush ==
  ASSUME TypeInv, UNCHANGED <<graph, genVars>>,
         phase' \in {"gen", "flush", "done"}, reachable' \subseteq Blocks,
         emitted' \subseteq Blocks, calls' \in Seq(Call), jmpto' \in BlkOrNull,
         to' \in BlkOrNull, lim' \in 0..JMP_THREAD_LIM, code' \in Seq(Item)
  PROVE TypeInv'
  BY DEF TypeInv, TypeOK, EdgesOK, graph, genVars

LEMMA TypeNext ==
  ASSUME TypeInv, [Next]_vars
  PROVE TypeInv'
<1>0. /\ phase \in {"gen", "flush", "done"} /\ reachable \subseteq Blocks
      /\ emitted \subseteq Blocks /\ calls \in Seq(Call) /\ jmpto \in BlkOrNull
      /\ to \in BlkOrNull /\ lim \in 0..JMP_THREAD_LIM /\ code \in Seq(Item)
      /\ merge_preds \in [Blocks -> Seq(Blocks)] /\ mustgen \in Seq(Blocks)
  BY DEF TypeInv, TypeOK
<1>6. CASE FlushAll
  <2>1. BfsEach(mustgen) \in Seq(Call) /\ <<Bfs(Entry)>> \in Seq(Call)
    BY <1>0, BfsCalls, CallType, SingleSeq, BlkAssumption
  <2>2. calls' \in Seq(Call)
    BY <1>6, <2>1, ConcatSeq DEF FlushAll
  <2>3. reachable' \subseteq Blocks /\ emitted' \subseteq Blocks
    BY <1>6, ReachableBlocks DEF FlushAll
  <2>4. /\ type' \in [Blocks -> BlkType] /\ insns' \in [Blocks -> BOOLEAN]
        /\ \A b \in Blocks : type'[b] \in {"next_block", "cond"} => type'[b] = type[b]
    BY <1>6, BlkAssumption DEF FlushAll, TypeInv, TypeOK, BlkType
  <2> QED BY <1>0, <1>6, <2>2, <2>3, <2>4
          DEF FlushAll, genVars, TypeInv, TypeOK, EdgesOK
<1>7. CASE BfsBlock
  <2> DEFINE b == Head(calls).blk
  <2>1. b \in Blocks /\ Tail(calls) \in Seq(Call)
    BY <1>0, <1>7, HeadTail, CallType DEF BfsBlock
  <2>2. BfsEach(merge_preds[b]) \in Seq(Call) /\ <<Gen(b)>> \in Seq(Call)
    BY <1>0, <2>1, BfsCalls, CallType, SingleSeq
  <2>3. BfsEach(merge_preds[b]) \o (<<Gen(b)>> \o Tail(calls)) \in Seq(Call)
    BY <2>1, <2>2, ConcatSeq
  <2>4. calls' \in Seq(Call) /\ emitted' \subseteq Blocks
    BY <1>0, <1>7, <2>1, <2>3 DEF BfsBlock, AfterSkip
  <2> QED BY <1>0, <1>7, <2>4, TypeFlush DEF BfsBlock
<1>8. ASSUME NEW b \in Blocks, JmpThread(b) PROVE TypeInv'
  BY <1>0, <1>8, TypeFlush, BlkAssumption DEF JmpThread
<1>9. ASSUME NEW b \in Blocks, BlkCodegen(b) PROVE TypeInv'
  <2>1. Tail(calls) \in Seq(Call)
    BY <1>0, <1>9, HeadTail DEF BlkCodegen, Generating
  <2>2. calls' \in Seq(Call)
    BY <1>9, <2>1, BfsNextCalls, ConcatSeq DEF BlkCodegen
  <2>3. jmpto' \in BlkOrNull
    BY <1>9 DEF BlkCodegen, TypeInv, EdgesOK, BlkOrNull
  <2>4. code' \in Seq(Item)
    BY <1>0, <1>9, AppendSeq DEF BlkCodegen, Item
  <2> QED BY <1>0, <1>9, <2>2, <2>3, <2>4, TypeFlush DEF BlkCodegen
<1>10. CASE JmpThreadStep
  <2>1. to' \in BlkOrNull
    BY <1>0, <1>10 DEF JmpThreadStep, ThreadOn, TypeInv, EdgesOK, BlkOrNull
  <2>2. lim' \in 0..JMP_THREAD_LIM
    BY <1>0, <1>10, BlkAssumption DEF JmpThreadStep, ThreadOn
  <2> QED BY <1>0, <1>10, <2>1, <2>2, TypeFlush DEF JmpThreadStep
<1>11. CASE ImplJmp
  <2>1. code' \in Seq(Item)
    BY <1>0, <1>11, AppendSeq DEF ImplJmp, Item, BlkOrNull
  <2> QED BY <1>0, <1>11, <2>1, TypeFlush DEF ImplJmp, BlkOrNull
<1>12. CASE FlushEnd
  <2>1. code' \in Seq(Item)
    BY <1>0, <1>12, AppendSeq DEF FlushEnd, Item, BlkOrNull
  <2> QED BY <1>0, <1>12, <2>1, TypeFlush DEF FlushEnd
<1>13. CASE UNCHANGED vars
  BY <1>0, <1>13, TypeFlush DEF vars, flushVars
<1> QED
  BY <1>6, <1>7, <1>8, <1>9, <1>10, <1>11, <1>12, <1>13, TypeGen DEF Next, Done

(* blk_flushall and the generators keep the graph well formed: every block *)
(* a predecessor list or the flush names exists, a block that goes to a    *)
(* block has one to go to and a conditional one has two, whatever          *)
(* terminator it gets and when.                                            *)
THEOREM TypeCorrect == Spec => [](TypeOK /\ EdgesOK)
<1>1. TypeInv => TypeOK /\ EdgesOK
  BY DEF TypeInv
<1> QED BY <1>1, TypeInit, TypeNext, PTL DEF Spec

-----------------------------------------------------------------------------
(* Control flow.  FlowPreserved is not inductive by itself: while          *)
(* blk_jmpthread runs, what it has followed so far must lead from the      *)
(* pending target to where it stands, and no block may be written then.    *)

Threading ==
  /\ phase = "flush" /\ calls # << >> /\ Head(calls).op = "gen"
  /\ jmpto \in Blocks /\ jmpto # Head(calls).blk
  /\ LeadsThroughEmpty(jmpto, to)

FlowInv ==
  /\ FlowPreserved
  /\ phase = "gen" => code = << >> /\ jmpto = NoBlk /\ to = NoBlk
  /\ to # NoBlk => Threading

LEMMA LeadsRefl == \A b : LeadsThroughEmpty(b, b)
  BY DEF LeadsThroughEmpty

LEMMA LeadsStep ==
  ASSUME NEW b, NEW t, LeadsThroughEmpty(b, t),
         ~insns[t], type[t] = "next_block"
  PROVE LeadsThroughEmpty(b, next[t])
  BY DEF LeadsThroughEmpty

LEMMA LeadsSame ==
  ASSUME NEW b, NEW t, LeadsThroughEmpty(b, t), UNCHANGED graph
  PROVE LeadsThroughEmpty(b, t)'
  BY DEF LeadsThroughEmpty, graph

LEMMA AppendAt ==
  ASSUME NEW S, NEW s \in Seq(S), NEW x \in S
  PROVE /\ Len(Append(s, x)) = Len(s) + 1
        /\ \A i \in DOMAIN s : Append(s, x)[i] = s[i]
        /\ Append(s, x)[Len(s) + 1] = x
        /\ DOMAIN Append(s, x) = 1..(Len(s) + 1)
        /\ DOMAIN s = 1..Len(s) /\ Len(s) \in Nat
  OBVIOUS

(* Writing one item keeps the flow when the item follows what is before it *)
(* and, if it falls through, leaves its successor pending.                 *)
LEMMA FlowAppend ==
  ASSUME TypeInv, FlowPreserved, UNCHANGED graph, NEW x \in Item,
         code' = Append(code, x),
         code # << >> /\ phase = "flush" /\ jmpto # NoBlk
           => \/ x = [op |-> "blk", blk |-> jmpto]
              \/ x.op = "jmp" /\ LeadsThroughEmpty(jmpto, x.blk),
         x.op = "blk" /\ FallsThrough(x.blk)
           => phase' = "flush" /\ jmpto' = next[x.blk]
  PROVE FlowPreserved'
<1>0. code \in Seq(Item) /\ NoBlk \notin Blocks
  BY BlkAssumption DEF TypeInv, TypeOK
<1> SUFFICES ASSUME NEW i \in DOMAIN code', code'[i].op = "blk",
                    FallsThrough(code'[i].blk)
             PROVE LET succ == next[code'[i].blk] IN
                   IF i = Len(code') THEN phase' = "flush" /\ jmpto' = succ
                   ELSE \/ code'[i+1] = [op |-> "blk", blk |-> succ]
                        \/ code'[i+1].op = "jmp"
                             /\ LeadsThroughEmpty(succ, code'[i+1].blk)
  <2>1. /\ next' = next /\ type' = type
        /\ \A b, t : LeadsThroughEmpty(b, t) <=> LeadsThroughEmpty(b, t)'
    BY DEF LeadsThroughEmpty, graph
  <2> QED BY <2>1 DEF FlowPreserved, FallsThrough
<1>1. /\ Len(code') = Len(code) + 1 /\ Len(code) \in Nat
      /\ DOMAIN code' = 1..(Len(code) + 1) /\ DOMAIN code = 1..Len(code)
      /\ \A k \in DOMAIN code : code'[k] = code[k]
      /\ code'[Len(code) + 1] = x
  BY <1>0, AppendAt
<1>3. CASE i = Len(code) + 1
  BY <1>1, <1>3
<1>4. CASE i \in DOMAIN code /\ i = Len(code)
  <2>1. code[i] \in Item /\ code[i] = code'[i] /\ code[i].blk \in Blocks
    BY <1>0, <1>1, <1>4, SeqElt, ItemType
  <2>2. phase = "flush" /\ jmpto = next[code[i].blk]
    BY <1>4, <2>1 DEF FlowPreserved
  <2>3. next[code[i].blk] \in Blocks
    BY <2>1 DEF FallsThrough, TypeInv, EdgesOK
  <2>4. code # << >>
    BY <1>1, <1>4
  <2> QED BY <1>0, <1>1, <1>4, <2>1, <2>2, <2>3, <2>4
<1>5. CASE i \in DOMAIN code /\ i # Len(code)
  <2>1. i + 1 \in DOMAIN code /\ i # Len(code')
    BY <1>1, <1>5
  <2> QED BY <1>1, <1>5, <2>1 DEF FlowPreserved
<1> QED BY <1>1, <1>3, <1>4, <1>5

(* Steps that write nothing.                                               *)
LEMMA FlowSame ==
  ASSUME FlowPreserved, UNCHANGED graph, code' = code,
         phase = "flush" => phase' = "flush" /\ jmpto' = jmpto
  PROVE FlowPreserved'
  BY LeadsSame DEF FlowPreserved, FallsThrough, LeadsThroughEmpty, graph

LEMMA FlowInit == Init => FlowInv
  BY DEF Init, FlowInv, FlowPreserved

LEMMA FlowNext ==
  ASSUME TypeInv, FlowInv, [Next]_vars
  PROVE FlowInv'
<1>0. NoBlk \notin Blocks /\ calls \in Seq(Call)
  BY BlkAssumption DEF TypeInv, TypeOK
<1>1. ASSUME phase = "gen", UNCHANGED flushVars, phase' = "gen" PROVE FlowInv'
  BY <1>1 DEF FlowInv, FlowPreserved, flushVars
<1>2. CASE FlushAll
  <2>1. /\ code' = << >> /\ jmpto' = NoBlk /\ to' = NoBlk /\ phase' = "flush"
    BY <1>2 DEF FlushAll, FlowInv
  <2> QED BY <2>1 DEF FlowInv, FlowPreserved
<1>3. CASE BfsBlock
  <2>1. to = NoBlk /\ phase = "flush"
    BY <1>3 DEF BfsBlock, FlowInv, Threading
  <2> QED BY <1>3, <2>1, FlowSame DEF BfsBlock, FlowInv
<1>4. ASSUME NEW b \in Blocks, JmpThread(b) PROVE FlowInv'
  <2>1. /\ phase = "flush" /\ phase' = "flush" /\ to' = jmpto /\ jmpto' = jmpto
        /\ calls' = calls /\ calls # << >> /\ Head(calls) = Gen(b)
        /\ UNCHANGED graph /\ code' = code
    BY <1>4 DEF JmpThread, Generating
  <2>2. jmpto \in Blocks /\ jmpto # b
    BY <1>4 DEF JmpThread, NeedsJump, TypeInv, TypeOK, BlkOrNull
  <2>3. Threading'
    BY <2>1, <2>2, CallType, LeadsRefl, LeadsSame DEF Threading
  <2> QED BY <2>1, <2>3, FlowSame DEF FlowInv
<1>5. ASSUME NEW b \in Blocks, BlkCodegen(b) PROVE FlowInv'
  <2> DEFINE x == [op |-> "blk", blk |-> b]
  <2>1. /\ phase = "flush" /\ phase' = "flush" /\ jmpto \in {NoBlk, b}
        /\ code' = Append(code, x) /\ x \in Item /\ UNCHANGED graph /\ to' = to
    BY <1>5 DEF BlkCodegen, Generating, NeedsJump, Item
  <2>2. FallsThrough(b) => jmpto' = next[b]
    BY <1>5 DEF BlkCodegen, FallsThrough
  <2>3. to = NoBlk
    BY <1>5, <2>1, CallType, <1>0 DEF BlkCodegen, Generating, FlowInv, Threading
  <2>4. FlowPreserved'
    BY <2>1, <2>2, FlowAppend DEF FlowInv
  <2> QED BY <2>1, <2>3, <2>4 DEF FlowInv
<1>6. CASE JmpThreadStep
  <2>1. Threading /\ UNCHANGED <<graph, phase, calls, jmpto, code>> /\ to' = next[to]
    BY <1>6 DEF JmpThreadStep, FlowInv
  <2>2. LeadsThroughEmpty(jmpto, next[to])
    BY <1>6, <2>1, LeadsStep DEF JmpThreadStep, ThreadOn, Threading
  <2>3. Threading'
    BY <2>1, <2>2, LeadsSame DEF Threading
  <2> QED BY <2>1, <2>3, FlowSame DEF FlowInv, Threading
<1>7. CASE ImplJmp
  <2> DEFINE x == [op |-> "jmp", blk |-> to]
  <2>1. /\ Threading /\ UNCHANGED <<graph, phase>> /\ code' = Append(code, x)
        /\ jmpto' = NoBlk /\ to' = NoBlk
    BY <1>7 DEF ImplJmp, FlowInv
  <2>2. x \in Item
    BY <1>7 DEF ImplJmp, TypeInv, TypeOK, BlkOrNull, Item
  <2>3. FlowPreserved'
    BY <2>1, <2>2, FlowAppend DEF FlowInv, Threading
  <2> QED BY <2>1, <2>3 DEF FlowInv, Threading
<1>8. CASE FlushEnd
  <2>1. /\ phase = "flush" /\ phase' = "done" /\ UNCHANGED <<graph, jmpto, to>>
        /\ to = NoBlk
    BY <1>8 DEF FlushEnd, FlowInv, Threading
  <2>2. CASE jmpto = NoBlk
    <3>1. code' = code
      BY <1>8, <2>2 DEF FlushEnd
    <3>2. \A i \in DOMAIN code :
            code[i].op = "blk" /\ FallsThrough(code[i].blk) => i # Len(code)
      <4> SUFFICES ASSUME NEW i \in DOMAIN code, code[i].op = "blk",
                          FallsThrough(code[i].blk), i = Len(code)
                   PROVE FALSE
        OBVIOUS
      <4>1. code[i].blk \in Blocks
        BY SeqElt, ItemType DEF TypeInv, TypeOK
      <4>2. jmpto = next[code[i].blk] /\ next[code[i].blk] \in Blocks
        BY <4>1 DEF FlowInv, FlowPreserved, FallsThrough, TypeInv, EdgesOK
      <4> QED BY <1>0, <2>2, <4>2
    <3> QED BY <2>1, <3>1, <3>2
            DEF FlowInv, FlowPreserved, FallsThrough, LeadsThroughEmpty, graph
  <2>3. CASE jmpto # NoBlk
    <3> DEFINE x == [op |-> "jmp", blk |-> jmpto]
    <3>1. code' = Append(code, x) /\ x \in Item
      BY <1>8, <2>3 DEF FlushEnd, TypeInv, TypeOK, BlkOrNull, Item
    <3>2. FlowPreserved'
      BY <2>1, <3>1, FlowAppend, LeadsRefl DEF FlowInv
    <3> QED BY <2>1, <3>2 DEF FlowInv
  <2> QED BY <2>2, <2>3
<1>9. CASE UNCHANGED vars
  BY <1>9, FlowSame, LeadsSame DEF vars, flushVars, FlowInv, Threading
<1>10. ASSUME NEW b \in Blocks, OutCurrentBlk(b) \/ OutBlkMustgen(b)
       PROVE FlowInv'
  BY <1>1, <1>10 DEF OutCurrentBlk, OutBlkMustgen
<1>11. ASSUME NEW b \in Blocks, NEW f \in BOOLEAN, OutCtrlTransfer(b, f)
       PROVE FlowInv'
  BY <1>1, <1>11 DEF OutCtrlTransfer
<1>12. ASSUME NEW b \in Blocks, NEW c \in Blocks, NEW u \in BOOLEAN,
              BlkTerminateCondjmp(b, c, u)
       PROVE FlowInv'
  BY <1>1, <1>12 DEF BlkTerminateCondjmp
<1>13. ASSUME NEW k \in {"next_expr", "terminal"}, OutCtrlEnd(k) PROVE FlowInv'
  BY <1>1, <1>13 DEF OutCtrlEnd
<1> QED
  BY <1>2, <1>3, <1>4, <1>5, <1>6, <1>7, <1>8, <1>9, <1>10, <1>11, <1>12, <1>13
  DEF Next, Done

(* Whatever the graph, the order blocks are written in and the jumps left  *)
(* out or threaded, control leaves each written block for the successor    *)
(* its terminator names.                                                   *)
THEOREM FlowCorrect == Spec => []FlowPreserved
<1>1. TypeInv /\ FlowInv => FlowPreserved
  BY DEF FlowInv
<1> QED BY <1>1, TypeInit, TypeNext, FlowInit, FlowNext, PTL DEF Spec

-----------------------------------------------------------------------------
(* Which blocks are written.                                               *)

In(s, x) == \E k \in DOMAIN s : s[k] = x

(* A sequence of calls in which no block is to be generated twice.         *)
GenOnce(s) == \A k, l \in DOMAIN s : s[k].op = "gen" /\ s[k] = s[l] => k = l
NoGen(s) == \A k \in DOMAIN s : s[k].op # "gen"

LEMMA InConcat ==
  ASSUME NEW S, NEW s \in Seq(S), NEW t \in Seq(S), NEW x
  PROVE In(s \o t, x) <=> In(s, x) \/ In(t, x)
<1>1. ASSUME NEW k \in DOMAIN t PROVE (s \o t)[Len(s) + k] = t[k] /\ Len(s) + k \in DOMAIN (s \o t)
  OBVIOUS
<1>2. ASSUME NEW k \in DOMAIN s PROVE (s \o t)[k] = s[k] /\ k \in DOMAIN (s \o t)
  OBVIOUS
<1>3. ASSUME NEW k \in DOMAIN (s \o t), k \notin DOMAIN s
      PROVE k - Len(s) \in DOMAIN t /\ (s \o t)[k] = t[k - Len(s)]
  BY <1>3
<1> QED BY <1>1, <1>2, <1>3 DEF In

LEMMA InHeadTail ==
  ASSUME NEW S, NEW s \in Seq(S), s # << >>, NEW x
  PROVE In(s, x) <=> x = Head(s) \/ In(Tail(s), x)
<1>1. ASSUME NEW k \in DOMAIN Tail(s) PROVE Tail(s)[k] = s[k + 1] /\ k + 1 \in DOMAIN s
  OBVIOUS
<1>2. 1 \in DOMAIN s /\ s[1] = Head(s)
  OBVIOUS
<1>3. ASSUME NEW k \in DOMAIN s, k # 1
      PROVE k - 1 \in DOMAIN Tail(s) /\ Tail(s)[k - 1] = s[k]
  BY <1>3
<1> QED BY <1>1, <1>2, <1>3 DEF In

LEMMA InSingle == \A x, y : In(<<x>>, y) <=> x = y
  BY DEF In

LEMMA InBfsEach ==
  ASSUME NEW s \in Seq(Blocks)
  PROVE /\ \A i \in DOMAIN s : In(BfsEach(s), Bfs(s[i]))
        /\ NoGen(BfsEach(s))
  BY CallType DEF BfsEach, In, NoGen

LEMMA InBfsNext ==
  ASSUME NEW b \in Blocks, TypeInv
  PROVE /\ \A c \in Succs(b) : In(BfsNext(b), Bfs(c))
        /\ NoGen(BfsNext(b))
<1>1. CASE type[b] = "next_block"
  BY <1>1, CallType DEF BfsNext, Succs, In, NoGen
<1>2. CASE type[b] = "cond"
  <2> DEFINE n == Bfs(next[b])
             z == Bfs(if_0[b])
  <2>1. n.op = "bfs" /\ z.op = "bfs"
    BY CallType
  <2>2. BfsNext(b) = <<z, n>> \/ BfsNext(b) = <<n, z>>
    BY <1>2 DEF BfsNext
  <2>3. NoGen(BfsNext(b)) /\ In(BfsNext(b), n) /\ In(BfsNext(b), z)
    <3> HIDE DEF n, z
    <3> QED BY <2>1, <2>2 DEF In, NoGen
  <2> QED BY <1>2, <2>3 DEF Succs
<1>3. CASE type[b] \notin {"next_block", "cond"}
  BY <1>3 DEF BfsNext, Succs, In, NoGen
<1> QED BY <1>1, <1>2, <1>3

LEMMA NoGenIn == \A s, b : NoGen(s) => ~In(s, Gen(b))
  BY CallType DEF NoGen, In

LEMMA GenOnceTail ==
  ASSUME NEW s \in Seq(Call), s # << >>, GenOnce(s)
  PROVE /\ GenOnce(Tail(s))
        /\ Head(s).op = "gen" => ~In(Tail(s), Head(s))
<1>1. ASSUME NEW k \in DOMAIN Tail(s)
      PROVE Tail(s)[k] = s[k + 1] /\ k + 1 \in DOMAIN s /\ k + 1 # 1 /\ k \in Int
  OBVIOUS
<1>2. 1 \in DOMAIN s /\ s[1] = Head(s)
  OBVIOUS
<1>3. GenOnce(Tail(s))
  BY <1>1 DEF GenOnce
<1>4. Head(s).op = "gen" => ~In(Tail(s), Head(s))
  BY <1>1, <1>2 DEF GenOnce, In
<1> QED BY <1>3, <1>4

LEMMA GenOnceConcat ==
  ASSUME NEW s \in Seq(Call), NEW t \in Seq(Call), GenOnce(s), GenOnce(t),
         \A k \in DOMAIN s : s[k].op = "gen" => ~In(t, s[k])
  PROVE GenOnce(s \o t)
<1>1. ASSUME NEW k \in DOMAIN (s \o t)
      PROVE \/ k \in DOMAIN s /\ (s \o t)[k] = s[k]
            \/ /\ k \notin DOMAIN s /\ k - Len(s) \in DOMAIN t
               /\ (s \o t)[k] = t[k - Len(s)] /\ k \in Int
  OBVIOUS
<1>2. Len(s) \in Int
  OBVIOUS
<1> SUFFICES ASSUME NEW k \in DOMAIN (s \o t), NEW l \in DOMAIN (s \o t),
                    (s \o t)[k].op = "gen", (s \o t)[k] = (s \o t)[l]
             PROVE k = l
  BY DEF GenOnce
<1>3. CASE k \in DOMAIN s /\ l \in DOMAIN s
  BY <1>1, <1>3 DEF GenOnce
<1>4. CASE k \in DOMAIN s /\ l \notin DOMAIN s
  BY <1>1, <1>4 DEF In
<1>5. CASE k \notin DOMAIN s /\ l \in DOMAIN s
  BY <1>1, <1>5 DEF In
<1>6. CASE k \notin DOMAIN s /\ l \notin DOMAIN s
  <2>1. k - Len(s) = l - Len(s)
    BY <1>1, <1>6 DEF GenOnce
  <2> QED BY <1>1, <1>2, <1>6, <2>1
<1> QED BY <1>3, <1>4, <1>5, <1>6

Roots == {Entry} \cup ToSet(mustgen)

(* A block is generated once: it is marked emitted before the call that    *)
(* will write it is queued, and it stays queued until it is written.       *)
OnceInv ==
  /\ \A i, j \in DOMAIN code : code[i].op = "blk" /\ code[i] = code[j] => i = j
  /\ GenOnce(calls)
  /\ \A b \in Blocks : In(calls, Gen(b)) => b \in emitted /\ ~Labelled(b)
  /\ \A b \in Blocks : Labelled(b) => b \in emitted

(* Only what mark_reachable_blocks reached is queued, pending or written.  *)
ReachInv ==
  /\ phase = "gen" => /\ type[Epilogue] = "uninit" /\ current_blk # Epilogue
                      /\ calls = << >> /\ emitted = {}
  /\ phase # "gen" => reachable = ReachableFrom(Roots)
  /\ \A i \in DOMAIN code : code[i].blk \in reachable
  /\ \A b \in Blocks : In(calls, Gen(b)) => b \in reachable
  /\ jmpto \in reachable \cup {NoBlk} /\ to \in reachable \cup {NoBlk}

(* No block is forgotten: an emitted one is written or queued to be, and a *)
(* root, or a successor of a written block, is emitted or queued.          *)
NoneLost ==
  /\ \A b \in emitted : Labelled(b) \/ In(calls, Gen(b))
  /\ phase # "gen" =>
       /\ \A b \in Blocks : Labelled(b) =>
            \A c \in Succs(b) : c \in emitted \/ In(calls, Bfs(c))
       /\ \A b \in Roots : b \in emitted \/ In(calls, Bfs(b))
  /\ phase = "done" => calls = << >>

WriteInv == OnceInv /\ ReachInv /\ (~DumpBblocks => NoneLost)

LEMMA SuccsBlocks ==
  ASSUME TypeInv, NEW b \in Blocks
  PROVE Succs(b) \subseteq Blocks
  BY DEF Succs, TypeInv, EdgesOK

LEMMA ReachClosed ==
  ASSUME TypeInv, NEW R
  PROVE /\ Closed(ReachableFrom(R))
        /\ R \subseteq Blocks => R \subseteq ReachableFrom(R)
  BY SuccsBlocks DEF ReachableFrom, Closed

LEMMA ReachLeast ==
  ASSUME NEW R, NEW S \in SUBSET Blocks, R \subseteq S, Closed(S)
  PROVE ReachableFrom(R) \subseteq S
  BY DEF ReachableFrom

LEMMA WriteInit == Init => WriteInv
<1> SUFFICES ASSUME Init PROVE WriteInv
  OBVIOUS
<1>1. /\ code = << >> /\ calls = << >> /\ emitted = {} /\ reachable = {}
      /\ jmpto = NoBlk /\ to = NoBlk /\ phase = "gen" /\ current_blk = Entry
      /\ type[Epilogue] = "uninit" /\ Entry # Epilogue
  BY BlkAssumption DEF Init
<1>2. \A x : ~In(calls, x)
  BY <1>1 DEF In
<1>3. \A b : ~Labelled(b)
  BY <1>1 DEF Labelled
<1> QED BY <1>1, <1>2, <1>3 DEF WriteInv, OnceInv, ReachInv, NoneLost, GenOnce

(* What a step that only builds the graph must not touch.                  *)
LEMMA WriteGen ==
  ASSUME WriteInv, phase = "gen", UNCHANGED <<phase, flushVars>>,
         type'[Epilogue] = "uninit", current_blk' # Epilogue
  PROVE WriteInv'
<1>1. /\ code' = code /\ calls' = calls /\ emitted' = emitted
      /\ reachable' = reachable /\ jmpto' = jmpto /\ to' = to /\ phase' = "gen"
  BY DEF flushVars
<1>2. \A b : Labelled(b)' <=> Labelled(b)
  BY <1>1 DEF Labelled
<1>3. \A x : In(calls, x)' <=> In(calls, x)
  BY <1>1 DEF In
<1>4. OnceInv'
  BY <1>1, <1>2 DEF WriteInv, OnceInv
<1>5. ReachInv'
  BY <1>1 DEF WriteInv, ReachInv
<1>6. ~DumpBblocks => NoneLost'
  BY <1>1, <1>2 DEF WriteInv, NoneLost, ReachInv
<1> QED BY <1>4, <1>5, <1>6 DEF WriteInv

LEMMA GraphSame ==
  ASSUME UNCHANGED graph
  PROVE /\ \A b : Succs(b)' = Succs(b)
        /\ Roots' = Roots
        /\ ReachableFrom(Roots)' = ReachableFrom(Roots)
<1>1. \A b : Succs(b)' = Succs(b)
  BY DEF graph, Succs
<1>2. Roots' = Roots
  BY DEF graph, Roots
<1> QED BY <1>1, <1>2 DEF ReachableFrom, Closed

(* Successors of what may be written may be written.                       *)
LEMMA ReachableSuccs ==
  ASSUME TypeInv, ReachInv, phase # "gen", NEW b \in reachable
  PROVE Succs(b) \subseteq reachable
<1>1. Closed(reachable)
  BY ReachClosed DEF ReachInv
<1> QED BY <1>1 DEF Closed

(* Writing an item labels its block, or nothing if it is a jump.           *)
LEMMA LabelledAppend ==
  ASSUME TypeInv, NEW x \in Item, code' = Append(code, x)
  PROVE \A b : Labelled(b)' <=> Labelled(b) \/ x = [op |-> "blk", blk |-> b]
<1>1. /\ Len(code) \in Nat /\ DOMAIN code = 1..Len(code)
      /\ DOMAIN code' = 1..(Len(code) + 1)
      /\ \A k \in DOMAIN code : code'[k] = code[k]
      /\ code'[Len(code) + 1] = x
  BY AppendAt DEF TypeInv, TypeOK
<1>2. \A k \in DOMAIN code' : k \in DOMAIN code \/ k = Len(code) + 1
  BY <1>1
<1>3. DOMAIN code \subseteq DOMAIN code' /\ Len(code) + 1 \in DOMAIN code'
  BY <1>1
<1> QED BY <1>1, <1>2, <1>3 DEF Labelled

(* A jump, written or left out, changes nothing but the code.              *)
LEMMA WriteJump ==
  ASSUME TypeInv, WriteInv, UNCHANGED <<graph, calls, emitted, reachable>>,
         phase # "gen", phase' # "gen", phase' = "done" => calls = << >>,
         jmpto' \in reachable \cup {NoBlk}, to' \in reachable \cup {NoBlk},
         \/ code' = code
         \/ \E b \in reachable : code' = Append(code, [op |-> "jmp", blk |-> b])
  PROVE WriteInv'
<1>0. reachable \subseteq Blocks /\ code \in Seq(Item)
  BY DEF TypeInv, TypeOK
<1>1. \A b : Labelled(b)' <=> Labelled(b)
  <2>1. CASE code' = code
    BY <2>1 DEF Labelled
  <2>2. ASSUME NEW b \in reachable, code' = Append(code, [op |-> "jmp", blk |-> b])
        PROVE \A c : Labelled(c)' <=> Labelled(c)
    BY <1>0, <2>2, LabelledAppend DEF Item
  <2> QED BY <2>1, <2>2
<1>2. \A i \in DOMAIN code' :
        \/ i \in DOMAIN code /\ code'[i] = code[i]
        \/ code'[i].op = "jmp" /\ code'[i].blk \in reachable
  <2>1. CASE code' = code
    BY <2>1
  <2>2. ASSUME NEW b \in reachable, code' = Append(code, [op |-> "jmp", blk |-> b]),
               NEW i \in DOMAIN code'
        PROVE \/ i \in DOMAIN code /\ code'[i] = code[i]
              \/ code'[i].op = "jmp" /\ code'[i].blk \in reachable
    <3> DEFINE x == [op |-> "jmp", blk |-> b]
    <3>1. x \in Item /\ x.op = "jmp" /\ x.blk = b
      BY <1>0 DEF Item
    <3> HIDE DEF x
    <3>2. i \in DOMAIN code \/ i = Len(code) + 1
      BY <1>0, <2>2, <3>1, AppendAt DEF x
    <3> QED BY <1>0, <2>2, <3>1, <3>2, AppendAt DEF x
  <2> QED BY <2>1, <2>2
<1>3. \A x : In(calls, x)' <=> In(calls, x)
  BY DEF In
<1>4. OnceInv'
  BY <1>1, <1>2, <1>3 DEF WriteInv, OnceInv
<1>5. ReachInv'
  BY <1>2, <1>3, GraphSame DEF WriteInv, ReachInv
<1>6. ~DumpBblocks => NoneLost'
  BY <1>1, <1>3, GraphSame DEF WriteInv, NoneLost
<1> QED BY <1>4, <1>5, <1>6 DEF WriteInv

LEMMA WriteFlushAll ==
  ASSUME TypeInv, FlowInv, WriteInv, FlushAll
  PROVE WriteInv'
<1>1. /\ phase = "gen" /\ phase' = "flush" /\ code = << >> /\ code' = << >>
      /\ jmpto' = NoBlk /\ to' = NoBlk /\ mustgen' = mustgen /\ next' = next
      /\ if_0' = if_0 /\ calls' = <<Bfs(Entry)>> \o BfsEach(mustgen)
      /\ type' = [type EXCEPT ![Epilogue] = "terminal"]
      /\ reachable' = ReachableFrom(Roots) /\ (~DumpBblocks => emitted' = {})
  BY DEF FlushAll, FlowInv, Roots
<1>2. type[Epilogue] = "uninit"
  BY <1>1 DEF WriteInv, ReachInv
<1>3. Roots' = Roots /\ reachable' = ReachableFrom(Roots)'
  <2>1. \A b \in Blocks : Succs(b)' = Succs(b)
    BY <1>1, <1>2 DEF Succs, TypeInv, TypeOK
  <2>2. Roots' = Roots
    BY <1>1 DEF Roots
  <2>3. \A S \in SUBSET Blocks : Closed(S)' <=> Closed(S)
    BY <2>1 DEF Closed
  <2> QED BY <1>1, <2>2, <2>3 DEF ReachableFrom
<1>4. mustgen \in Seq(Blocks) /\ Entry \in Blocks
  BY BlkAssumption DEF TypeInv, TypeOK
<1>5. BfsEach(mustgen) \in Seq(Call) /\ <<Bfs(Entry)>> \in Seq(Call)
  BY <1>4, BfsCalls, CallType, SingleSeq
<1>6. \A x : In(calls, x)' <=> x = Bfs(Entry) \/ In(BfsEach(mustgen), x)
  BY <1>1, <1>5, InConcat, InSingle
<1>7. \A b : ~In(calls, Gen(b))'
  BY <1>4, <1>6, InBfsEach, NoGenIn, CallType
<1>8. \A b \in Roots : In(calls, Bfs(b))'
  BY <1>4, <1>6, InBfsEach DEF Roots, ToSet
<1>9. GenOnce(calls)'
  <2>1. NoGen(calls)'
    <3>1. NoGen(BfsEach(mustgen)) /\ NoGen(<<Bfs(Entry)>>)
      BY <1>4, InBfsEach, CallType DEF NoGen
    <3> QED BY <1>1, <1>5, <3>1 DEF NoGen
  <2> QED BY <2>1 DEF NoGen, GenOnce
<1>10. \A b : ~Labelled(b)'
  BY <1>1 DEF Labelled
<1>11. OnceInv'
  BY <1>1, <1>7, <1>9, <1>10 DEF OnceInv
<1>12. ReachInv'
  BY <1>1, <1>3, <1>7 DEF ReachInv
<1>13. ~DumpBblocks => NoneLost'
  BY <1>1, <1>3, <1>8, <1>10 DEF NoneLost
<1> QED BY <1>11, <1>12, <1>13 DEF WriteInv

LEMMA WriteBfsBlock ==
  ASSUME TypeInv, WriteInv, BfsBlock
  PROVE WriteInv'
<1> DEFINE b == Head(calls).blk
           t == Tail(calls)
<1>1. /\ phase = "flush" /\ phase' = "flush" /\ calls # << >> /\ UNCHANGED graph
      /\ reachable' = reachable /\ jmpto' = jmpto /\ to' = to /\ code' = code
      /\ Head(calls).op = "bfs" /\ calls \in Seq(Call)
  BY DEF BfsBlock, TypeInv, TypeOK
<1>2. b \in Blocks /\ t \in Seq(Call) /\ Head(calls) = Bfs(b)
  <2>1. Head(calls) \in Call /\ Tail(calls) \in Seq(Call)
    BY <1>1, HeadTail
  <2>2. \A c \in Call : c.op = "bfs" => c = Bfs(c.blk)
    BY DEF Bfs, Call
  <2> QED BY <1>1, <2>1, <2>2, CallType
<1>3. \A x : In(calls, x) <=> x = Bfs(b) \/ In(t, x)
  BY <1>1, <1>2, InHeadTail
<1>4. \A c : In(calls, Gen(c)) <=> In(t, Gen(c))
  BY <1>3, CallType
<1>5. GenOnce(t)
  BY <1>1, GenOnceTail DEF WriteInv, OnceInv
<1>6. \A c : Labelled(c)' <=> Labelled(c)
  BY <1>1 DEF Labelled
<1>7. /\ Roots' = Roots /\ ReachableFrom(Roots)' = ReachableFrom(Roots)
      /\ \A c : Succs(c)' = Succs(c)
  BY <1>1, GraphSame
<1>8. /\ Roots \subseteq reachable
      /\ \A c \in Blocks : Labelled(c) => Succs(c) \subseteq reachable
  <2>1. Roots \subseteq Blocks
    BY BlkAssumption DEF Roots, ToSet, TypeInv, TypeOK
  <2>2. Roots \subseteq reachable
    BY <1>1, <2>1, ReachClosed DEF WriteInv, ReachInv
  <2>3. \A c : Labelled(c) => c \in reachable
    BY DEF Labelled, WriteInv, ReachInv
  <2> QED BY <1>1, <2>2, <2>3, ReachableSuccs DEF WriteInv
<1> HIDE DEF b, t
<1>9. CASE SkipBlk(b)
  <2>1. calls' = t /\ emitted' = emitted
    BY <1>9 DEF BfsBlock, AfterSkip, b, t
  <2>2. b \in emitted \/ b \notin reachable
    BY <1>9 DEF SkipBlk
  <2>3. OnceInv'
    BY <1>1, <1>4, <1>5, <1>6, <2>1 DEF WriteInv, OnceInv
  <2>4. ReachInv'
    BY <1>1, <1>4, <1>7, <2>1 DEF WriteInv, ReachInv
  <2>5. ASSUME ~DumpBblocks PROVE NoneLost'
    <3>1. NoneLost
      BY <2>5 DEF WriteInv
    <3>2. \A c \in reachable : In(calls, Bfs(c)) => c \in emitted \/ In(t, Bfs(c))
      <4>1. \A c : Bfs(c) = Bfs(b) => c = b
        BY CallType
      <4> QED BY <1>3, <2>2, <4>1
    <3>3. \A c \in emitted : Labelled(c)' \/ In(calls, Gen(c))'
      BY <1>4, <1>6, <2>1, <3>1 DEF NoneLost
    <3>4. \A c \in Blocks : Labelled(c)' =>
            \A d \in Succs(c)' : d \in emitted \/ In(calls, Bfs(d))'
      BY <1>1, <1>6, <1>7, <1>8, <2>1, <3>1, <3>2 DEF NoneLost
    <3>5. \A c \in Roots' : c \in emitted \/ In(calls, Bfs(c))'
      BY <1>1, <1>7, <1>8, <2>1, <3>1, <3>2 DEF NoneLost
    <3> QED BY <1>1, <2>1, <3>3, <3>4, <3>5 DEF NoneLost
  <2> QED BY <2>3, <2>4, <2>5 DEF WriteInv
<1>10. CASE ~SkipBlk(b)
  <2> DEFINE e == BfsEach(merge_preds[b])
             g == <<Gen(b)>> \o t
  <2>1. calls' = e \o g /\ emitted' = emitted \cup {b}
    BY <1>10 DEF BfsBlock, b, t
  <2>2. b \notin emitted /\ b \in reachable
    BY <1>10 DEF SkipBlk
  <2>3. merge_preds[b] \in Seq(Blocks)
    BY <1>2 DEF TypeInv, TypeOK
  <2>4. e \in Seq(Call) /\ NoGen(e) /\ <<Gen(b)>> \in Seq(Call) /\ g \in Seq(Call)
    BY <1>2, <2>3, BfsCalls, InBfsEach, CallType, SingleSeq, ConcatSeq
  <2>5. ~In(t, Gen(b)) /\ ~Labelled(b)
    BY <1>2, <1>4, <2>2 DEF WriteInv, OnceInv
  <2>6. \A x : In(calls, x)' <=> In(e, x) \/ x = Gen(b) \/ In(t, x)
    <3>1. \A x : In(g, x) <=> x = Gen(b) \/ In(t, x)
      BY <1>2, <2>4, InConcat, InSingle
    <3>2. \A x : In(e \o g, x) <=> In(e, x) \/ In(g, x)
      <4> HIDE DEF e, g
      <4> QED BY <2>4, InConcat
    <3> QED BY <2>1, <3>1, <3>2
  <2>7. \A c : In(calls, Gen(c))' <=> c = b \/ In(calls, Gen(c))
    <3>1. \A c : Gen(c) = Gen(b) <=> c = b
      BY CallType
    <3> QED BY <1>4, <2>4, <2>6, <3>1, NoGenIn
  <2>8. GenOnce(calls)'
    <3>1. GenOnce(<<Gen(b)>>)
      BY DEF GenOnce
    <3>2. GenOnce(g)
      <4>1. \A k \in DOMAIN <<Gen(b)>> : ~In(t, <<Gen(b)>>[k])
        BY <2>5
      <4> QED BY <1>2, <1>5, <2>4, <3>1, <4>1, GenOnceConcat
    <3>3. GenOnce(e)
      BY <2>4 DEF GenOnce, NoGen
    <3>4. \A k \in DOMAIN e : e[k].op = "gen" => ~In(g, e[k])
      BY <2>4 DEF NoGen
    <3> HIDE DEF e, g
    <3> QED BY <2>1, <2>4, <3>2, <3>3, <3>4, GenOnceConcat
  <2>9. OnceInv'
    BY <1>1, <1>6, <2>1, <2>2, <2>5, <2>7, <2>8 DEF WriteInv, OnceInv
  <2>10. ReachInv'
    BY <1>1, <1>7, <2>1, <2>2, <2>7 DEF WriteInv, ReachInv
  <2>11. ASSUME ~DumpBblocks PROVE NoneLost'
    <3>1. NoneLost
      BY <2>11 DEF WriteInv
    <3>2. \A c : In(calls, Bfs(c)) => c \in emitted' \/ In(calls, Bfs(c))'
      <4>1. \A c : Bfs(c) = Bfs(b) => c = b
        BY CallType
      <4> QED BY <1>3, <2>1, <2>6, <4>1
    <3>3. \A c \in emitted' : Labelled(c)' \/ In(calls, Gen(c))'
      BY <1>6, <2>1, <2>7, <3>1 DEF NoneLost
    <3>4. \A c \in Blocks : Labelled(c)' =>
            \A d \in Succs(c)' : d \in emitted' \/ In(calls, Bfs(d))'
      BY <1>1, <1>6, <1>7, <2>1, <3>1, <3>2 DEF NoneLost
    <3>5. \A c \in Roots' : c \in emitted' \/ In(calls, Bfs(c))'
      BY <1>1, <1>7, <2>1, <3>1, <3>2 DEF NoneLost
    <3> QED BY <1>1, <3>3, <3>4, <3>5 DEF NoneLost
  <2> QED BY <2>9, <2>10, <2>11 DEF WriteInv
<1> QED BY <1>9, <1>10

LEMMA WriteCodegen ==
  ASSUME TypeInv, FlowInv, WriteInv, NEW b \in Blocks, BlkCodegen(b)
  PROVE WriteInv'
<1> DEFINE t == Tail(calls)
           n == BfsNext(b)
           x == [op |-> "blk", blk |-> b]
<1>1. /\ phase = "flush" /\ phase' = "flush" /\ calls # << >> /\ UNCHANGED graph
      /\ reachable' = reachable /\ to' = to /\ code' = Append(code, x)
      /\ Head(calls) = Gen(b) /\ calls \in Seq(Call) /\ emitted' = emitted
      /\ calls' = n \o t
  BY DEF BlkCodegen, Generating, TypeInv, TypeOK
<1>2. t \in Seq(Call) /\ n \in Seq(Call) /\ NoGen(n)
  BY <1>1, HeadTail, BfsNextCalls, InBfsNext
<1>3. \A y : In(calls, y) <=> y = Gen(b) \/ In(t, y)
  BY <1>1, InHeadTail
<1>4. \A y : In(calls, y)' <=> In(n, y) \/ In(t, y)
  <2> HIDE DEF n, t
  <2> QED BY <1>1, <1>2, InConcat
<1>5. /\ b \in emitted /\ b \in reachable /\ ~Labelled(b) /\ ~In(t, Gen(b))
      /\ GenOnce(t)
  <2>1. In(calls, Gen(b))
    BY <1>3
  <2>2. GenOnce(calls) /\ Head(calls).op = "gen"
    BY <1>1, CallType DEF WriteInv, OnceInv
  <2> QED BY <1>1, <2>1, <2>2, GenOnceTail DEF WriteInv, OnceInv, ReachInv
<1>6. x \in Item /\ code \in Seq(Item)
  BY DEF Item, TypeInv, TypeOK
<1>7. \A c : Labelled(c)' <=> Labelled(c) \/ c = b
  <2>1. \A c : x = [op |-> "blk", blk |-> c] <=> c = b
    BY CallType
  <2> QED BY <1>1, <1>6, <2>1, LabelledAppend
<1>8. /\ Roots' = Roots /\ ReachableFrom(Roots)' = ReachableFrom(Roots)
      /\ \A c : Succs(c)' = Succs(c)
  BY <1>1, GraphSame
<1>9. Succs(b) \subseteq reachable
  BY <1>1, <1>5, ReachableSuccs DEF WriteInv
<1>10. jmpto' \in reachable \cup {NoBlk}
  BY <1>9 DEF BlkCodegen, Succs
<1>11. \A c : In(calls, Gen(c))' => In(calls, Gen(c)) /\ c # b
  <2>1. \A c : Gen(c) = Gen(b) <=> c = b
    BY CallType
  <2> HIDE DEF n, t
  <2> QED BY <1>2, <1>3, <1>4, <1>5, <2>1, NoGenIn
<1>12. GenOnce(calls)'
  <2>1. GenOnce(n) /\ \A k \in DOMAIN n : n[k].op = "gen" => ~In(t, n[k])
    BY <1>2 DEF GenOnce, NoGen
  <2> HIDE DEF n, t
  <2> QED BY <1>1, <1>2, <1>5, <2>1, GenOnceConcat
<1>13. \A i \in DOMAIN code' :
         \/ i \in DOMAIN code /\ code'[i] = code[i]
         \/ code'[i] = x /\ i = Len(code) + 1
  <2> HIDE DEF x
  <2>1. /\ Len(code) \in Nat /\ DOMAIN code = 1..Len(code)
        /\ DOMAIN code' = 1..(Len(code) + 1)
        /\ \A k \in DOMAIN code : code'[k] = code[k]
        /\ code'[Len(code) + 1] = x
    BY <1>1, <1>6, AppendAt
  <2> QED BY <2>1
<1>14. OnceInv'
  <2>1. \A i, j \in DOMAIN code' : code'[i].op = "blk" /\ code'[i] = code'[j] => i = j
    <3>1. \A i \in DOMAIN code : code[i] # x
      BY <1>5 DEF Labelled
    <3> HIDE DEF x
    <3> QED BY <1>13, <3>1 DEF WriteInv, OnceInv
  <2> QED BY <1>1, <1>5, <1>7, <1>11, <1>12, <2>1 DEF WriteInv, OnceInv
<1>15. ReachInv'
  <2>1. x.blk = b
    OBVIOUS
  <2>2. \A i \in DOMAIN code' : code'[i].blk \in reachable
    <3> HIDE DEF x
    <3> QED BY <1>5, <1>13, <2>1 DEF WriteInv, ReachInv
  <2> QED BY <1>1, <1>8, <1>10, <1>11, <2>2 DEF WriteInv, ReachInv
<1>16. ASSUME ~DumpBblocks PROVE NoneLost'
  <2>1. NoneLost
    BY <1>16 DEF WriteInv
  <2>2. \A c : In(calls, Bfs(c)) => In(calls, Bfs(c))'
    <3>1. \A c : Bfs(c) # Gen(b)
      BY CallType
    <3> QED BY <1>3, <1>4, <3>1
  <2>3. \A c : c # b /\ In(calls, Gen(c)) => In(calls, Gen(c))'
    <3>1. \A c : Gen(c) = Gen(b) <=> c = b
      BY CallType
    <3> QED BY <1>3, <1>4, <3>1
  <2>4. \A c \in Succs(b) : In(calls, Bfs(c))'
    BY <1>4, InBfsNext
  <2>5. \A c \in emitted : Labelled(c)' \/ In(calls, Gen(c))'
    BY <1>7, <2>1, <2>3 DEF NoneLost
  <2>6. \A c \in Blocks : Labelled(c)' =>
          \A d \in Succs(c)' : d \in emitted \/ In(calls, Bfs(d))'
    BY <1>1, <1>7, <1>8, <2>1, <2>2, <2>4 DEF NoneLost
  <2>7. \A c \in Roots' : c \in emitted \/ In(calls, Bfs(c))'
    BY <1>1, <1>8, <2>1, <2>2 DEF NoneLost
  <2> QED BY <1>1, <2>5, <2>6, <2>7 DEF NoneLost
<1> QED BY <1>14, <1>15, <1>16 DEF WriteInv

LEMMA WriteNext ==
  ASSUME TypeInv, FlowInv, WriteInv, [Next]_vars
  PROVE WriteInv'
<1>0. /\ Epilogue \in Blocks /\ type \in [Blocks -> BlkType] /\ NoBlk \notin Blocks
      /\ phase = "gen" => type[Epilogue] = "uninit" /\ current_blk # Epilogue
      /\ jmpto \in reachable \cup {NoBlk} /\ to \in reachable \cup {NoBlk}
      /\ phase = "done" /\ ~DumpBblocks => calls = << >>
      /\ current_blk \in BlkOrNull /\ reachable \subseteq Blocks
  BY BlkAssumption DEF TypeInv, TypeOK, WriteInv, ReachInv, NoneLost
<1>1. ASSUME NEW b \in Blocks, OutCurrentBlk(b) \/ OutBlkMustgen(b)
      PROVE WriteInv'
  BY <1>0, <1>1, WriteGen DEF OutCurrentBlk, OutBlkMustgen, graph, genVars
<1>2. ASSUME NEW b \in Blocks, NEW f \in BOOLEAN, OutCtrlTransfer(b, f)
      PROVE WriteInv'
  <2>1. phase = "gen" /\ UNCHANGED <<phase, flushVars>> /\ current_blk' = NoBlk
    BY <1>2 DEF OutCtrlTransfer
  <2>2. type' = type \/ type' = [type EXCEPT ![current_blk] = "next_block"]
    BY <1>2 DEF OutCtrlTransfer
  <2>3. type'[Epilogue] = "uninit"
    BY <1>0, <2>1, <2>2 DEF BlkOrNull
  <2> QED BY <1>0, <2>1, <2>3, WriteGen
<1>3. ASSUME NEW b \in Blocks, NEW c \in Blocks, NEW u \in BOOLEAN,
             BlkTerminateCondjmp(b, c, u)
      PROVE WriteInv'
  BY <1>0, <1>3, WriteGen DEF BlkTerminateCondjmp
<1>4. ASSUME NEW k \in {"next_expr", "terminal"}, OutCtrlEnd(k) PROVE WriteInv'
  BY <1>0, <1>4, WriteGen DEF OutCtrlEnd
<1>5. CASE FlushAll
  BY <1>5, WriteFlushAll
<1>6. CASE BfsBlock
  BY <1>6, WriteBfsBlock
<1>7. ASSUME NEW b \in Blocks, BlkCodegen(b) PROVE WriteInv'
  BY <1>7, WriteCodegen
<1>8. ASSUME NEW b \in Blocks, JmpThread(b) PROVE WriteInv'
  BY <1>0, <1>8, WriteJump DEF JmpThread, Generating
<1>9. CASE JmpThreadStep
  <2>1. /\ phase = "flush" /\ UNCHANGED <<graph, phase, reachable, emitted, calls, jmpto, code>>
        /\ to \in reachable /\ to' = next[to] /\ type[to] = "next_block"
    BY <1>0, <1>9 DEF JmpThreadStep, ThreadOn, FlowInv, Threading
  <2>2. to' \in reachable
    BY <2>1, ReachableSuccs DEF WriteInv, Succs
  <2> QED BY <1>0, <2>1, <2>2, WriteJump
<1>10. CASE ImplJmp
  <2>1. /\ phase = "flush" /\ UNCHANGED <<graph, phase, reachable, emitted, calls>>
        /\ to \in reachable /\ to' = NoBlk /\ jmpto' = NoBlk
        /\ code' = Append(code, [op |-> "jmp", blk |-> to])
    BY <1>0, <1>10 DEF ImplJmp, FlowInv, Threading
  <2> QED BY <2>1, WriteJump
<1>11. CASE FlushEnd
  <2>1. /\ phase = "flush" /\ UNCHANGED <<graph, reachable, emitted, calls, jmpto, to>>
        /\ phase' = "done" /\ calls = << >>
        /\ \/ code' = code
           \/ jmpto \in reachable /\ code' = Append(code, [op |-> "jmp", blk |-> jmpto])
    BY <1>0, <1>11 DEF FlushEnd
  <2> QED BY <1>0, <2>1, WriteJump
<1>12. CASE UNCHANGED vars
  <2>1. /\ UNCHANGED <<graph, phase, reachable, emitted, calls, jmpto, to, code, flushVars>>
        /\ current_blk' = current_blk /\ type' = type
    BY <1>12 DEF vars, flushVars, graph, genVars
  <2>2. CASE phase = "gen"
    BY <1>0, <2>1, <2>2, WriteGen
  <2>3. CASE phase # "gen"
    <3>1. \A x : In(calls, x)' <=> In(calls, x)
      BY <2>1 DEF In
    <3>2. \A b : Labelled(b)' <=> Labelled(b)
      BY <2>1 DEF Labelled
    <3> QED BY <2>1, <2>3, <3>1, <3>2, GraphSame
            DEF WriteInv, OnceInv, ReachInv, NoneLost
  <2> QED BY <2>2, <2>3
<1> QED
  BY <1>1, <1>2, <1>3, <1>4, <1>5, <1>6, <1>7, <1>8, <1>9, <1>10, <1>11, <1>12
  DEF Next, Done

(* No label is defined twice and nothing unreachable is written or jumped  *)
(* to, however blocks are nested, shared or looped.                        *)
THEOREM LabelsCorrect == Spec => []LabelsDefinedOnce
<1>1. TypeInv /\ FlowInv /\ WriteInv => LabelsDefinedOnce
  BY DEF WriteInv, OnceInv, ReachInv, LabelsDefinedOnce
<1> QED
  BY <1>1, TypeInit, TypeNext, FlowInit, FlowNext, WriteInit, WriteNext, PTL DEF Spec

(* blk_flushall writes every block control can reach, unless the graph is  *)
(* dumped first: dot_block uses the same emitted mark.                     *)
THEOREM NothingLost == ASSUME ~DumpBblocks PROVE Spec => []ReachableWritten
<1>1. TypeInv /\ FlowInv /\ WriteInv => ReachableWritten
  <2> SUFFICES ASSUME TypeInv, WriteInv, phase = "done"
               PROVE \A b \in reachable : Labelled(b)
    BY DEF ReachableWritten
  <2> DEFINE S == {b \in Blocks : Labelled(b)}
  <2>1. /\ NoneLost /\ calls = << >> /\ reachable = ReachableFrom(Roots)
        /\ emitted \subseteq Blocks
    BY DEF WriteInv, ReachInv, NoneLost, TypeInv, TypeOK
  <2>2. \A x : ~In(calls, x)
    BY <2>1 DEF In
  <2>3. Roots \subseteq S /\ \A b \in S : Succs(b) \subseteq S
    BY <2>1, <2>2 DEF NoneLost
  <2>4. Closed(S)
    BY <2>3 DEF Closed
  <2> QED BY <2>1, <2>3, <2>4, ReachLeast
<1> QED
  BY <1>1, TypeInit, TypeNext, FlowInit, FlowNext, WriteInit, WriteNext, PTL DEF Spec
=============================================================================

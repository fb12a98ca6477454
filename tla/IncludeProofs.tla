---------------------------- MODULE IncludeProofs ----------------------------
(***************************************************************************)
(* Comments never act as directives, whatever the lines look like: the code's *)
(* walk over the items of a line (strip_comment() in src/src/cpp2/preproc.c)  *)
(* and the standard's agree item by item, by induction over the line, and the *)
(* block state kept from line to line is the standard's. Then the stacks the  *)
(* preprocessor keeps of its open files, the line numbers it prints, and      *)
(* cc1's reader that follows them.                                            *)
(***************************************************************************)
EXTENDS PreprocProofs, SequenceTheorems, WellFoundedInduction

(* Every set of natural numbers has a least element: what the inductions over  *)
(* the items of a line rest on.                                                *)
LEMMA NatMin ==
  ASSUME NEW T \in SUBSET Nat, T # {}
  PROVE \E x \in T : \A y \in T : x <= y
<1> DEFINE R == OpToRel(<, Nat)
<1>1. PICK x \in T : \A y \in T : <<y, x>> \notin R
  <2>1. IsWellFoundedOn(R, Nat)
    BY NatLessThanWellFounded
  <2> HIDE DEF R
  <2> QED BY <2>1, WFMin
<1>2. ASSUME NEW y \in T PROVE x <= y
  <2>1. y < x => <<y, x>> \in R
    BY DEF OpToRel
  <2> HIDE DEF R
  <2> QED BY <1>1, <2>1
<1> QED BY <1>2

(* Induction up to k, for the members of a set.                                *)
LEMMA UpTo ==
  ASSUME NEW k \in Nat, NEW G, 0 \in G, \A n \in 1..k : n - 1 \in G => n \in G
  PROVE \A n \in 0..k : n \in G
<1> DEFINE Bad == {n \in Nat : n <= k /\ n \notin G}
<1> SUFFICES ASSUME Bad # {} PROVE FALSE
  OBVIOUS
<1>1. PICK n \in Bad : \A m \in Bad : n <= m
  BY NatMin
<1>2. n \in 1..k /\ n \notin G
  OBVIOUS
<1>3. n - 1 \notin Bad
  BY <1>1, <1>2
<1> QED BY <1>2, <1>3

(* The walk is well defined: each state is made from the one before by one item. *)
LEMMA StripUnfolds ==
  ASSUME NEW layout \in Seq(STRING)
  PROVE /\ StripStates(layout)[0] = StripStart
        /\ \A n \in 1..Len(layout) :
             StripStates(layout)[n]
               = StripItem(StripStates(layout)[n - 1], layout[n], Head(layout) = "#")
<1> DEFINE d == Head(layout) = "#"
           Rec(f, k) == f = [i \in 0..k |-> IF i = 0 THEN StripStart
                                            ELSE StripItem(f[i - 1], layout[i], d)]
           Bad == {k \in Nat : ~\E f : Rec(f, k)}
<1>1. Bad = {}
  <2> SUFFICES ASSUME Bad # {} PROVE FALSE
    OBVIOUS
  <2>1. PICK k \in Bad : \A y \in Bad : k <= y
    BY NatMin
  <2>2. k # 0
    <3>1. Rec([i \in 0..0 |-> StripStart], 0)
      OBVIOUS
    <3> QED BY <3>1
  <2>3. k - 1 \in Nat /\ k - 1 \notin Bad
    <3>1. k \in Nat
      OBVIOUS
    <3> HIDE DEF Bad
    <3> QED BY <2>1, <2>2, <3>1
  <2>4. PICK f : Rec(f, k - 1)
    BY <2>3
  <2> DEFINE g == [i \in 0..k |-> IF i = k THEN StripItem(f[k - 1], layout[k], d) ELSE f[i]]
  <2>5. ASSUME NEW i \in 0..k
        PROVE g[i] = IF i = 0 THEN StripStart ELSE StripItem(g[i - 1], layout[i], d)
    <3>1. CASE i = k
      BY <3>1, <2>2, <2>3
    <3>2. CASE i # k
      <4>1. i \in 0..(k - 1) /\ (i # 0 => i - 1 \in 0..(k - 1))
        BY <3>2, <2>3
      <4>2. g[i] = f[i] /\ (i # 0 => g[i - 1] = f[i - 1])
        BY <4>1, <3>2
      <4> HIDE DEF g
      <4> QED BY <4>1, <4>2, <2>4
    <3> QED BY <3>1, <3>2
  <2>6. Rec(g, k)
    <3>1. g = [i \in 0..k |-> g[i]]
      OBVIOUS
    <3> HIDE DEF g
    <3> QED BY <3>1, <2>5
  <2> QED BY <2>1, <2>6
<1>2. Len(layout) \in Nat
  OBVIOUS
<1>3. \E f : Rec(f, Len(layout))
  BY <1>1, <1>2
<1>4. StripStates(layout) = CHOOSE f : Rec(f, Len(layout))
  BY DEF StripStates
<1>5. Rec(StripStates(layout), Len(layout))
  BY <1>3, <1>4
<1> DEFINE st == StripStates(layout)
<1>6. \A i \in 0..Len(layout) : st[i] = IF i = 0 THEN StripStart
                                        ELSE StripItem(st[i - 1], layout[i], d)
  <2> HIDE DEF d
  <2>1. Rec(st, Len(layout))
    BY <1>5
  <2> HIDE DEF st
  <2> QED BY <2>1, <1>2
<1> QED BY <1>6, <1>2
LEMMA TrueUnfolds ==
  ASSUME NEW layout \in Seq(STRING)
  PROVE /\ TrueStates(layout)[0] = TrueStart
        /\ \A n \in 1..Len(layout) :
             TrueStates(layout)[n] = TrueItem(TrueStates(layout)[n - 1], layout[n])
<1> DEFINE Rec(f, k) == f = [i \in 0..k |-> IF i = 0 THEN TrueStart
                                            ELSE TrueItem(f[i - 1], layout[i])]
           Bad == {k \in Nat : ~\E f : Rec(f, k)}
<1>1. Bad = {}
  <2> SUFFICES ASSUME Bad # {} PROVE FALSE
    OBVIOUS
  <2>1. PICK k \in Bad : \A y \in Bad : k <= y
    BY NatMin
  <2>2. k # 0
    <3>1. Rec([i \in 0..0 |-> TrueStart], 0)
      OBVIOUS
    <3> QED BY <3>1
  <2>3. k - 1 \in Nat /\ k - 1 \notin Bad
    <3>1. k \in Nat
      OBVIOUS
    <3> HIDE DEF Bad
    <3> QED BY <2>1, <2>2, <3>1
  <2>4. PICK f : Rec(f, k - 1)
    BY <2>3
  <2> DEFINE g == [i \in 0..k |-> IF i = k THEN TrueItem(f[k - 1], layout[k]) ELSE f[i]]
  <2>5. ASSUME NEW i \in 0..k
        PROVE g[i] = IF i = 0 THEN TrueStart ELSE TrueItem(g[i - 1], layout[i])
    <3>1. CASE i = k
      BY <3>1, <2>2, <2>3
    <3>2. CASE i # k
      <4>1. i \in 0..(k - 1) /\ (i # 0 => i - 1 \in 0..(k - 1))
        BY <3>2, <2>3
      <4>2. g[i] = f[i] /\ (i # 0 => g[i - 1] = f[i - 1])
        BY <4>1, <3>2
      <4> HIDE DEF g
      <4> QED BY <4>1, <4>2, <2>4
    <3> QED BY <3>1, <3>2
  <2>6. Rec(g, k)
    <3>1. g = [i \in 0..k |-> g[i]]
      OBVIOUS
    <3> HIDE DEF g
    <3> QED BY <3>1, <2>5
  <2> QED BY <2>1, <2>6
<1>2. Len(layout) \in Nat
  OBVIOUS
<1>3. \E f : Rec(f, Len(layout))
  BY <1>1, <1>2
<1>4. TrueStates(layout) = CHOOSE f : Rec(f, Len(layout))
  BY DEF TrueStates
<1>5. Rec(TrueStates(layout), Len(layout))
  BY <1>3, <1>4
<1> DEFINE st == TrueStates(layout)
<1>6. \A i \in 0..Len(layout) : st[i] = IF i = 0 THEN TrueStart
                                        ELSE TrueItem(st[i - 1], layout[i])
  <2>1. Rec(st, Len(layout))
    BY <1>5
  <2> HIDE DEF st
  <2> QED BY <2>1, <1>2
<1> QED BY <1>6, <1>2
(* What the code keeps of a line while it strips it, and what the standard      *)
(* says of the same line.                                                      *)
Blocks == {NotIn, Begin, End, Full}
StripState == [blk : Blocks, quoted : BOOLEAN, stopped : BOOLEAN, first : STRING \cup {""}]
TrueState == [in : BOOLEAN, quoted : BOOLEAN, stopped : BOOLEAN, first : STRING \cup {""}]

(* They agree. A line that is still in the comment it started in has had no     *)
(* text yet: that is why filter_macros() may look at it at all.                 *)
Agree(st, tr) ==
  /\ st.blk \in {Begin, Full} <=> tr.in
  /\ st.quoted = tr.quoted
  /\ st.stopped = tr.stopped
  /\ st.first = tr.first
  /\ st.blk = Full => st.first = ""

(* What one item does.                                                          *)
LEMMA StripItemType ==
  ASSUME NEW st \in StripState, NEW item \in STRING, NEW d
  PROVE StripItem(st, item, d) \in StripState
  BY DEF StripItem, StripState, Blocks, IsQuote, Full, Begin, End, NotIn

LEMMA TrueItemType ==
  ASSUME NEW tr \in TrueState, NEW item \in STRING
  PROVE TrueItem(tr, item) \in TrueState
  BY DEF TrueItem, TrueState

LEMMA AgreeItem ==
  ASSUME StripComments = "STRIP_ALL", NEW st \in StripState, NEW tr \in TrueState,
         NEW item \in STRING, NEW d, Agree(st, tr)
  PROVE Agree(StripItem(st, item, d), TrueItem(tr, item))
<1> USE DEF StripItem, TrueItem, Agree, StripState, TrueState, Blocks, IsQuote, Full, Begin, End, NotIn
<1>1. CASE st.stopped
  <2>1. StripItem(st, item, d) = st
    BY <1>1
  <2>2. tr.stopped
    BY <1>1, Zenon
  <2>3. TrueItem(tr, item) = tr
    BY <2>2
  <2> QED BY <2>1, <2>3
<1>2. CASE ~st.stopped /\ st.blk \in {Full, Begin}
  BY <1>2
<1>3. CASE ~st.stopped /\ st.blk \notin {Full, Begin} /\ (st.quoted \/ item = "'")
  BY <1>3
<1>4. CASE ~st.stopped /\ st.blk \notin {Full, Begin} /\ ~(st.quoted \/ item = "'")
  BY <1>4
<1> QED BY <1>1, <1>2, <1>3, <1>4

(* What a whole line comes to.                                                  *)
LEMMA StripType ==
  ASSUME strip_in_block \in Blocks, NEW layout \in Seq(STRING)
  PROVE \A n \in 0..Len(layout) : StripStates(layout)[n] \in StripState
<1> DEFINE st == StripStates(layout)
           G == {n \in Nat : st[n] \in StripState}
<1>1. 0 \in G
  <2>1. StripStart \in StripState
    BY DEF StripStart, StripState, NextLineBlock, Blocks, Full, Begin, End, NotIn
  <2>2. st[0] = StripStart
    BY StripUnfolds
  <2> QED BY <2>1, <2>2
<1>2. ASSUME NEW n \in 1..Len(layout), n - 1 \in G PROVE n \in G
  <2>1. st[n] = StripItem(st[n - 1], layout[n], Head(layout) = "#")
    BY StripUnfolds
  <2>2. layout[n] \in STRING /\ st[n - 1] \in StripState
    BY <1>2
  <2>3. st[n] \in StripState
    BY <2>1, <2>2, StripItemType
  <2> QED BY <2>3
<1>3. Len(layout) \in Nat
  OBVIOUS
<1> HIDE DEF G
<1>4. \A n \in 0..Len(layout) : n \in G
  BY <1>1, <1>2, <1>3, UpTo
<1> QED BY <1>4 DEF G

LEMMA TrueType ==
  ASSUME incomment \in BOOLEAN, NEW layout \in Seq(STRING)
  PROVE \A n \in 0..Len(layout) : TrueStates(layout)[n] \in TrueState
<1> DEFINE tr == TrueStates(layout)
           G == {n \in Nat : tr[n] \in TrueState}
<1>1. 0 \in G
  <2>1. TrueStart \in TrueState
    BY DEF TrueStart, TrueState
  <2>2. tr[0] = TrueStart
    BY TrueUnfolds
  <2> QED BY <2>1, <2>2
<1>2. ASSUME NEW n \in 1..Len(layout), n - 1 \in G PROVE n \in G
  <2>1. tr[n] = TrueItem(tr[n - 1], layout[n])
    BY TrueUnfolds
  <2>2. layout[n] \in STRING /\ tr[n - 1] \in TrueState
    BY <1>2
  <2>3. tr[n] \in TrueState
    BY <2>1, <2>2, TrueItemType
  <2> QED BY <2>3
<1>3. Len(layout) \in Nat
  OBVIOUS
<1> HIDE DEF G
<1>4. \A n \in 0..Len(layout) : n \in G
  BY <1>1, <1>2, <1>3, UpTo
<1> QED BY <1>4 DEF G

LEMMA Agreement ==
  ASSUME StripComments = "STRIP_ALL", strip_in_block \in Blocks, incomment \in BOOLEAN,
         strip_in_block \in {Begin, Full} <=> incomment, NEW layout \in Seq(STRING)
  PROVE Agree(strip_comment(layout), TrueLine(layout))
<1> DEFINE st == StripStates(layout)
           tr == TrueStates(layout)
           G == {n \in Nat : Agree(st[n], tr[n])}
<1>1. 0 \in G
  <2>1. Agree(StripStart, TrueStart)
    BY DEF StripStart, TrueStart, NextLineBlock, Blocks, Full, Begin, End, NotIn, Agree
  <2>2. st[0] = StripStart /\ tr[0] = TrueStart
    BY StripUnfolds, TrueUnfolds
  <2> QED BY <2>1, <2>2
<1>2. ASSUME NEW n \in 1..Len(layout), n - 1 \in G PROVE n \in G
  <2>1. st[n - 1] \in StripState /\ tr[n - 1] \in TrueState /\ layout[n] \in STRING
    BY StripType, TrueType
  <2>2. Agree(StripItem(st[n - 1], layout[n], Head(layout) = "#"), TrueItem(tr[n - 1], layout[n]))
    BY <1>2, <2>1, AgreeItem
  <2> QED BY <2>2, StripUnfolds, TrueUnfolds
<1>3. Len(layout) \in Nat
  OBVIOUS
<1> HIDE DEF G
<1>4. \A n \in 0..Len(layout) : n \in G
  BY <1>1, <1>2, <1>3, UpTo
<1> QED BY <1>4 DEF G, strip_comment, TrueLine

-----------------------------------------------------------------------------
(* Which steps strip a line: every one that reads one to its end.              *)
Strips ==
  \E layout \in Layouts, isDirective \in BOOLEAN :
    Strip(strip_comment(layout), TrueLine(layout), isDirective)

LEMMA StepStrips ==
  [Next]_vars =>
    \/ Strips
    \/ strip_in_block' = NextLineBlock(strip_in_block) /\ UNCHANGED <<incomment, stray>>
    \/ UNCHANGED <<strip_in_block, incomment, stray>>
<1> SUFFICES ASSUME [Next]_vars
             PROVE \/ Strips
                   \/ strip_in_block' = NextLineBlock(strip_in_block) /\ UNCHANGED <<incomment, stray>>
                   \/ UNCHANGED <<strip_in_block, incomment, stray>>
  OBVIOUS
<1>1. ASSUME NEW kind, DirectiveLine(kind) PROVE Strips
  BY <1>1 DEF DirectiveLine, Strips
<1>2. CASE UNCHANGED vars
  BY <1>2 DEF vars, readVars
<1>3. CASE TextLine
  BY <1>3 DEF TextLine, Strips
<1>4. CASE ReadSpliced \/ OwedLine \/ EndOfInclude \/ EndOfInput \/ Exited
  BY <1>4 DEF ReadSpliced, OwedLine, EndOfInclude, EndOfInput, Exited, vars, readVars
<1>5. CASE Ifdef \/ IfdefMalformed \/ If \/ Elif \/ Else \/ Endif
  BY <1>5, <1>1 DEF Ifdef, IfdefMalformed, If, Elif, Else, Endif, ConditionalLine
<1>6. CASE SkippedDirective \/ handle_define \/ handle_undef \/ Harmless \/ Fatal
  BY <1>6, <1>1 DEF SkippedDirective, handle_define, handle_undef, Harmless, Fatal
<1>7. CASE handle_line_directive \/ handle_include
  BY <1>7, <1>1 DEF handle_line_directive, handle_include
<1> QED BY <1>2, <1>3, <1>4, <1>5, <1>6, <1>7 DEF Next

BlockType == strip_in_block \in Blocks

LEMMA InitBlock == Init => BlockType
  BY DEF Init, BlockType, Blocks, NotIn

LEMMA NextBlock == BlockType /\ [Next]_vars => BlockType'
<1> SUFFICES ASSUME BlockType, [Next]_vars PROVE BlockType'
  OBVIOUS
<1>1. CASE Strips
  <2>1. PICK layout \in Layouts : strip_in_block' = strip_comment(layout).blk
    BY <1>1 DEF Strips, Strip
  <2>2. layout \in Seq(STRING)
    BY PreprocAssumption
  <2>3. Len(layout) \in 0..Len(layout)
    BY <2>2
  <2>4. strip_comment(layout) \in StripState
    BY <2>2, <2>3, StripType DEF BlockType, strip_comment
  <2> QED BY <2>1, <2>4 DEF BlockType, StripState
<1>2. CASE strip_in_block' = NextLineBlock(strip_in_block)
  BY <1>2 DEF BlockType, Blocks, NextLineBlock, NotIn, Begin, End, Full
<1>3. CASE UNCHANGED strip_in_block
  BY <1>3 DEF BlockType
<1> QED BY <1>1, <1>2, <1>3, StepStrips

(* The inductive invariant: CommentsNeverAct, whether cpp still runs or not.    *)
CommentInv ==
  /\ BlockType
  /\ incomment \in BOOLEAN
  /\ strip_in_block \in {Begin, Full} <=> incomment
  /\ stray = FALSE

LEMMA InitComment == Init => CommentInv
  BY DEF Init, CommentInv, BlockType, Blocks, NotIn, Begin, Full

LEMMA NextComment ==
  ASSUME StripComments = "STRIP_ALL" PROVE CommentInv /\ [Next]_vars => CommentInv'
<1> SUFFICES ASSUME CommentInv, [Next]_vars PROVE CommentInv'
  OBVIOUS
<1>1. BlockType'
  BY NextBlock DEF CommentInv
<1>2. CASE Strips
  <2>1. PICK layout \in Layouts, isDirective \in BOOLEAN :
          Strip(strip_comment(layout), TrueLine(layout), isDirective)
    BY <1>2 DEF Strips
  <2> DEFINE st == strip_comment(layout)
             tr == TrueLine(layout)
  <2>2. layout \in Seq(STRING) /\ Len(layout) \in 0..Len(layout)
    BY PreprocAssumption
  <2>3. tr \in TrueState
    BY <2>2, TrueType DEF CommentInv, TrueLine
  <2>4. Agree(st, tr)
    BY <2>2, Agreement DEF CommentInv, BlockType
  <2> HIDE DEF st, tr
  <2>5. isDirective <=> tr.first = "#"
    BY <2>1, <2>4 DEF Strip, IsDirective, Agree, st, tr
  <2>6. stray' = FALSE
    BY <2>1, <2>5 DEF Strip, CommentInv, tr
  <2>7. strip_in_block' = st.blk /\ incomment' = tr.in
    BY <2>1 DEF Strip, st, tr
  <2> QED BY <1>1, <2>3, <2>4, <2>6, <2>7 DEF CommentInv, Agree, TrueState
<1>3. CASE strip_in_block' = NextLineBlock(strip_in_block) /\ UNCHANGED <<incomment, stray>>
  BY <1>1, <1>3 DEF CommentInv, BlockType, Blocks, NextLineBlock, NotIn, Begin, End, Full
<1>4. CASE UNCHANGED <<strip_in_block, incomment, stray>>
  BY <1>4 DEF CommentInv, BlockType
<1> QED BY <1>2, <1>3, <1>4, StepStrips

(* When comments are stripped everywhere, as they are without -C and -CC, the    *)
(* preprocessor takes a line for a directive exactly when its first text outside *)
(* comments is a #, for lines of every length and every layout of comments and   *)
(* quotes over any number of lines, splices and files.                           *)
THEOREM CommentsCorrect ==
  ASSUME StripComments = "STRIP_ALL" PROVE Spec => []CommentsNeverAct
<1>1. CommentInv => CommentsNeverAct
  BY DEF CommentInv, CommentsNeverAct
<1> QED BY <1>1, InitComment, NextComment, PTL DEF Spec

-----------------------------------------------------------------------------
Found == [path : Tree, is_sysh : BOOLEAN]

(* The include search finds a file that exists. *)
LEMMA SearchFinds ==
  ASSUME NEW dirs, NEW name, In(dirs, name) # 0
  PROVE <<dirs[In(dirs, name)], name>> \in Tree
<1> DEFINE I == {i \in 1..Len(dirs) : <<dirs[i], name>> \in Tree}
<1>1. In(dirs, name) = IF I # {} THEN Min(I) ELSE 0
  BY DEF In, SelectInSeq
<1>2. I # {}
  BY <1>1
<1>3. I \in SUBSET Nat
  OBVIOUS
<1>4. \E x \in I : \A y \in I : x <= y
  BY <1>2, <1>3, NatMin
<1>5. Min(I) \in I
  <2> HIDE DEF I
  <2> QED BY <1>4 DEF Min
<1> QED BY <1>1, <1>2, <1>5

LEMMA FoundType ==
  ASSUME NEW curdir, NEW want \in Includes, NEW isAngle \in BOOLEAN,
         include_fopen(curdir, want, isAngle) # NoFile
  PROVE include_fopen(curdir, want, isAngle) \in Found
<1> DEFINE name == want[2]
           i == In(IncludeDirs, name)
           s == In(SystemDirs, name)
<1>1. CASE want[1] # ""
  BY <1>1 DEF include_fopen, Found, NoFile
<1>2. CASE want[1] = "" /\ ~isAngle /\ <<curdir, name>> \in Tree
  BY <1>2 DEF include_fopen, Found, NoFile
<1>3. CASE want[1] = "" /\ ~(~isAngle /\ <<curdir, name>> \in Tree)
  <2>1. i # 0 => <<IncludeDirs[i], name>> \in Tree
    BY SearchFinds
  <2>2. s # 0 => <<SystemDirs[s], name>> \in Tree
    BY SearchFinds
  <2>3. include_fopen(curdir, want, isAngle)
          = IF i # 0 THEN [path |-> <<IncludeDirs[i], name>>, is_sysh |-> FALSE]
            ELSE IF s # 0 THEN [path |-> <<SystemDirs[s], name>>, is_sysh |-> TRUE]
            ELSE NoFile
    BY <1>3 DEF include_fopen
  <2> HIDE DEF i, s, name
  <2> QED BY <2>1, <2>2, <2>3 DEF Found
<1> QED BY <1>1, <1>2, <1>3

-----------------------------------------------------------------------------
FileNames == Tree \cup {l.fname : l \in LineDirectives}
OpenFile == [fname : Tree, line_no : Int, is_sysh : BOOLEAN]
Position == [path : Tree, name : FileNames, line : Int]

StackType ==
  /\ file_stack \in Seq(OpenFile)
  /\ pos \in Seq(Position)
  /\ cd_stack \in Seq({p[1] : p \in Tree})
  /\ current_line \in Int

(* The three stacks are about the same files. *)
StackInv ==
  /\ StackType
  /\ Len(file_stack) \in 1..N_FILES
  /\ Len(pos) = Len(file_stack) /\ Len(cd_stack) = Len(file_stack)
  /\ \A i \in 1..Len(pos) : /\ file_stack[i].fname = pos[i].path
                            /\ cd_stack[i] = pos[i].path[1]

(* What a step may do to the stacks: nothing but move on in the current file,  *)
(* enter a file or leave one.                                                  *)
Stays ==
  /\ UNCHANGED <<file_stack, cd_stack>>
  /\ current_line' \in Int
  /\ \E p \in Position : p.path = Here.path /\ pos' = Moved(p)

Enters ==
  /\ Len(file_stack) # N_FILES
  /\ \E found \in Found, line \in Int :
       /\ file_stack' = Append([file_stack EXCEPT ![Len(file_stack)].line_no = line],
                               [fname |-> found.path, line_no |-> 1, is_sysh |-> found.is_sysh])
       /\ cd_stack' = Append(cd_stack, found.path[1])
       /\ current_line' = 1
       /\ \E p \in Position :
            /\ p.path = Here.path
            /\ pos' = Append(Moved(p), [path |-> found.path, name |-> found.path, line |-> 1])

Leaves ==
  /\ Len(file_stack) > 1
  /\ file_stack' = Front(file_stack)
  /\ cd_stack' = Front(cd_stack)
  /\ pos' = Front(pos)
  /\ current_line' = file_stack[Len(file_stack) - 1].line_no

LEMMA HereType == ASSUME StackInv PROVE Len(pos) \in 1..Len(pos) /\ Here \in Position
  BY DEF StackInv, StackType, Here

LEMMA LineStays ==
  ASSUME StackInv
  PROVE /\ LineNo \in Int
        /\ \E p \in Position : p.path = Here.path /\ LinePos = Moved(p)
        /\ \E p \in Position : p.path = Here.path /\ pos = Moved(p)
        /\ \E p \in Position : p.path = Here.path /\ NextPos = Moved(p)
<1>1. Here \in Position /\ Len(pos) \in 1..Len(pos)
  BY HereType
<1>2. pos = Moved(Here)
  BY <1>1 DEF Moved, Here, StackInv, StackType
<1>3. [Here EXCEPT !.line = @ + 1] \in Position /\ [Here EXCEPT !.line = @ + 1].path = Here.path
  BY <1>1 DEF Position
<1>4. LineNo \in Int
  BY DEF LineNo, StackInv, StackType
<1> QED BY <1>1, <1>2, <1>3, <1>4 DEF LinePos, NextPos

LEMMA PlainStays ==
  ASSUME StackInv, PlainPosition, UNCHANGED <<file_stack, cd_stack>> PROVE Stays
  BY LineStays DEF PlainPosition, Stays

LEMMA LineDirectiveStays ==
  ASSUME StackInv, handle_line_directive PROVE Stays
<1>1. PICK l \in LineDirectives :
        LET trueName == IF l.fname = NoName THEN Here.name ELSE l.fname
        IN /\ current_line' = l.n - 1
           /\ pos' = IF Active(groups)
                     THEN Moved([Here EXCEPT !.line = l.n, !.name = trueName])
                     ELSE LinePos
  BY DEF handle_line_directive
<1> DEFINE p == [Here EXCEPT !.line = l.n, !.name = IF l.fname = NoName THEN Here.name ELSE l.fname]
<1>2. l.n \in Nat /\ l.fname \in FileNames
  BY PreprocAssumption DEF FileNames
<1>3. Here \in Position
  BY HereType
<1>4. p \in Position /\ p.path = Here.path
  <2>1. \A h \in Position, n \in Int, name \in FileNames :
          /\ [h EXCEPT !.line = n, !.name = name] \in Position
          /\ [h EXCEPT !.line = n, !.name = name].path = h.path
    BY DEF Position
  <2>2. Here.name \in FileNames
    BY <1>3 DEF Position
  <2> DEFINE name == IF l.fname = NoName THEN Here.name ELSE l.fname
  <2>3. name \in FileNames /\ p = [Here EXCEPT !.line = l.n, !.name = name]
    BY <1>2, <2>2
  <2>4. l.n \in Int
    BY <1>2
  <2> HIDE DEF p, name
  <2>5. /\ [Here EXCEPT !.line = l.n, !.name = name] \in Position
        /\ [Here EXCEPT !.line = l.n, !.name = name].path = Here.path
    BY <1>3, <2>1, <2>3, <2>4, Zenon
  <2> QED BY <2>3, <2>5, Zenon
<1>5. pos' = Moved(p) \/ pos' = LinePos
  BY <1>1
<1>6. \E q \in Position : q.path = Here.path /\ pos' = Moved(q)
  <2> HIDE DEF p
  <2> QED BY <1>4, <1>5, LineStays
<1>7. UNCHANGED <<file_stack, cd_stack>>
  BY DEF handle_line_directive, fileVars
<1>8. current_line' \in Int
  BY <1>1, <1>2
<1> QED BY <1>6, <1>7, <1>8 DEF Stays

LEMMA IncludeStaysOrEnters ==
  ASSUME StackInv, handle_include PROVE Stays \/ Enters
<1>1. PICK want \in Includes, isAngle \in BOOLEAN :
        LET found == include_fopen(cd_stack[Len(cd_stack)], want, isAngle)
        IN \/ PlainPosition /\ UNCHANGED <<file_stack, cd_stack>>
           \/ found # NoFile /\ Len(file_stack) # N_FILES /\ Enter(found)
  BY DEF handle_include
<1> DEFINE found == include_fopen(cd_stack[Len(cd_stack)], want, isAngle)
<1>2. CASE PlainPosition /\ UNCHANGED <<file_stack, cd_stack>>
  BY <1>2, PlainStays
<1>3. CASE found # NoFile /\ Len(file_stack) # N_FILES /\ Enter(found)
  <2>1. found \in Found
    BY <1>3, FoundType
  <2> HIDE DEF found
  <2>2. LineNo \in Int /\ \E p \in Position : p.path = Here.path /\ LinePos = Moved(p)
    BY LineStays
  <2> QED BY <1>3, <2>1, <2>2 DEF Enter, Enters, preproc_push, dirname_push
<1> QED BY <1>1, <1>2, <1>3

LEMMA StackStep ==
  ASSUME StackInv, [Next]_vars PROVE Stays \/ Enters \/ Leaves
<1>1. CASE UNCHANGED vars \/ Exited \/ OwedLine \/ EndOfInput
  BY <1>1, LineStays DEF vars, Exited, OwedLine, EndOfInput, lineVars, fileVars, Stays, StackInv, StackType
<1>2. CASE ReadSpliced
  <2>1. current_line' \in Int
    BY <1>2 DEF ReadSpliced, StackInv, StackType
  <2> QED BY <1>2, <2>1, LineStays DEF ReadSpliced, fileVars, Stays
<1>3. CASE TextLine
  BY <1>3, PlainStays DEF TextLine, fileVars
<1>4. CASE Ifdef \/ IfdefMalformed \/ If \/ Elif \/ Else \/ Endif
  BY <1>4, PlainStays DEF Ifdef, IfdefMalformed, If, Elif, Else, Endif, ConditionalLine, fileVars
<1>5. CASE SkippedDirective \/ handle_define \/ handle_undef \/ Harmless \/ Fatal
  BY <1>5, PlainStays DEF SkippedDirective, handle_define, handle_undef, Harmless, Fatal, fileVars
<1>6. CASE handle_line_directive
  BY <1>6, LineDirectiveStays
<1>7. CASE handle_include
  BY <1>7, IncludeStaysOrEnters
<1>8. CASE EndOfInclude
  BY <1>8 DEF EndOfInclude, RestoreState, Leaves
<1> QED BY <1>1, <1>2, <1>3, <1>4, <1>5, <1>6, <1>7, <1>8 DEF Next

-----------------------------------------------------------------------------
LEMMA InitStack == Init => StackInv
<1> SUFFICES ASSUME Init PROVE StackInv
  OBVIOUS
<1>1. Main \in Tree /\ N_FILES \in Nat \ {0}
  BY PreprocAssumption
<1>2. [fname |-> Main, line_no |-> 1, is_sysh |-> FALSE] \in OpenFile
      /\ [path |-> Main, name |-> Main, line |-> 1] \in Position
      /\ Main[1] \in {p[1] : p \in Tree}
  BY <1>1 DEF OpenFile, Position, FileNames
<1>3. StackType
  BY <1>2 DEF Init, StackType
<1> QED BY <1>1, <1>3 DEF Init, StackInv

LEMMA StaysKeeps == ASSUME StackInv, Stays PROVE StackInv'
<1>1. PICK p \in Position : p.path = Here.path /\ pos' = [pos EXCEPT ![Len(pos)] = p]
  BY DEF Stays, Moved
<1>2. /\ pos' \in Seq(Position) /\ Len(pos') = Len(pos)
      /\ \A j \in 1..Len(pos) : pos'[j] = IF j = Len(pos) THEN p ELSE pos[j]
  BY <1>1, HereType, ExceptSeq DEF StackInv, StackType
<1>3. \A j \in 1..Len(pos) : pos'[j].path = pos[j].path
  BY <1>1, <1>2 DEF Here
<1> QED BY <1>2, <1>3 DEF Stays, StackInv, StackType

(* What Append makes. *)
LEMMA AppendFacts ==
  ASSUME NEW S, NEW s \in Seq(S), NEW q \in S
  PROVE  /\ Append(s, q) \in Seq(S) /\ Len(Append(s, q)) = Len(s) + 1
         /\ Append(s, q)[Len(s) + 1] = q /\ \A j \in 1..Len(s) : Append(s, q)[j] = s[j]
BY AppendProperties

LEMMA EntersKeeps == ASSUME StackInv, Enters PROVE StackInv'
<1>1. PICK found \in Found, line \in Int, p \in Position :
       /\ file_stack' = Append([file_stack EXCEPT ![Len(file_stack)].line_no = line],
                               [fname |-> found.path, line_no |-> 1, is_sysh |-> found.is_sysh])
       /\ cd_stack' = Append(cd_stack, found.path[1])
       /\ current_line' = 1
       /\ p.path = Here.path
       /\ pos' = Append(Moved(p), [path |-> found.path, name |-> found.path, line |-> 1])
  BY DEF Enters
<1> DEFINE n == Len(file_stack)
           fs == [file_stack EXCEPT ![n].line_no = line]
           f == [fname |-> found.path, line_no |-> 1, is_sysh |-> found.is_sysh]
           q == [path |-> found.path, name |-> found.path, line |-> 1]
<1>2. n \in 1..n /\ n \in Nat /\ n + 1 \in 1..N_FILES /\ Len(pos) = n /\ Len(cd_stack) = n
  BY PreprocAssumption DEF StackInv, StackType, Enters
<1>3. file_stack[n] \in OpenFile
  BY <1>2 DEF StackInv, StackType
<1>4. [file_stack[n] EXCEPT !.line_no = line] \in OpenFile
      /\ fs = [file_stack EXCEPT ![n] = [file_stack[n] EXCEPT !.line_no = line]]
  BY <1>3 DEF OpenFile
<1>5. /\ fs \in Seq(OpenFile) /\ Len(fs) = n
      /\ \A j \in 1..n : fs[j].fname = file_stack[j].fname
  <2>1. /\ fs \in Seq(OpenFile) /\ Len(fs) = n
        /\ \A j \in 1..n : fs[j] = IF j = n THEN [file_stack[n] EXCEPT !.line_no = line]
                                             ELSE file_stack[j]
    <3> HIDE DEF fs
    <3> QED BY <1>2, <1>4, ExceptSeq DEF StackInv, StackType
  <2> HIDE DEF fs
  <2> QED BY <2>1, <1>3 DEF OpenFile
<1>6. /\ Moved(p) \in Seq(Position) /\ Len(Moved(p)) = n
      /\ \A j \in 1..n : Moved(p)[j].path = pos[j].path
  <2>1. /\ Moved(p) \in Seq(Position) /\ Len(Moved(p)) = n
        /\ \A j \in 1..n : Moved(p)[j] = IF j = n THEN p ELSE pos[j]
    BY <1>2, ExceptSeq DEF StackInv, StackType, Moved
  <2> QED BY <2>1, <1>1, <1>2 DEF Here
<1>7. f \in OpenFile /\ q \in Position /\ found.path[1] \in {r[1] : r \in Tree}
  BY DEF OpenFile, Position, Found, FileNames
<1>8. /\ file_stack' \in Seq(OpenFile) /\ Len(file_stack') = n + 1
      /\ \A j \in 1..n : file_stack'[j].fname = file_stack[j].fname
      /\ file_stack'[n + 1].fname = found.path
  <2> HIDE DEF fs
  <2> QED BY <1>1, <1>2, <1>5, <1>7, AppendProperties DEF fs
<1>9. /\ pos' \in Seq(Position) /\ Len(pos') = n + 1
      /\ \A j \in 1..n : pos'[j].path = pos[j].path
      /\ pos'[n + 1].path = found.path
  <2> DEFINE s == Moved(p)
  <2>1. pos' = Append(s, q) /\ q.path = found.path
    BY <1>1
  <2>2. s \in Seq(Position) /\ Len(s) = n /\ \A j \in 1..n : s[j].path = pos[j].path
    BY <1>6
  <2>3. q \in Position
    BY <1>7
  <2> HIDE DEF s, q
  <2>4. /\ Append(s, q) \in Seq(Position) /\ Len(Append(s, q)) = Len(s) + 1
        /\ Append(s, q)[Len(s) + 1] = q /\ \A j \in 1..Len(s) : Append(s, q)[j] = s[j]
    BY <2>2, <2>3, AppendFacts
  <2> HIDE DEF n
  <2>5. \A j \in 1..n : pos'[j].path = pos[j].path
    BY <2>1, <2>2, <2>4
  <2>6. pos' \in Seq(Position) /\ Len(pos') = n + 1 /\ pos'[n + 1].path = found.path
    BY <2>1, <2>2, <2>4
  <2> QED BY <2>5, <2>6
<1>10. /\ cd_stack' \in Seq({r[1] : r \in Tree}) /\ Len(cd_stack') = n + 1
       /\ \A j \in 1..n : cd_stack'[j] = cd_stack[j]
       /\ cd_stack'[n + 1] = found.path[1]
  BY <1>1, <1>2, <1>7, AppendProperties DEF StackInv, StackType
<1>11. \A i \in 1..(n + 1) : /\ file_stack'[i].fname = pos'[i].path
                              /\ cd_stack'[i] = pos'[i].path[1]
  <2> TAKE i \in 1..(n + 1)
  <2>1. CASE i \in 1..n
    BY <2>1, <1>2, <1>8, <1>9, <1>10 DEF StackInv
  <2>2. CASE i = n + 1
    BY <2>2, <1>8, <1>9, <1>10
  <2> QED BY <1>2, <2>1, <2>2
<1>12. current_line' \in Int
  BY <1>1
<1> HIDE DEF n
<1> QED BY <1>2, <1>8, <1>9, <1>10, <1>11, <1>12 DEF StackInv, StackType

(* Dropping the last of a sequence. *)
LEMMA FrontProperties ==
  ASSUME NEW S, NEW s \in Seq(S), Len(s) > 0
  PROVE /\ Front(s) \in Seq(S)
        /\ Len(Front(s)) = Len(s) - 1
        /\ \A i \in 1..(Len(s) - 1) : Front(s)[i] = s[i]
<1>1. Len(s) - 1 \in Int /\ \A i \in 1..(Len(s) - 1) : s[i] \in S
  OBVIOUS
<1>2. /\ SubSeq(s, 1, Len(s) - 1) \in Seq(S)
      /\ Len(SubSeq(s, 1, Len(s) - 1)) = IF 1 <= Len(s) - 1 THEN Len(s) - 1 - 1 + 1 ELSE 0
      /\ \A i \in 1..(Len(s) - 1 - 1 + 1) : SubSeq(s, 1, Len(s) - 1)[i] = s[1 + i - 1]
  BY <1>1, SubSeqProperties
<1>3. Len(s) \in Nat /\ Len(s) - 1 - 1 + 1 = Len(s) - 1 /\ \A i \in 1..(Len(s) - 1) : 1 + i - 1 = i
  OBVIOUS
<1> DEFINE f == SubSeq(s, 1, Len(s) - 1)
<1>4. f = Front(s)
  BY DEF Front
<1> HIDE DEF f
<1>5. /\ f \in Seq(S)
      /\ Len(f) = IF 1 <= Len(s) - 1 THEN Len(s) - 1 ELSE 0
      /\ \A i \in 1..(Len(s) - 1) : f[i] = s[i]
  BY <1>2, <1>3 DEF f
<1>6. Len(f) = Len(s) - 1
  <2>1. Len(f) = IF 1 <= Len(s) - 1 THEN Len(s) - 1 ELSE 0
    BY <1>5, Zenon
  <2>2. Len(s) \in Nat /\ Len(s) > 0
    BY <1>3
  <2>3. \A n \in Nat : n > 0 => (IF 1 <= n - 1 THEN n - 1 ELSE 0) = n - 1
    OBVIOUS
  <2> QED BY <2>1, <2>2, <2>3, Zenon
<1> QED BY <1>4, <1>5, <1>6, Zenon

LEMMA LeavesKeeps == ASSUME StackInv, Leaves PROVE StackInv'
<1>1. /\ Len(file_stack) > 1 /\ Len(pos) = Len(file_stack) /\ Len(cd_stack) = Len(file_stack)
      /\ Len(file_stack) \in 1..N_FILES
  BY DEF Leaves, StackInv
<1>2. /\ file_stack' \in Seq(OpenFile) /\ Len(file_stack') = Len(file_stack) - 1
      /\ \A i \in 1..(Len(file_stack) - 1) : file_stack'[i] = file_stack[i]
  BY <1>1, FrontProperties DEF Leaves, StackInv, StackType
<1>3. /\ pos' \in Seq(Position) /\ Len(pos') = Len(file_stack) - 1
      /\ \A i \in 1..(Len(file_stack) - 1) : pos'[i] = pos[i]
  BY <1>1, FrontProperties DEF Leaves, StackInv, StackType
<1>4. /\ cd_stack' \in Seq({p[1] : p \in Tree}) /\ Len(cd_stack') = Len(file_stack) - 1
      /\ \A i \in 1..(Len(file_stack) - 1) : cd_stack'[i] = cd_stack[i]
  BY <1>1, FrontProperties DEF Leaves, StackInv, StackType
<1>5. current_line' \in Int
  <2>1. file_stack[Len(file_stack) - 1] \in OpenFile
    BY <1>1 DEF StackInv, StackType
  <2> QED BY <2>1 DEF Leaves, OpenFile
<1>6. \A i \in 1..(Len(file_stack) - 1) : /\ file_stack'[i].fname = pos'[i].path
                                           /\ cd_stack'[i] = pos'[i].path[1]
  BY <1>1, <1>2, <1>3, <1>4 DEF StackInv
<1>7. Len(file_stack) - 1 \in 1..N_FILES
  BY <1>1, PreprocAssumption
<1> QED BY <1>2, <1>3, <1>4, <1>5, <1>6, <1>7 DEF StackInv, StackType

LEMMA NextStack == StackInv /\ [Next]_vars => StackInv'
  BY StackStep, StaysKeeps, EntersKeeps, LeavesKeeps

LEMMA StackInvariant == Spec => []StackInv
<1> QED BY InitStack, NextStack, PTL DEF Spec

(* A quoted include is looked for next to the file that asks for it, for every   *)
(* tree of files, every depth of includes and every way through them.            *)
THEOREM QuotedCorrect == Spec => []QuotedFromOwnDirectory
<1>1. StackInv => QuotedFromOwnDirectory
  BY HereType DEF StackInv, QuotedFromOwnDirectory, Here
<1> QED BY <1>1, StackInvariant, PTL
-----------------------------------------------------------------------------
(* cc1's reader. *)

MarkEntry == [fnam : FileNames, lno : Int, sysh : BOOLEAN]
CcState == [stack : Seq(MarkEntry), fname : FileNames, sysh : BOOLEAN, line : Int, icw : BOOLEAN,
            astray : BOOLEAN]
Fits(c) == c \in CcState /\ Len(c.stack) <= FNAME_STACK_N

(* Names come and go without a change to the line, and what was lost stays lost. *)
KeepsLine(c, d) == d.line = c.line /\ (c.astray => d.astray)

(* A set of positions in a sequence has a last one. *)
LEMMA LastOf ==
  ASSUME NEW k \in Nat, NEW T \in SUBSET (1..k), T # {}
  PROVE Max(T) \in T /\ \A y \in T : y <= Max(T)
<1> DEFINE D == {n \in Nat : \E i \in T : n = k - i}
<1>1. D # {}
  <2>1. PICK i \in T : TRUE
    OBVIOUS
  <2>2. k - i \in D
    BY <2>1
  <2> QED BY <2>2
<1>2. D \in SUBSET Nat
  OBVIOUS
<1>3. PICK n \in D : \A m \in D : n <= m
  <2> HIDE DEF D
  <2> QED BY <1>1, <1>2, NatMin
<1>4. PICK x \in T : n = k - x
  OBVIOUS
<1>5. ASSUME NEW y \in T PROVE x >= y
  <2>1. k - y \in D
    OBVIOUS
  <2>2. n <= k - y
    BY <1>3, <2>1
  <2> QED BY <1>4, <2>2
<1>6. \E z \in T : \A y \in T : z >= y
  BY <1>5
<1>7. Max(T) \in T /\ \A y \in T : Max(T) >= y
  BY <1>6 DEF Max
<1>8. \A i \in T : i \in Nat
  OBVIOUS
<1> QED BY <1>7, <1>8

LEMMA PushFits ==
  ASSUME NEW c, Fits(c), NEW fnam \in FileNames, NEW lno \in Int, NEW sysh \in BOOLEAN
  PROVE /\ Fits(push_fname(c, fnam, lno, sysh)) /\ Len(c.stack) <= Len(push_fname(c, fnam, lno, sysh).stack)
        /\ KeepsLine(c, push_fname(c, fnam, lno, sysh))
<1>1. c \in CcState /\ Len(c.stack) <= FNAME_STACK_N /\ c.stack \in Seq(MarkEntry)
  BY DEF Fits, CcState
<1> DEFINE e == [fnam |-> fnam, lno |-> lno, sysh |-> sysh]
           s == IF Len(c.stack) < FNAME_STACK_N THEN Append(c.stack, e) ELSE c.stack
<1>2. e \in MarkEntry
  BY DEF MarkEntry
<1>3. s \in Seq(MarkEntry) /\ Len(s) <= FNAME_STACK_N /\ Len(c.stack) <= Len(s)
  BY <1>1, <1>2, FnameStackAssumption, AppendProperties
<1> DEFINE a == c.astray \/ CannotReturn(c.stack, fnam)
<1>4. push_fname(c, fnam, lno, sysh) = [c EXCEPT !.fname = fnam, !.sysh = sysh, !.astray = a, !.stack = s]
  BY <1>1 DEF push_fname, CcState
<1>5. a \in BOOLEAN /\ (c.astray => a)
  BY <1>1 DEF CcState, CannotReturn
<1> HIDE DEF s, a
<1> QED BY <1>1, <1>3, <1>4, <1>5 DEF Fits, CcState, KeepsLine

LEMMA PopFits ==
  ASSUME NEW c, Fits(c), NEW n \in 1..Len(c.stack)
  PROVE Fits(pop_fname(c, n)) /\ Len(pop_fname(c, n).stack) = n /\ KeepsLine(c, pop_fname(c, n))
<1>1. c \in CcState /\ Len(c.stack) <= FNAME_STACK_N /\ c.stack \in Seq(MarkEntry) /\ Len(c.stack) \in Nat
  BY DEF Fits, CcState
<1>2. c.stack[n] \in MarkEntry
  BY <1>1
<1>3. SubSeq(c.stack, 1, n) \in Seq(MarkEntry) /\ Len(SubSeq(c.stack, 1, n)) = n
  BY <1>1
<1>4. CASE n < Len(c.stack)
  <2>1. pop_fname(c, n) = [c EXCEPT !.stack = SubSeq(c.stack, 1, n), !.fname = c.stack[n].fnam,
                                    !.sysh = c.stack[n].sysh]
    BY <1>4 DEF pop_fname
  <2> DEFINE s == SubSeq(c.stack, 1, n)
             f == c.stack[n].fnam
             y == c.stack[n].sysh
  <2>2. f \in FileNames /\ y \in BOOLEAN
    BY <1>2 DEF MarkEntry
  <2>3. s \in Seq(MarkEntry) /\ Len(s) = n /\ n <= FNAME_STACK_N
    BY <1>1, <1>3, FnameStackAssumption
  <2>4. pop_fname(c, n) = [c EXCEPT !.stack = s, !.fname = f, !.sysh = y]
    BY <2>1
  <2> HIDE DEF s, f, y
  <2>5. /\ [c EXCEPT !.stack = s, !.fname = f, !.sysh = y] \in CcState
        /\ [c EXCEPT !.stack = s, !.fname = f, !.sysh = y].stack = s
        /\ KeepsLine(c, [c EXCEPT !.stack = s, !.fname = f, !.sysh = y])
    BY <1>1, <2>2, <2>3 DEF CcState, KeepsLine
  <2> QED BY <2>3, <2>4, <2>5 DEF Fits
<1>5. CASE ~(n < Len(c.stack))
  BY <1>1, <1>5 DEF pop_fname, KeepsLine
<1> QED BY <1>4, <1>5

LEMMA UpdateFits ==
  ASSUME NEW c, Fits(c), c.stack # <<>>, NEW lno \in Int, NEW sysh \in BOOLEAN
  PROVE /\ Fits(update_stack(c, lno, sysh)) /\ Len(update_stack(c, lno, sysh).stack) = Len(c.stack)
        /\ KeepsLine(c, update_stack(c, lno, sysh))
<1>1. c \in CcState /\ Len(c.stack) <= FNAME_STACK_N /\ c.stack \in Seq(MarkEntry)
  BY DEF Fits, CcState
<1>2. Len(c.stack) \in 1..Len(c.stack) /\ c.stack[Len(c.stack)] \in MarkEntry
  BY <1>1
<1> DEFINE e == [c.stack[Len(c.stack)] EXCEPT !.lno = lno, !.sysh = sysh]
           s == [c.stack EXCEPT ![Len(c.stack)] = e]
<1>3. e \in MarkEntry
  BY <1>2 DEF MarkEntry
<1>4. s \in Seq(MarkEntry) /\ Len(s) = Len(c.stack)
  <2> HIDE DEF e
  <2> QED BY <1>1, <1>2, <1>3, ExceptSeq
<1>5. update_stack(c, lno, sysh) = [c EXCEPT !.stack = s, !.sysh = sysh]
  BY <1>1 DEF update_stack, CcState
<1> HIDE DEF s
<1> QED BY <1>1, <1>4, <1>5 DEF Fits, CcState, KeepsLine

LEMMA ReturnFits ==
  ASSUME NEW c, Fits(c), NEW fnam
  PROVE /\ Fits(ReturnTo(c, fnam)) /\ (c.stack # <<>> => ReturnTo(c, fnam).stack # <<>>)
        /\ KeepsLine(c, ReturnTo(c, fnam))
<1>1. c \in CcState /\ Len(c.stack) \in Nat /\ DOMAIN c.stack = 1..Len(c.stack)
  BY DEF Fits, CcState
<1> DEFINE Named == {i \in DOMAIN c.stack : c.stack[i].fnam = fnam}
<1>2. CASE Named = {}
  <2>1. ReturnTo(c, fnam) = [c EXCEPT !.icw = TRUE]
    BY <1>2 DEF ReturnTo
  <2> QED BY <1>1, <2>1 DEF Fits, CcState, KeepsLine
<1>3. CASE Named # {}
  <2>1. Named \in SUBSET (1..Len(c.stack))
    BY <1>1
  <2>2. Max(Named) \in 1..Len(c.stack)
    <3> HIDE DEF Named
    <3> QED BY <1>1, <1>3, <2>1, LastOf
  <2>3. ReturnTo(c, fnam) = pop_fname(c, Max(Named))
    BY <1>3 DEF ReturnTo
  <2> HIDE DEF Named
  <2>4. /\ Fits(pop_fname(c, Max(Named))) /\ Len(pop_fname(c, Max(Named)).stack) = Max(Named)
        /\ KeepsLine(c, pop_fname(c, Max(Named)))
    BY <2>2, PopFits
  <2>5. pop_fname(c, Max(Named)).stack # <<>>
    BY <2>2, <2>4
  <2> QED BY <2>3, <2>4, <2>5
<1> QED BY <1>2, <1>3

LEMMA RenumberFits ==
  ASSUME NEW c, Fits(c), NEW top \in 0..Len(c.stack), NEW lno \in Int, NEW fnam, NEW flag,
         NEW sysh \in BOOLEAN
  PROVE Fits(Renumber(c, top, lno, fnam, flag, sysh)) /\ KeepsLine(c, Renumber(c, top, lno, fnam, flag, sysh))
<1>1. Len(c.stack) \in Nat
  BY DEF Fits, CcState
<1>2. CASE flag = "start" \/ top = 0
  BY <1>2 DEF Renumber, KeepsLine
<1>3. CASE ~(flag = "start" \/ top = 0)
  <2>1. c.stack # <<>> /\ 1 \in 1..Len(c.stack)
    BY <1>1, <1>3
  <2>2. /\ Fits(pop_fname(c, 1)) /\ Fits(update_stack(c, lno, sysh))
        /\ KeepsLine(c, pop_fname(c, 1)) /\ KeepsLine(c, update_stack(c, lno, sysh)) /\ KeepsLine(c, c)
    BY <2>1, PopFits, UpdateFits DEF KeepsLine
  <2>3. \/ Renumber(c, top, lno, fnam, flag, sysh) = pop_fname(c, 1)
        \/ Renumber(c, top, lno, fnam, flag, sysh) = update_stack(c, lno, sysh)
        \/ Renumber(c, top, lno, fnam, flag, sysh) = c
    BY <1>3 DEF Renumber
  <2> QED BY <2>2, <2>3
<1> QED BY <1>2, <1>3

LEMMA MarkerFits ==
  ASSUME NEW c, Fits(c), NEW fnam \in FileNames, NEW lno \in Int, NEW flag, NEW sysh \in BOOLEAN
  PROVE /\ Fits(Marker(c, lno, fnam, flag, sysh))
        /\ Marker(c, lno, fnam, flag, sysh).line = lno - 1
        /\ c.astray => Marker(c, lno, fnam, flag, sysh).astray
<1> DEFINE d == [c EXCEPT !.line = lno - 1]
           top == Len(d.stack)
           pushes == \/ flag = "start"
                     \/ flag = "none" /\ (top = 0 \/ d.stack[top].fnam # fnam)
           moved == CASE pushes -> push_fname(d, fnam, lno, sysh)
                      [] flag = "return" -> ReturnTo(d, fnam)
                      [] OTHER -> d
           stillOpen == IF flag = "return" /\ top > Len(moved.stack) THEN 0 ELSE top
<1>1. Marker(c, lno, fnam, flag, sysh) = Renumber(moved, stillOpen, lno, fnam, flag, sysh)
  BY DEF Marker, handle_line_file_directive
<1>2. Fits(d) /\ d.line = lno - 1 /\ d.astray = c.astray
  BY DEF Fits, CcState
<1> HIDE DEF d
<1>3. top \in Nat
  BY <1>2 DEF Fits, CcState
<1>4. Fits(moved) /\ KeepsLine(d, moved) /\ stillOpen \in 0..Len(moved.stack)
  <2>1. CASE pushes
    <3>1. moved = push_fname(d, fnam, lno, sysh)
      <4>1. pushes => ~(flag = "return")
        OBVIOUS
      <4> QED BY <2>1, <4>1
    <3>2. Fits(moved) /\ KeepsLine(d, moved) /\ top <= Len(moved.stack)
      <4> HIDE DEF moved
      <4> QED BY <1>2, <3>1, PushFits
    <3>3. stillOpen = top
      <4> HIDE DEF moved
      <4> QED BY <2>1
    <3>4. Len(moved.stack) \in Nat
      <4> HIDE DEF moved
      <4> QED BY <3>2 DEF Fits, CcState
    <3> HIDE DEF moved, top
    <3> QED BY <3>2, <3>3, <3>4, <1>3
  <2>2. CASE ~pushes /\ flag = "return"
    <3>1. moved = ReturnTo(d, fnam)
      BY <2>2
    <3>2. Fits(moved) /\ KeepsLine(d, moved)
      <4> HIDE DEF moved
      <4> QED BY <1>2, <3>1, ReturnFits
    <3>3. Len(moved.stack) \in Nat
      <4> HIDE DEF moved
      <4> QED BY <3>2 DEF Fits, CcState
    <3>4. stillOpen = IF top > Len(moved.stack) THEN 0 ELSE top
      BY <2>2
    <3> HIDE DEF moved, top, stillOpen
    <3> QED BY <3>2, <3>3, <3>4, <1>3
  <2>3. CASE ~pushes /\ flag # "return"
    <3>1. moved = d /\ stillOpen = top
      BY <2>3
    <3> HIDE DEF moved
    <3> QED BY <3>1, <1>2, <1>3 DEF KeepsLine
  <2> QED BY <2>1, <2>2, <2>3
<1> HIDE DEF moved, stillOpen
<1> QED BY <1>1, <1>2, <1>4, RenumberFits DEF KeepsLine

LEMMA OrdinaryFits == ASSUME NEW c, Fits(c) PROVE Fits(OrdinaryLine(c))
<1>1. c \in CcState /\ Len(c.stack) <= FNAME_STACK_N /\ c.stack \in Seq(MarkEntry)
  BY DEF Fits, CcState
<1> DEFINE s == IF c.stack = <<>> THEN c.stack
                ELSE [c.stack EXCEPT ![Len(c.stack)].lno = c.line + 1]
<1>2. s \in Seq(MarkEntry) /\ Len(s) = Len(c.stack)
  <2>1. CASE c.stack # <<>>
    <3> DEFINE n == Len(c.stack)
               e == [c.stack[n] EXCEPT !.lno = c.line + 1]
    <3>1. n \in 1..n /\ c.stack[n] \in MarkEntry /\ c.line \in Int
      BY <1>1, <2>1 DEF CcState
    <3>2. e \in MarkEntry
      BY <3>1 DEF MarkEntry
    <3>3. s = [c.stack EXCEPT ![n] = e]
      BY <2>1
    <3> HIDE DEF e, s
    <3> QED BY <1>1, <3>1, <3>2, <3>3, ExceptSeq
  <2> QED BY <1>1, <2>1
<1>3. OrdinaryLine(c) = [c EXCEPT !.line = c.line + 1, !.stack = s]
  BY DEF OrdinaryLine
<1>4. c.line + 1 \in Int
  BY <1>1 DEF CcState
<1> HIDE DEF s
<1>5. /\ [c EXCEPT !.line = c.line + 1, !.stack = s] \in CcState
      /\ [c EXCEPT !.line = c.line + 1, !.stack = s].stack = s
  BY <1>1, <1>2, <1>4 DEF CcState
<1> QED BY <1>1, <1>2, <1>3, <1>5 DEF Fits

ReaderInv == Fits(cc) /\ current_fname \in FileNames

LEMMA InitReader == Init => ReaderInv
<1> SUFFICES ASSUME Init PROVE ReaderInv
  OBVIOUS
<1>1. Main \in FileNames
  BY PreprocAssumption DEF FileNames
<1>2. Fits(CcInit(Main))
  BY <1>1, FnameStackAssumption DEF Fits, CcInit, CcState
<1>3. cc = Marker(CcInit(Main), 1, Main, "start", FALSE)
  BY DEF Init
<1>4. 1 \in Int /\ FALSE \in BOOLEAN
  OBVIOUS
<1>5. Fits(Marker(CcInit(Main), 1, Main, "start", FALSE))
  BY <1>1, <1>2, <1>4, MarkerFits, Zenon
<1> QED BY <1>1, <1>3, <1>5 DEF ReaderInv, Init

LEMMA NextReader == StackInv /\ ReaderInv /\ [Next]_vars => ReaderInv'
<1> SUFFICES ASSUME StackInv, ReaderInv, [Next]_vars PROVE ReaderInv'
  OBVIOUS
<1>1. ASSUME cc' = cc \/ cc' = OrdinaryLine(cc), UNCHANGED current_fname PROVE ReaderInv'
  BY <1>1, OrdinaryFits DEF ReaderInv
<1>2. CASE UNCHANGED vars \/ Exited \/ ReadSpliced \/ OwedLine \/ EndOfInput
  BY <1>2, <1>1 DEF vars, Exited, ReadSpliced, OwedLine, EndOfInput, lineVars
<1>3. CASE TextLine
  BY <1>3, <1>1 DEF TextLine, PlainPosition
<1>4. CASE Ifdef \/ IfdefMalformed \/ If \/ Elif \/ Else \/ Endif
  BY <1>4, <1>1 DEF Ifdef, IfdefMalformed, If, Elif, Else, Endif, ConditionalLine, Synced, PlainPosition
<1>5. CASE SkippedDirective \/ handle_define \/ handle_undef \/ Harmless \/ Fatal
  BY <1>5, <1>1 DEF SkippedDirective, handle_define, handle_undef, Harmless, Fatal, Synced, PlainPosition
<1>6. CASE handle_line_directive
  <2>1. PICK l \in LineDirectives :
          LET fname == IF l.fname = NoName THEN current_fname ELSE l.fname
          IN current_fname' = fname /\ cc' = Marker(cc, l.n, fname, "none", FALSE)
    BY <1>6 DEF handle_line_directive
  <2> DEFINE fname == IF l.fname = NoName THEN current_fname ELSE l.fname
  <2>2. fname \in FileNames /\ l.n \in Int
    BY PreprocAssumption DEF FileNames, ReaderInv
  <2> HIDE DEF fname
  <2>3. current_fname' = fname /\ cc' = Marker(cc, l.n, fname, "none", FALSE)
    BY <2>1 DEF fname
  <2> QED BY <2>2, <2>3, MarkerFits DEF ReaderInv
<1>7. CASE handle_include
  <2>1. PICK want \in Includes, isAngle \in BOOLEAN :
          LET found == include_fopen(cd_stack[Len(cd_stack)], want, isAngle)
          IN \/ PlainPosition /\ Synced
             \/ found # NoFile /\ Enter(found)
    BY <1>7 DEF handle_include
  <2> DEFINE found == include_fopen(cd_stack[Len(cd_stack)], want, isAngle)
  <2>2. CASE PlainPosition /\ Synced
    BY <2>2, <1>1 DEF PlainPosition, Synced
  <2>3. CASE found # NoFile /\ Enter(found)
    <3>1. found.path \in FileNames /\ found.is_sysh \in BOOLEAN
      BY <2>3, FoundType DEF Found, FileNames
    <3> HIDE DEF found
    <3>2. Fits(OrdinaryLine(cc))
      BY OrdinaryFits DEF ReaderInv
    <3>3. current_fname' = found.path /\ cc' = Marker(OrdinaryLine(cc), 1, found.path, "start", found.is_sysh)
      BY <2>3 DEF Enter
    <3> QED BY <3>1, <3>2, <3>3, MarkerFits DEF ReaderInv
  <2> QED BY <2>1, <2>2, <2>3
<1>8. CASE EndOfInclude
  <2> DEFINE back == file_stack[Len(file_stack) - 1]
  <2>1. back \in OpenFile
    BY <1>8 DEF EndOfInclude, StackInv, StackType
  <2>2. cc' = Marker(cc, back.line_no, back.fname, "return", back.is_sysh) /\ current_fname' = back.fname
    BY <1>8 DEF EndOfInclude, RestoreState
  <2> HIDE DEF back
  <2>3. back.fname \in FileNames /\ back.line_no \in Int /\ back.is_sysh \in BOOLEAN
    BY <2>1 DEF OpenFile, FileNames
  <2> QED BY <2>2, <2>3, MarkerFits DEF ReaderInv
<1> QED BY <1>2, <1>3, <1>4, <1>5, <1>6, <1>7, <1>8 DEF Next

-----------------------------------------------------------------------------
(* The counters. *)
CountInv ==
  /\ n_nls \in 0..MaxLines /\ splicing \in 0..MaxLines /\ nread \in 0..MaxLines
  /\ splicing <= nread

LEMMA TakeCounts == ASSUME CountInv, NEW kind, TakeLine(kind) PROVE CountInv'
  BY PreprocAssumption DEF CountInv, TakeLine

LEMMA NextCount == CountInv /\ [Next]_vars => CountInv'
<1> SUFFICES ASSUME CountInv, [Next]_vars PROVE CountInv'
  OBVIOUS
<1>1. ASSUME NEW kind, DirectiveLine(kind) PROVE CountInv'
  BY <1>1, TakeCounts DEF DirectiveLine
<1>2. CASE UNCHANGED vars \/ Exited \/ EndOfInclude \/ EndOfInput
  BY <1>2 DEF vars, Exited, EndOfInclude, EndOfInput, readVars, CountInv
<1>3. CASE ReadSpliced
  BY <1>3, PreprocAssumption DEF ReadSpliced, CountInv
<1>4. CASE OwedLine
  BY <1>4, PreprocAssumption DEF OwedLine, CountInv
<1>5. CASE TextLine
  BY <1>5, TakeCounts DEF TextLine
<1>6. CASE Ifdef \/ IfdefMalformed \/ If \/ Elif \/ Else \/ Endif
  BY <1>6, <1>1 DEF Ifdef, IfdefMalformed, If, Elif, Else, Endif, ConditionalLine
<1>7. CASE SkippedDirective \/ handle_define \/ handle_undef \/ Harmless \/ Fatal
  BY <1>7, <1>1 DEF SkippedDirective, handle_define, handle_undef, Harmless, Fatal
<1>8. CASE handle_line_directive \/ handle_include
  BY <1>8, <1>1 DEF handle_line_directive, handle_include
<1> QED BY <1>2, <1>3, <1>4, <1>5, <1>6, <1>7, <1>8 DEF Next

LEMMA NextMacros == macros \subseteq Macros /\ [Next]_vars => macros' \subseteq Macros
<1> SUFFICES ASSUME macros \subseteq Macros, [Next]_vars PROVE macros' \subseteq Macros
  OBVIOUS
<1>1. CASE handle_define \/ handle_undef
  BY <1>1 DEF handle_define, handle_undef
<1>2. CASE ~(handle_define \/ handle_undef)
  <2>1. UNCHANGED macros
    BY <1>2 DEF Next, vars, TextLine, ReadSpliced, OwedLine, Ifdef, IfdefMalformed, If, Elif, Else,
      Endif, ConditionalLine, SkippedDirective, Harmless, Fatal, handle_line_directive, handle_include,
      EndOfInclude, EndOfInput, Exited
  <2> QED BY <2>1
<1> QED BY <1>1, <1>2

(* What every step keeps of the preprocessor's files and of cc1's reader. *)
FilesInv ==
  /\ CondInv /\ macros \subseteq Macros /\ BlockType /\ StackInv /\ ReaderInv /\ CountInv

(* The stacks of open files, of their directories and of their true positions    *)
(* are about the same files, and cc1's reader and the counters keep their ranges, *)
(* through every directive, include and return.                                   *)
THEOREM FilesInvariant == Spec => []FilesInv
<1>1. Init => FilesInv
  BY InitConditional, InitInv, InitBlock, InitStack, InitReader, PreprocAssumption
     DEF Init, FilesInv, CountInv
<1>2. FilesInv /\ [Next]_vars => FilesInv'
  BY StepConditional, NextInv, NextMacros, NextBlock, NextStack, NextReader, NextCount DEF FilesInv
<1> QED BY <1>1, <1>2, PTL DEF Spec

(* The arrays never overflow and the counters keep their ranges, whatever the    *)
(* files say: file_stack[], the #if stack and cc1's stack of names are checked    *)
(* before they grow, and every stack of the preprocessor grows with the others.   *)
THEOREM PreprocTypes == Spec => []TypeOK
<1>1. FilesInv => TypeOK
  BY DEF FilesInv, CondInv, BlockType, Blocks, StackInv, ReaderInv, Fits, CountInv, TypeOK
<1> QED BY <1>1, FilesInvariant, PTL

-----------------------------------------------------------------------------
(* Line numbers and the chain of includes.                                     *)

(* What cpp and cc1 agree about: sources without #line, # alone or # followed   *)
(* by punctuation, in which no backslash-newline comes before an #include or    *)
(* at the end of a file.                                                        *)
OrdinarySources ==
  /\ Kinds \cap {"line", "null", "nonword"} = {}
  /\ SpliceKinds \cap {"include", "eof"} = {}

(* Where each open file stopped is saved.                                       *)
Levels ==
  \A i \in 1..Len(pos) :
    pos[i].name = pos[i].path /\ (i < Len(pos) => file_stack[i].line_no = pos[i].line)

(* The lines that are owed make up the difference in the numbers.               *)
Counted ==
  /\ eof = FALSE /\ cc.line + 1 + n_nls + splicing = Here.line
  /\ current_line = Here.line /\ current_fname = Here.path

(* cc1's stack mirrors the preprocessor's, and no file is open in itself.        *)
Mirror ==
  /\ Len(cc.stack) = Len(pos)
  /\ \A i \in 1..Len(pos) : cc.stack[i].fnam = pos[i].path /\ cc.stack[i].sysh = file_stack[i].is_sysh
  /\ \A i \in 1..Len(pos) : i < Len(pos) => pos[i].path # pos[i + 1].path

Called == cc.fname = Here.path /\ cc.sysh = file_stack[Len(file_stack)].is_sysh

(* The numbers agree always; the names as long as cc1 could record them all.     *)
LineInv == status = "run" => Levels /\ Counted
NameInv == cc.icw = FALSE /\ (status = "run" => Mirror /\ Called)
SyncInv == LineInv /\ (~cc.astray => NameInv)

LEMMA OrdinaryKeeps ==
  ASSUME NEW c, Fits(c)
  PROVE LET d == OrdinaryLine(c)
        IN /\ d.line = c.line + 1 /\ d.fname = c.fname /\ d.sysh = c.sysh /\ d.icw = c.icw
           /\ d.astray = c.astray
           /\ Len(d.stack) = Len(c.stack)
           /\ \A i \in 1..Len(c.stack) : d.stack[i].fnam = c.stack[i].fnam /\ d.stack[i].sysh = c.stack[i].sysh
<1>1. c \in CcState /\ c.stack \in Seq(MarkEntry) /\ c.line \in Int
  BY DEF Fits, CcState
<1> DEFINE s == IF c.stack = <<>> THEN c.stack
                ELSE [c.stack EXCEPT ![Len(c.stack)].lno = c.line + 1]
<1>2. /\ s \in Seq(MarkEntry) /\ Len(s) = Len(c.stack)
      /\ \A i \in 1..Len(c.stack) : s[i].fnam = c.stack[i].fnam /\ s[i].sysh = c.stack[i].sysh
  <2>1. CASE c.stack # <<>>
    <3> DEFINE n == Len(c.stack)
               e == [c.stack[n] EXCEPT !.lno = c.line + 1]
    <3>1. n \in 1..n /\ c.stack[n] \in MarkEntry
      BY <1>1, <2>1
    <3>2. e \in MarkEntry /\ e.fnam = c.stack[n].fnam /\ e.sysh = c.stack[n].sysh
      BY <3>1, <1>1 DEF MarkEntry
    <3>3. s = [c.stack EXCEPT ![n] = e]
      BY <2>1
    <3> HIDE DEF e, s
    <3>4. /\ s \in Seq(MarkEntry) /\ Len(s) = n
          /\ \A i \in 1..n : s[i] = IF i = n THEN e ELSE c.stack[i]
      BY <1>1, <3>1, <3>2, <3>3, ExceptSeq
    <3> QED BY <3>2, <3>4
  <2>2. CASE c.stack = <<>>
    BY <2>2, <1>1
  <2> QED BY <2>1, <2>2
<1>3. OrdinaryLine(c) = [c EXCEPT !.line = c.line + 1, !.stack = s]
  BY DEF OrdinaryLine
<1> HIDE DEF s
<1>4. OrdinaryLine(c).stack = s
  BY <1>1, <1>3 DEF CcState
<1>5. /\ OrdinaryLine(c).line = c.line + 1 /\ OrdinaryLine(c).fname = c.fname
      /\ OrdinaryLine(c).sysh = c.sysh /\ OrdinaryLine(c).icw = c.icw
      /\ OrdinaryLine(c).astray = c.astray
  BY <1>1, <1>3 DEF CcState
<1> QED BY <1>2, <1>4, <1>5

(* The reader d: c after a marker, with this line, name, flag and stack.        *)
Reads(d, c, line, fname, sysh, stack) ==
  /\ d.line = line /\ d.fname = fname /\ d.sysh = sysh /\ d.icw = c.icw /\ d.astray = c.astray
  /\ d.stack = stack

LEMMA StartMarker ==
  ASSUME NEW c, Fits(c), NEW fnam, NEW lno \in Int, NEW sysh
  PROVE LET d == Marker(c, lno, fnam, "start", sysh)
        IN /\ CannotReturn(c.stack, fnam) => d.astray
           /\ ~CannotReturn(c.stack, fnam) =>
                Reads(d, c, lno - 1, fnam, sysh, Append(c.stack, [fnam |-> fnam, lno |-> lno, sysh |-> sysh]))
<1>1. c \in CcState /\ c.stack \in Seq(MarkEntry)
  BY DEF Fits, CcState
<1> DEFINE b == [c EXCEPT !.line = lno - 1]
           e == [fnam |-> fnam, lno |-> lno, sysh |-> sysh]
           s == IF Len(b.stack) < FNAME_STACK_N THEN Append(b.stack, e) ELSE b.stack
           a == b.astray \/ CannotReturn(b.stack, fnam)
           d == [b EXCEPT !.fname = fnam, !.sysh = sysh, !.astray = a, !.stack = s]
<1>2. b.stack = c.stack /\ b.astray = c.astray
  BY <1>1 DEF CcState
<1>3. Marker(c, lno, fnam, "start", sysh) = push_fname(b, fnam, lno, sysh)
  BY DEF Marker, handle_line_file_directive, Renumber
<1>4. push_fname(b, fnam, lno, sysh) = d
  BY <1>1 DEF push_fname, CcState
<1>5. /\ CannotReturn(c.stack, fnam) => a
      /\ ~CannotReturn(c.stack, fnam) => a = c.astray /\ s = Append(c.stack, e)
  BY <1>1, <1>2, FnameStackAssumption DEF CannotReturn, CcState
<1> HIDE DEF s, a, e
<1>6. /\ d.line = lno - 1 /\ d.fname = fnam /\ d.sysh = sysh /\ d.icw = c.icw
      /\ d.astray = a /\ d.stack = s
  BY <1>1 DEF CcState
<1> HIDE DEF b, d
<1>7. e = [fnam |-> fnam, lno |-> lno, sysh |-> sysh]
  BY DEF e
<1> QED BY <1>3, <1>4, <1>5, <1>6, <1>7 DEF Reads

LEMMA ReturnMarker ==
  ASSUME NEW c, Fits(c), NEW n \in Nat, n > 0, Len(c.stack) = n + 1,
         NEW fnam, c.stack[n].fnam = fnam, c.stack[n + 1].fnam # fnam,
         NEW lno \in Int, NEW sysh
  PROVE Reads(Marker(c, lno, fnam, "return", sysh), c, lno - 1, fnam, c.stack[n].sysh,
              SubSeq(c.stack, 1, n))
<1>1. c \in CcState /\ c.stack \in Seq(MarkEntry)
  BY DEF Fits, CcState
<1> DEFINE b == [c EXCEPT !.line = lno - 1]
<1>2. b.stack = c.stack
  BY <1>1 DEF CcState
<1> DEFINE N == {i \in DOMAIN b.stack : b.stack[i].fnam = fnam}
<1>3. N \in SUBSET (1..(n + 1)) /\ n \in N /\ n + 1 \notin N
  BY <1>1, <1>2
<1>4. Max(N) = n
  <2> HIDE DEF N
  <2>1. N # {} /\ n + 1 \in Nat
    BY <1>3
  <2>2. Max(N) \in N /\ n <= Max(N)
    BY <1>3, <2>1, LastOf
  <2> DEFINE m == Max(N)
  <2>3. m \in 1..(n + 1) /\ m # n + 1 /\ n <= m
    BY <1>3, <2>2
  <2> HIDE DEF m
  <2>4. m = n
    BY <2>3
  <2> QED BY <2>4 DEF m
<1>5. ReturnTo(b, fnam) = pop_fname(b, n)
  BY <1>3, <1>4 DEF ReturnTo
<1>6. pop_fname(b, n) = [b EXCEPT !.stack = SubSeq(c.stack, 1, n), !.fname = fnam,
                                  !.sysh = c.stack[n].sysh]
  <2>1. n < Len(b.stack) /\ b.stack[n].fnam = fnam /\ b.stack[n].sysh = c.stack[n].sysh
    BY <1>2
  <2> HIDE DEF b
  <2> QED BY <1>2, <2>1 DEF pop_fname
<1>7. Len(pop_fname(b, n).stack) = n
  <2>1. pop_fname(b, n).stack = SubSeq(c.stack, 1, n)
    BY <1>1, <1>6 DEF CcState
  <2> QED BY <2>1, <1>1
<1>8. Marker(c, lno, fnam, "return", sysh) = pop_fname(b, n)
  <2>1. Len(b.stack) > Len(pop_fname(b, n).stack)
    BY <1>2, <1>7
  <2>2. handle_line_file_directive(b, lno, fnam, "return", sysh)
          = Renumber(ReturnTo(b, fnam), IF Len(b.stack) > Len(ReturnTo(b, fnam).stack) THEN 0 ELSE Len(b.stack),
                     lno, fnam, "return", sysh)
    BY DEF handle_line_file_directive
  <2>3. Marker(c, lno, fnam, "return", sysh) = Renumber(pop_fname(b, n), 0, lno, fnam, "return", sysh)
    BY <2>1, <2>2, <1>5 DEF Marker
  <2> QED BY <2>3 DEF Renumber
<1> QED BY <1>1, <1>6, <1>8, ZenonT(30) DEF CcState, Reads

(* Reading on in a file, or printing a line of it, disturbs nothing. *)
LEMMA NextPosKeeps ==
  ASSUME StackInv, pos' = NextPos
  PROVE /\ Len(pos') = Len(pos)
        /\ Here'.line = Here.line + 1 /\ Here'.path = Here.path
        /\ \A i \in 1..Len(pos) : /\ pos'[i].path = pos[i].path /\ pos'[i].name = pos[i].name
                                  /\ i # Len(pos) => pos'[i] = pos[i]
<1> DEFINE n == Len(pos)
           p == [Here EXCEPT !.line = @ + 1]
<1>1. pos \in Seq(Position) /\ n \in 1..n /\ Here \in Position /\ Here = pos[n]
  BY HereType DEF StackInv, StackType, Here
<1>2. p \in Position /\ p.line = Here.line + 1 /\ p.path = Here.path /\ p.name = Here.name
  BY <1>1 DEF Position
<1>3. pos' = [pos EXCEPT ![n] = p]
  BY DEF NextPos, Moved
<1> HIDE DEF p, n
<1>4. /\ Len(pos') = Len(pos)
      /\ \A i \in 1..Len(pos) : pos'[i] = IF i = n THEN p ELSE pos[i]
  BY <1>1, <1>2, <1>3, ExceptSeq DEF n
<1>5. Here' = p
  <2>1. Here' = pos'[Len(pos')]
    BY DEF Here
  <2> QED BY <2>1, <1>1, <1>4 DEF n
<1> QED BY <1>1, <1>2, <1>4, <1>5 DEF n

LEMMA MoveKeeps ==
  ASSUME StackInv, Fits(cc), Levels, UNCHANGED <<file_stack, current_fname>>, current_fname = Here.path,
         ~cc.astray => NameInv, status = "run",
         cc' = cc \/ cc' = OrdinaryLine(cc), pos' = pos \/ pos' = NextPos
  PROVE Levels' /\ current_fname' = Here'.path /\ (~cc'.astray => NameInv')
<1>1. /\ Len(pos') = Len(pos) /\ Here'.path = Here.path
      /\ \A i \in 1..Len(pos) : /\ pos'[i].path = pos[i].path /\ pos'[i].name = pos[i].name
                                /\ i # Len(pos) => pos'[i] = pos[i]
  <2>1. CASE pos' = pos
    BY <2>1 DEF Here
  <2>2. CASE pos' = NextPos
    BY <2>2, NextPosKeeps
  <2> QED BY <2>1, <2>2
<1>2. /\ cc'.fname = cc.fname /\ cc'.sysh = cc.sysh /\ cc'.icw = cc.icw /\ cc'.astray = cc.astray
      /\ Len(cc'.stack) = Len(cc.stack)
      /\ \A i \in 1..Len(cc.stack) : cc'.stack[i].fnam = cc.stack[i].fnam /\ cc'.stack[i].sysh = cc.stack[i].sysh
  BY OrdinaryKeeps
<1>3. Len(pos) \in Nat
  BY DEF StackInv, StackType
<1>4. Levels'
  BY <1>1, <1>3 DEF Levels
<1>5. ASSUME ~cc'.astray PROVE NameInv'
  <2>1. Mirror /\ Called /\ cc.icw = FALSE
    BY <1>2, <1>5 DEF NameInv
  <2>2. Mirror'
    <3>1. \A i \in 1..Len(pos) : i < Len(pos) => i + 1 \in 1..Len(pos)
      BY <1>3
    <3> QED BY <1>1, <1>2, <1>3, <2>1, <3>1 DEF Mirror
  <2>3. Called'
    BY <1>1, <1>2, <2>1 DEF Called
  <2> QED BY <1>2, <2>1, <2>2, <2>3 DEF NameInv
<1> QED BY <1>1, <1>4, <1>5

LEMMA TakeOrdinary ==
  ASSUME OrdinarySources, CountInv, NEW kind, TakeLine(kind)
  PROVE /\ eof' = eof /\ n_nls = 0 /\ n_nls' = splicing /\ splicing' = 0
        /\ kind = "include" => splicing = 0
        /\ status = "run" /\ ~eof
<1>1. "eof" \notin SpliceKinds /\ "include" \notin SpliceKinds
  BY DEF OrdinarySources
<1>2. n_nls' = splicing /\ eof' = eof /\ splicing' = 0
  BY <1>1 DEF TakeLine
<1>3. status = "run" /\ n_nls = 0 /\ ~eof
  BY DEF TakeLine, Running
<1>4. kind = "include" => ~(splicing > 0)
  BY <1>1 DEF TakeLine
<1>5. splicing \in Nat
  BY PreprocAssumption DEF CountInv
<1> QED BY <1>2, <1>3, <1>4, <1>5

(* A line read from the current file and printed, or a directive's empty line.  *)
LEMMA PlainSynced ==
  ASSUME OrdinarySources, FilesInv, SyncInv, NEW kind, TakeLine(kind), PlainPosition,
         UNCHANGED file_stack, Synced
  PROVE SyncInv'
<1>1. StackInv /\ Fits(cc) /\ CountInv
  BY DEF FilesInv, ReaderInv
<1>2. /\ eof' = eof /\ n_nls = 0 /\ n_nls' = splicing /\ splicing' = 0
      /\ status = "run" /\ ~eof
  BY <1>1, TakeOrdinary
<1>3. Levels /\ Counted /\ current_fname = Here.path /\ (~cc.astray => NameInv)
  BY <1>2 DEF SyncInv, LineInv, Counted
<1>4. ~eof'
  BY <1>2
<1>5. current_line' = current_line + 1 /\ pos' = NextPos /\ UNCHANGED current_fname
  BY <1>4 DEF PlainPosition, LineNo, LinePos
<1>6. cc' = OrdinaryLine(cc) /\ cc'.line = cc.line + 1
  BY <1>1, OrdinaryKeeps DEF Synced
<1>7. Levels' /\ current_fname' = Here'.path /\ (~cc'.astray => NameInv')
  BY <1>1, <1>2, <1>3, <1>5, <1>6, MoveKeeps
<1>8. Here'.line = Here.line + 1
  BY <1>1, <1>5, NextPosKeeps
<1>9. Counted'
  <2>1. cc.line \in Int /\ splicing \in Int /\ Here.line \in Int
    BY <1>1, HereType, PreprocAssumption DEF Fits, CcState, CountInv, Position
  <2>2. eof' = FALSE
    BY <1>2, <1>3, Zenon DEF Counted
  <2> QED BY <1>2, <1>3, <1>5, <1>6, <1>7, <1>8, <2>1, <2>2 DEF Counted
<1> QED BY <1>7, <1>9 DEF SyncInv, LineInv

LEMMA EnterSynced ==
  ASSUME OrdinarySources, FilesInv, SyncInv, TakeLine("include"), NEW found \in Found,
         Len(file_stack) # N_FILES, Enter(found)
  PROVE SyncInv'
<1> DEFINE n == Len(pos)
           c == OrdinaryLine(cc)
           e == [fnam |-> found.path, lno |-> 1, sysh |-> found.is_sysh]
           q == [path |-> found.path, name |-> found.path, line |-> 1]
           f == [fname |-> found.path, line_no |-> 1, is_sysh |-> found.is_sysh]
<1>1. StackInv /\ Fits(cc) /\ CountInv
  BY DEF FilesInv, ReaderInv
<1>2. /\ eof' = eof /\ n_nls = 0 /\ n_nls' = 0 /\ splicing' = 0 /\ status = "run" /\ ~eof
  BY <1>1, TakeOrdinary
<1>3. Levels /\ Counted /\ (~cc.astray => NameInv)
  BY <1>2 DEF SyncInv, LineInv
<1>4. n \in Nat /\ n \in 1..n /\ Len(file_stack) = n
  BY <1>1 DEF StackInv, StackType
<1>5. Fits(c) /\ c.astray = cc.astray
  BY <1>1, OrdinaryFits, OrdinaryKeeps
<1>6. found.path \in FileNames /\ found.is_sysh \in BOOLEAN /\ found.path \in Tree
  BY DEF Found, FileNames
<1>7. LineNo = current_line + 1 /\ LinePos = NextPos
  BY <1>2 DEF LineNo, LinePos
<1> HIDE DEF c
<1>9. /\ cc' = Marker(c, 1, found.path, "start", found.is_sysh) /\ cc'.line = 0
      /\ cc.astray => cc'.astray
  <2>1. cc' = Marker(c, 1, found.path, "start", found.is_sysh)
    BY DEF Enter, c
  <2>2. 1 \in Int /\ 1 - 1 = 0
    OBVIOUS
  <2> QED BY <2>1, <2>2, <1>5, <1>6, MarkerFits
<1> DEFINE p == [Here EXCEPT !.line = @ + 1]
<1>11. pos' = Append(NextPos, q) /\ NextPos = [pos EXCEPT ![n] = p]
  BY <1>7 DEF Enter, NextPos, Moved
<1>12. Here \in Position /\ p \in Position /\ p.line = Here.line + 1 /\ p.path = Here.path /\ p.name = Here.name
       /\ Here = pos[n]
  BY <1>1, HereType DEF Position, Here
<1> HIDE DEF p
<1>13. /\ NextPos \in Seq(Position) /\ Len(NextPos) = n
       /\ \A i \in 1..n : NextPos[i] = IF i = n THEN p ELSE pos[i]
  BY <1>1, <1>4, <1>11, <1>12, ExceptSeq DEF StackInv, StackType
<1>14. /\ Len(pos') = n + 1 /\ pos'[n + 1] = q
       /\ \A i \in 1..n : pos'[i] = IF i = n THEN p ELSE pos[i]
  <2>1. q \in Position
    BY <1>6 DEF Position
  <2> HIDE DEF q
  <2>2. /\ Len(Append(NextPos, q)) = n + 1 /\ Append(NextPos, q)[n + 1] = q
        /\ \A i \in 1..n : Append(NextPos, q)[i] = NextPos[i]
    BY <2>1, <1>13, AppendProperties
  <2> QED BY <2>2, <1>11, <1>13
<1> DEFINE g == [file_stack[n] EXCEPT !.line_no = LineNo]
<1>15. file_stack' = Append([file_stack EXCEPT ![n] = g], f)
  BY <1>4 DEF Enter, preproc_push
<1>16. file_stack[n] \in OpenFile /\ g \in OpenFile /\ g.line_no = Here.line + 1 /\ g.is_sysh = file_stack[n].is_sysh
  <2>1. file_stack[n] \in OpenFile /\ LineNo \in Int
    BY <1>1, <1>4, <1>7 DEF StackInv, StackType
  <2>2. LineNo = Here.line + 1
    BY <1>3, <1>7 DEF Counted
  <2> QED BY <2>1, <2>2 DEF OpenFile
<1> HIDE DEF g
<1>17. /\ Len(file_stack') = n + 1 /\ file_stack'[n + 1] = f
       /\ \A i \in 1..n : file_stack'[i] = IF i = n THEN g ELSE file_stack[i]
  <2> DEFINE fs == [file_stack EXCEPT ![n] = g]
  <2>1. /\ fs \in Seq(OpenFile) /\ Len(fs) = n
        /\ \A i \in 1..n : fs[i] = IF i = n THEN g ELSE file_stack[i]
    BY <1>1, <1>4, <1>16, ExceptSeq DEF StackInv, StackType
  <2>2. file_stack' = Append(fs, f)
    BY <1>15
  <2> HIDE DEF fs
  <2> QED BY <2>1, <2>2, <1>4
<1>18. Here' = q
  BY <1>14 DEF Here
<1> HIDE DEF n
<1>19. Levels'
  <2> SUFFICES ASSUME NEW i \in 1..(n + 1)
               PROVE /\ pos'[i].name = pos'[i].path
                     /\ i < n + 1 => file_stack'[i].line_no = pos'[i].line
    BY <1>14 DEF Levels
  <2>1. CASE i = n + 1
    BY <2>1, <1>4, <1>14
  <2>2. CASE i = n
    <3>1. Here.name = Here.path
      BY <1>3, <1>4, <1>12 DEF Levels, n
    <3>2. pos'[i] = p /\ file_stack'[i] = g
      BY <2>2, <1>4, <1>14, <1>17
    <3> QED BY <3>1, <3>2, <1>12, <1>16
  <2>3. CASE i \in 1..n /\ i # n
    <3>1. i < n
      BY <2>3, <1>4
    <3>2. pos'[i] = pos[i] /\ file_stack'[i] = file_stack[i]
      BY <2>3, <3>1, <1>12, <1>14, <1>17
    <3> QED BY <2>3, <3>1, <3>2, <1>3 DEF Levels, n
  <2> QED BY <2>1, <2>2, <2>3, <1>4
<1>20. Counted'
  BY <1>2, <1>9, <1>18 DEF Counted, Enter
<1>21. ASSUME ~cc'.astray PROVE NameInv'
  <2>1. NameInv /\ Mirror /\ Called /\ cc.icw = FALSE
    BY <1>2, <1>3, <1>9, <1>21 DEF NameInv
  <2>2. /\ Len(c.stack) = n /\ c.icw = FALSE
        /\ \A i \in 1..n : c.stack[i].fnam = pos[i].path /\ c.stack[i].sysh = file_stack[i].is_sysh
    BY <1>1, <2>1, OrdinaryKeeps DEF Mirror, c, n
  <2>3. ~CannotReturn(c.stack, found.path)
    <3> DEFINE d == Marker(c, 1, found.path, "start", found.is_sysh)
    <3>1. 1 \in Int /\ Fits(c)
      BY <1>5
    <3>2. CannotReturn(c.stack, found.path) => d.astray
      BY <3>1, StartMarker
    <3> QED BY <1>9, <1>21, <3>2
  <2>4. found.path # pos[n].path
    <3>1. c.stack # <<>>
      BY <1>4, <2>2
    <3> QED BY <1>4, <2>2, <2>3, <3>1 DEF CannotReturn
  <2>5. /\ cc'.fname = found.path /\ cc'.sysh = found.is_sysh /\ cc'.icw = FALSE
        /\ cc'.stack = Append(c.stack, e)
    <3>1. 1 \in Int
      OBVIOUS
    <3>2. Reads(cc', c, 1 - 1, found.path, found.is_sysh, Append(c.stack, e))
      BY <1>5, <1>9, <2>3, <3>1, StartMarker
    <3> QED BY <2>2, <3>2 DEF Reads
  <2>6. /\ Len(cc'.stack) = n + 1
        /\ \A i \in 1..n : cc'.stack[i] = c.stack[i]
        /\ cc'.stack[n + 1] = e
    <3>1. e \in MarkEntry /\ c.stack \in Seq(MarkEntry)
      BY <1>5, <1>6 DEF Fits, CcState, MarkEntry
    <3> HIDE DEF e
    <3> QED BY <3>1, <2>2, <2>5, AppendProperties
  <2>7. Mirror'
    <3>1. ASSUME NEW i \in 1..(n + 1)
          PROVE cc'.stack[i].fnam = pos'[i].path /\ cc'.stack[i].sysh = file_stack'[i].is_sysh
      <4>1. CASE i = n + 1
        BY <4>1, <2>6, <1>14, <1>17
      <4>2. CASE i \in 1..n
        <5>1. pos'[i].path = pos[i].path /\ file_stack'[i].is_sysh = file_stack[i].is_sysh
          BY <4>2, <1>12, <1>14, <1>16, <1>17
        <5> QED BY <4>2, <5>1, <2>2, <2>6
      <4> QED BY <4>1, <4>2, <1>4
    <3>2. ASSUME NEW i \in 1..(n + 1), i < n + 1 PROVE pos'[i].path # pos'[i + 1].path
      <4>1. CASE i = n
        BY <4>1, <1>4, <1>12, <1>14, <2>4
      <4>2. CASE i # n
        <5>1. i \in 1..n /\ i + 1 \in 1..n /\ i < n
          BY <3>2, <4>2, <1>4
        <5>2. pos'[i].path = pos[i].path /\ pos'[i + 1].path = pos[i + 1].path
          BY <5>1, <1>12, <1>14
        <5> QED BY <5>1, <5>2, <2>1 DEF Mirror, n
      <4> QED BY <4>1, <4>2
    <3> QED BY <3>1, <3>2, <2>6, <1>14 DEF Mirror
  <2>8. Called'
    BY <2>5, <1>17, <1>18 DEF Called
  <2> QED BY <2>5, <2>7, <2>8 DEF NameInv
<1> QED BY <1>19, <1>20, <1>21 DEF SyncInv, LineInv

LEMMA IncludeSynced ==
  ASSUME OrdinarySources, FilesInv, SyncInv, handle_include PROVE SyncInv'
<1>1. TakeLine("include")
  BY DEF handle_include, DirectiveLine
<1>2. PICK want \in Includes, isAngle \in BOOLEAN :
        LET found == include_fopen(cd_stack[Len(cd_stack)], want, isAngle)
        IN \/ PlainPosition /\ Synced /\ UNCHANGED file_stack
           \/ found # NoFile /\ Len(file_stack) # N_FILES /\ Enter(found)
  BY DEF handle_include
<1> DEFINE found == include_fopen(cd_stack[Len(cd_stack)], want, isAngle)
<1>3. CASE PlainPosition /\ Synced /\ UNCHANGED file_stack
  BY <1>1, <1>3, PlainSynced
<1>4. CASE found # NoFile /\ Len(file_stack) # N_FILES /\ Enter(found)
  <2>1. found \in Found
    BY <1>4, FoundType
  <2> HIDE DEF found
  <2> QED BY <1>1, <1>4, <2>1, EnterSynced
<1> QED BY <1>2, <1>3, <1>4

LEMMA LeaveSynced ==
  ASSUME OrdinarySources, FilesInv, SyncInv, EndOfInclude PROVE SyncInv'
<1> DEFINE n == Len(pos) - 1
           back == file_stack[n]
<1>1. StackInv /\ Fits(cc) /\ CountInv
  BY DEF FilesInv, ReaderInv
<1>2. status = "run" /\ n_nls = 0 /\ ~eof /\ splicing = 0
  <2>1. status = "run" /\ n_nls = 0 /\ ~eof /\ ~(splicing > 0)
    BY DEF EndOfInclude, Running, OrdinarySources
  <2> QED BY <2>1, <1>1, PreprocAssumption DEF CountInv
<1>3. Levels /\ Counted /\ (~cc.astray => NameInv)
  BY <1>2 DEF SyncInv, LineInv
<1>4. n \in Nat /\ n > 0 /\ Len(pos) = n + 1 /\ Len(file_stack) = n + 1
  BY <1>1 DEF EndOfInclude, StackInv, StackType
<1>5. back \in OpenFile /\ pos[n] \in Position
  BY <1>1, <1>4 DEF StackInv, StackType
<1>6. /\ cc' = Marker(cc, back.line_no, back.fname, "return", back.is_sysh)
      /\ current_line' = back.line_no /\ current_fname' = back.fname
      /\ file_stack' = Front(file_stack) /\ pos' = Front(pos)
  BY <1>4 DEF EndOfInclude, RestoreState
<1>7. back.line_no = pos[n].line /\ back.fname = pos[n].path
  BY <1>1, <1>3, <1>4 DEF Levels, StackInv
<1>8. /\ back.line_no \in Int /\ back.fname \in FileNames /\ back.is_sysh \in BOOLEAN
  BY <1>5 DEF OpenFile, FileNames
<1>9. cc'.line = back.line_no - 1 /\ (cc.astray => cc'.astray)
  <2> HIDE DEF n, back
  <2> QED BY <1>1, <1>6, <1>8, MarkerFits
<1>12. Len(pos') = n /\ \A i \in 1..n : pos'[i] = pos[i]
  BY <1>1, <1>4, <1>6, FrontProperties DEF StackInv, StackType
<1>13. Len(file_stack') = n /\ \A i \in 1..n : file_stack'[i] = file_stack[i]
  BY <1>1, <1>4, <1>6, FrontProperties DEF StackInv, StackType
<1>14. Here' = pos[n]
  BY <1>4, <1>12 DEF Here
<1>15. UNCHANGED <<eof, n_nls, splicing>>
  BY DEF EndOfInclude, readVars
<1> HIDE DEF n
<1>16. Levels'
  <2> SUFFICES ASSUME NEW i \in 1..n
               PROVE /\ pos'[i].name = pos'[i].path
                     /\ i < n => file_stack'[i].line_no = pos'[i].line
    BY <1>12 DEF Levels
  <2>1. i \in 1..Len(pos) /\ i < Len(pos)
    BY <1>4
  <2> QED BY <2>1, <1>3, <1>12, <1>13 DEF Levels
<1>17. Counted'
  <2> HIDE DEF back
  <2> QED BY <1>2, <1>3, <1>6, <1>7, <1>8, <1>9, <1>14, <1>15 DEF Counted
<1>18. ASSUME ~cc'.astray PROVE NameInv'
  <2>1. Mirror /\ Called /\ cc.icw = FALSE
    BY <1>2, <1>3, <1>9, <1>18 DEF NameInv
  <2>2. /\ cc.stack[n].fnam = back.fname /\ cc.stack[n + 1].fnam # back.fname
        /\ cc.stack[n].sysh = back.is_sysh /\ Len(cc.stack) = n + 1
    BY <2>1, <1>4, <1>7 DEF Mirror
  <2>3. /\ cc'.fname = back.fname /\ cc'.sysh = back.is_sysh
        /\ cc'.icw = FALSE /\ cc'.stack = SubSeq(cc.stack, 1, n)
    <3> HIDE DEF back
    <3>1. Reads(Marker(cc, back.line_no, back.fname, "return", back.is_sysh), cc, back.line_no - 1,
                back.fname, cc.stack[n].sysh, SubSeq(cc.stack, 1, n))
      BY <1>1, <1>4, <1>8, <2>2, ReturnMarker
    <3> QED BY <1>6, <2>1, <2>2, <3>1 DEF Reads
  <2>4. Len(cc'.stack) = n /\ \A i \in 1..n : cc'.stack[i] = cc.stack[i]
    BY <1>1, <1>4, <2>2, <2>3 DEF Fits, CcState
  <2>5. Mirror'
    <3>1. \A i \in 1..n : i \in 1..Len(pos) /\ i < Len(pos) /\ (i < n => i + 1 \in 1..n)
      BY <1>4
    <3> QED BY <2>1, <2>4, <3>1, <1>12, <1>13 DEF Mirror
  <2>6. Called'
    <3>1. file_stack'[Len(file_stack')] = back
      BY <1>4, <1>13
    <3> HIDE DEF back
    <3> QED BY <3>1, <1>7, <1>14, <2>3 DEF Called
  <2> QED BY <2>3, <2>5, <2>6 DEF NameInv
<1> QED BY <1>16, <1>17, <1>18 DEF SyncInv, LineInv

LEMMA NextSync == OrdinarySources /\ FilesInv /\ SyncInv /\ [Next]_vars => SyncInv'
<1> SUFFICES ASSUME OrdinarySources, FilesInv, SyncInv, [Next]_vars PROVE SyncInv'
  OBVIOUS
<1>1. StackInv /\ Fits(cc) /\ CountInv
  BY DEF FilesInv, ReaderInv
<1>2. CASE UNCHANGED vars \/ Exited
  <2>1. UNCHANGED vars
    BY <1>2 DEF Exited
  <2> QED BY <2>1 DEF vars, condVars, fileVars, lineVars, readVars, SyncInv, LineInv, NameInv, Levels, Mirror, Counted, Called, Here
<1>3. CASE ReadSpliced
  <2>1. status = "run" /\ UNCHANGED <<cc, file_stack, current_fname, n_nls, eof>>
    BY <1>3 DEF ReadSpliced, Running, fileVars
  <2>2. current_line' = current_line + 1 /\ pos' = NextPos /\ splicing' = splicing + 1
    BY <1>3 DEF ReadSpliced
  <2>3. Levels /\ Counted /\ current_fname = Here.path /\ (~cc.astray => NameInv)
    BY <2>1 DEF SyncInv, LineInv, Counted
  <2>4. Levels' /\ current_fname' = Here'.path /\ (~cc'.astray => NameInv')
    BY <1>1, <2>1, <2>2, <2>3, MoveKeeps
  <2>5. Here'.line = Here.line + 1
    BY <1>1, <2>2, NextPosKeeps
  <2>6. cc.line \in Int /\ splicing \in Int /\ Here.line \in Int /\ n_nls \in Int
    BY <1>1, HereType, PreprocAssumption DEF Fits, CcState, CountInv, Position
  <2>7. Counted'
    BY <2>1, <2>2, <2>3, <2>4, <2>5, <2>6 DEF Counted
  <2> QED BY <2>4, <2>7 DEF SyncInv, LineInv
<1>4. CASE OwedLine
  <2>1. status = "run" /\ UNCHANGED <<pos, file_stack, current_fname, current_line, splicing, eof>>
    BY <1>4 DEF OwedLine, lineVars, fileVars
  <2>2. cc' = OrdinaryLine(cc) /\ n_nls' = n_nls - 1 /\ n_nls > 0
    BY <1>4 DEF OwedLine
  <2>3. Levels /\ Counted /\ current_fname = Here.path /\ (~cc.astray => NameInv)
    BY <2>1 DEF SyncInv, LineInv, Counted
  <2>4. Levels' /\ current_fname' = Here'.path /\ (~cc'.astray => NameInv')
    BY <1>1, <2>1, <2>2, <2>3, MoveKeeps
  <2>5. cc'.line = cc.line + 1 /\ Here' = Here
    BY <1>1, <2>1, <2>2, OrdinaryKeeps DEF Here
  <2>6. cc.line \in Int /\ splicing \in Int /\ Here.line \in Int /\ n_nls \in Int
    BY <1>1, HereType, PreprocAssumption DEF Fits, CcState, CountInv, Position
  <2>7. Counted'
    BY <2>1, <2>2, <2>3, <2>4, <2>5, <2>6 DEF Counted
  <2> QED BY <2>4, <2>7 DEF SyncInv, LineInv
<1>5. CASE EndOfInput
  BY <1>5 DEF EndOfInput, EndValidate, SyncInv, LineInv, NameInv
<1>6. CASE TextLine
  BY <1>6, PlainSynced DEF TextLine, Synced, fileVars
<1>7. CASE Ifdef \/ IfdefMalformed \/ If \/ Elif \/ Else \/ Endif
  BY <1>7, PlainSynced DEF Ifdef, IfdefMalformed, If, Elif, Else, Endif, ConditionalLine, DirectiveLine, fileVars
<1>8. CASE SkippedDirective \/ Harmless
  <2>1. PICK kind \in Kinds : /\ TakeLine(kind)
                              /\ kind \in {"null", "nonword"} \/ Synced
    BY <1>8 DEF SkippedDirective, Harmless, DirectiveLine
  <2>2. Synced
    BY <2>1 DEF OrdinarySources
  <2> QED BY <1>8, <2>1, <2>2, PlainSynced DEF SkippedDirective, Harmless, fileVars
<1>9. CASE handle_define \/ handle_undef
  BY <1>9, PlainSynced DEF handle_define, handle_undef, DirectiveLine, fileVars
<1>10. CASE Fatal
  <2>1. status' # "run" /\ UNCHANGED cc
    BY <1>10 DEF Fatal, Die, CppDie
  <2> QED BY <2>1 DEF SyncInv, LineInv, NameInv
<1>11. CASE handle_line_directive
  BY <1>11 DEF handle_line_directive, DirectiveLine, OrdinarySources
<1>12. CASE handle_include
  BY <1>12, IncludeSynced
<1>13. CASE EndOfInclude
  BY <1>13, LeaveSynced
<1> QED BY <1>2, <1>3, <1>4, <1>5, <1>6, <1>7, <1>8, <1>9, <1>10, <1>11, <1>12, <1>13 DEF Next

LEMMA InitSync == Init => SyncInv
<1> SUFFICES ASSUME Init PROVE SyncInv
  OBVIOUS
<1> DEFINE e == [fnam |-> Main, lno |-> 1, sysh |-> FALSE]
<1>1. /\ Fits(CcInit(Main)) /\ CcInit(Main).stack = <<>> /\ CcInit(Main).icw = FALSE
      /\ CcInit(Main).astray = FALSE
  BY PreprocAssumption, FnameStackAssumption DEF Fits, CcInit, CcState, FileNames
<1>3. cc.line = 0 /\ cc.fname = Main /\ cc.sysh = FALSE /\ cc.icw = FALSE /\ cc.stack = <<e>>
  <2>1. cc = Marker(CcInit(Main), 1, Main, "start", FALSE)
    BY DEF Init
  <2>2. 1 \in Int /\ ~CannotReturn(CcInit(Main).stack, Main)
    BY <1>1, FnameStackAssumption DEF CannotReturn
  <2>3. Reads(Marker(CcInit(Main), 1, Main, "start", FALSE), CcInit(Main), 1 - 1, Main, FALSE,
              Append(CcInit(Main).stack, e))
    BY <2>2, <1>1, StartMarker
  <2>4. Reads(cc, CcInit(Main), 1 - 1, Main, FALSE, Append(<<>>, e))
    BY <2>1, <2>3, <1>1, Zenon
  <2>5. Append(<<>>, e) = <<e>> /\ 1 - 1 = 0
    OBVIOUS
  <2>6. Reads(cc, CcInit(Main), 0, Main, FALSE, <<e>>)
    BY <2>4, <2>5, Zenon
  <2> QED BY <2>6, <1>1, Zenon DEF Reads
<1>4. /\ pos = <<[path |-> Main, name |-> Main, line |-> 1]>>
      /\ file_stack = <<[fname |-> Main, line_no |-> 1, is_sysh |-> FALSE]>>
      /\ eof = FALSE /\ n_nls = 0 /\ splicing = 0 /\ current_line = 1 /\ current_fname = Main
  BY DEF Init
<1>5. Len(pos) = 1 /\ Len(cc.stack) = 1 /\ Len(file_stack) = 1
  BY <1>3, <1>4
<1>6. Levels
  BY <1>4, <1>5 DEF Levels
<1>7. Mirror
  <2>1. cc.stack[1] = e /\ pos[1].path = Main /\ file_stack[1].is_sysh = FALSE
    BY <1>3, <1>4
  <2>2. cc.stack[1].fnam = pos[1].path /\ cc.stack[1].sysh = file_stack[1].is_sysh
    <3>1. e.fnam = Main /\ e.sysh = FALSE
      OBVIOUS
    <3> HIDE DEF e
    <3> QED BY <2>1, <3>1, Zenon
  <2>3. \A i \in 1..Len(pos) : i = 1
    BY <1>5
  <2>4. Len(cc.stack) = Len(pos)
    BY <1>5
  <2>5. \A i \in 1..Len(pos) : ~(i < Len(pos))
    BY <1>5
  <2> QED BY <2>2, <2>3, <2>4, <2>5, Zenon DEF Mirror
<1>8. Counted
  <2>1. Here.line = 1
    BY <1>4, <1>5 DEF Here
  <2>2. cc.line + 1 + n_nls + splicing = Here.line /\ current_line = Here.line
    BY <1>3, <1>4, <2>1
  <2>3. current_fname = Here.path
    BY <1>4, <1>5 DEF Here
  <2> QED BY <1>4, <2>2, <2>3, Zenon DEF Counted
<1>9. Called
  <2>1. Here.path = Main /\ file_stack[Len(file_stack)].is_sysh = FALSE
    BY <1>4, <1>5 DEF Here
  <2> QED BY <1>3, <1>4, <2>1, Zenon DEF Called
<1> QED BY <1>3, <1>6, <1>7, <1>8, <1>9, Zenon DEF SyncInv, LineInv, NameInv

LEMMA SyncInvariant == ASSUME OrdinarySources PROVE Spec => []SyncInv
<1>1. FilesInv /\ SyncInv /\ [Next]_vars => SyncInv'
  BY NextSync
<1> QED BY <1>1, InitSync, FilesInvariant, PTL DEF Spec

(* Of sources such as OrdinarySources describes, every line that cpp prints is    *)
(* read by cc1 under the number it has in the source and, as long as cc1's stack  *)
(* had room for every name and no file was included by itself, under its name;    *)
(* and the numbers and names cpp keeps for its messages, __LINE__ and the markers *)
(* agree, through any number of continued lines, includes and returns.            *)
THEOREM InSync == ASSUME OrdinarySources PROVE Spec => []OutputInSync
<1>1. FilesInv /\ SyncInv => OutputInSync
  <2> SUFFICES ASSUME FilesInv, SyncInv, status = "run", splicing = 0, ~eof
               PROVE /\ cc.line + 1 + n_nls = Here.line /\ (~cc.astray => cc.fname = Here.name)
                     /\ current_line = Here.line /\ current_fname = Here.name
    BY DEF OutputInSync
  <2>1. Levels /\ Counted /\ (~cc.astray => Called)
    BY DEF SyncInv, LineInv, NameInv
  <2>2. Here.name = Here.path
    BY <2>1, HereType DEF FilesInv, Levels, Here
  <2>3. cc.line \in Int /\ n_nls \in Int
    BY PreprocAssumption DEF FilesInv, ReaderInv, Fits, CcState, CountInv
  <2> QED BY <2>1, <2>2, <2>3 DEF Counted, Called
<1> QED BY <1>1, FilesInvariant, SyncInvariant, PTL

(* And cc1's stack of "included from here" names is the chain of files that are   *)
(* open, every return finds its file there, and in_sysh is the flag of the file   *)
(* being read, until a name found no room on the stack or a file was included by  *)
(* itself; files may be open several times otherwise.                             *)
THEOREM BacktraceCorrect == ASSUME OrdinarySources PROVE Spec => []BacktraceMatches
<1>1. FilesInv /\ SyncInv => BacktraceMatches
  <2> SUFFICES ASSUME FilesInv, SyncInv, ~cc.astray PROVE BacktraceMatches
    BY DEF BacktraceMatches
  <2>1. ASSUME status = "run"
        PROVE /\ [i \in DOMAIN cc.stack |-> cc.stack[i].fnam] = [i \in DOMAIN pos |-> pos[i].name]
              /\ cc.sysh = file_stack[Len(file_stack)].is_sysh
    <3>1. Levels /\ Mirror /\ Called
      BY <2>1 DEF SyncInv, LineInv, NameInv
    <3>2. DOMAIN pos = 1..Len(pos) /\ DOMAIN cc.stack = 1..Len(cc.stack)
      BY DEF FilesInv, StackInv, StackType, ReaderInv, Fits, CcState
    <3>3. DOMAIN cc.stack = DOMAIN pos /\ \A i \in DOMAIN pos : cc.stack[i].fnam = pos[i].name
      BY <3>1, <3>2 DEF Levels, Mirror
    <3> QED BY <3>1, <3>3 DEF Called
  <2> QED BY <2>1 DEF BacktraceMatches, SyncInv, NameInv
<1> QED BY <1>1, FilesInvariant, SyncInvariant, PTL
=============================================================================

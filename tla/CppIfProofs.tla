----------------------------- MODULE CppIfProofs -----------------------------
(***************************************************************************)
(* What CppIf guarantees of every sequence of conditional directives, for    *)
(* every depth of the #if stack.                                              *)
(***************************************************************************)
EXTENDS CppIf, TLAPS

(* The skip flag and the chosen state of nesting level i: the current level's *)
(* are in noop and if_elif_chosen, an outer one's where if_push() left them.  *)
LevelNoop(i) == IF i = Len(if_stack) THEN noop ELSE if_stack[i + 1].noop
LevelChosen(i) == IF i = Len(if_stack) THEN if_elif_chosen ELSE if_stack[i + 1].if_chosen

(* A group is live when no level around it is skipped, and on when it is live *)
(* and its own level is not skipped.                                          *)
LiveOK ==
  \A i \in 1..Len(if_stack) :
    /\ groups[i].live <=> (\A j \in 0..(i - 1) : ~LevelNoop(j))
    /\ groups[i].on <=> (groups[i].live /\ ~LevelNoop(i))

(* The chosen state tells whether #else was seen and, in a live group before   *)
(* its #else, whether a branch was taken. In a group that is not live it may   *)
(* be anything.                                                                *)
ChosenOK ==
  \A i \in 1..Len(if_stack) :
    /\ groups[i].els <=> (LevelChosen(i) = "LAST_ELSE")
    /\ groups[i].live /\ ~groups[i].els => (groups[i].taken <=> LevelChosen(i) = "GOT_TRUTH")

(* The stack keeps room for one more group, and the outermost text is live.   *)
Depth ==
  /\ Len(groups) = Len(if_stack)
  /\ Len(if_stack) < N_IFSTACK
  /\ ~LevelNoop(0)

CondInv == CondTypeOK /\ (status = "run" => Depth /\ LiveOK /\ ChosenOK)

-----------------------------------------------------------------------------
Frame == [noop : BOOLEAN, if_chosen : Chosen]

LEMMA SeqElt == \A S : \A s \in Seq(S) : \A i \in 1..Len(s) : s[i] \in S
  OBVIOUS

LEMMA LevelType ==
  ASSUME CondTypeOK
  PROVE /\ Len(if_stack) \in Nat
        /\ \A i \in 0..Len(if_stack) : LevelNoop(i) \in BOOLEAN /\ LevelChosen(i) \in Chosen
<1>1. Len(if_stack) \in Nat
  BY DEF CondTypeOK
<1>2. ASSUME NEW i \in 0..Len(if_stack), i # Len(if_stack)
      PROVE if_stack[i + 1] \in Frame
  <2>1. i + 1 \in 1..Len(if_stack)
    BY <1>1, <1>2
  <2>2. if_stack \in Seq(Frame)
    BY DEF CondTypeOK, Frame
  <2> QED BY <2>1, <2>2, SeqElt
<1>3. ASSUME NEW i \in 0..Len(if_stack)
      PROVE LevelNoop(i) \in BOOLEAN /\ LevelChosen(i) \in Chosen
  BY <1>2 DEF CondTypeOK, LevelNoop, LevelChosen, Frame
<1> QED BY <1>1, <1>3

(* parse_should_noop() looks at every level. *)
LEMMA NoopIsSomeLevel ==
  ASSUME CondTypeOK, ~LevelNoop(0) 
  PROVE parse_should_noop <=> \E i \in 0..Len(if_stack) : LevelNoop(i)
<1>1. ASSUME parse_should_noop PROVE \E i \in 0..Len(if_stack) : LevelNoop(i)
  <2>1. CASE noop
    BY <2>1, LevelType DEF LevelNoop
  <2>2. CASE \E i \in DOMAIN if_stack : if_stack[i].noop
    <3> PICK k \in DOMAIN if_stack : if_stack[k].noop
      BY <2>2
    <3>1. k - 1 \in 0..Len(if_stack) /\ k - 1 # Len(if_stack) /\ (k - 1) + 1 = k
      BY DEF CondTypeOK
    <3> QED BY <3>1 DEF LevelNoop
  <2> QED BY <1>1, <2>1, <2>2 DEF parse_should_noop
<1>2. ASSUME NEW i \in 0..Len(if_stack), LevelNoop(i) PROVE parse_should_noop
  <2>1. CASE i = Len(if_stack)
    BY <1>2, <2>1 DEF LevelNoop, parse_should_noop
  <2>2. CASE i # Len(if_stack)
    <3>1. i + 1 \in DOMAIN if_stack
      BY <2>2 DEF CondTypeOK
    <3> QED BY <3>1, <1>2, <2>2 DEF LevelNoop, parse_should_noop
  <2> QED BY <2>1, <2>2
<1> QED BY <1>1, <1>2

(* The text is live when no level is skipped. *)
LEMMA ActiveLevels ==
  ASSUME CondInv, status = "run"
  PROVE /\ Active(groups) <=> \A i \in 0..Len(if_stack) : ~LevelNoop(i)
        /\ Active(groups) => ~noop
<1> DEFINE n == Len(if_stack)
<1>1. n \in Nat /\ Len(groups) = n /\ ~LevelNoop(0)
  BY LevelType DEF Depth, CondInv
<1>2. Active(groups) <=> \A i \in 0..n : ~LevelNoop(i)
  <2>1. CASE n = 0
    BY <1>1, <2>1 DEF Active, CondTypeOK, CondInv
  <2>2. CASE n # 0
    <3>1. (groups[n].on <=> (groups[n].live /\ ~LevelNoop(n)))
          /\ (groups[n].live <=> \A j \in 0..(n - 1) : ~LevelNoop(j))
      BY <1>1, <2>2 DEF LiveOK, CondInv
    <3>2. groups # <<>>
      BY <1>1, <2>2 DEF CondTypeOK, CondInv
    <3>3. 0..n = (0..(n - 1)) \cup {n}
      BY <1>1, <2>2
    <3>4. Active(groups) <=> groups[n].on
      BY <3>2, <1>1 DEF Active
    <3> HIDE DEF n
    <3> QED BY <3>1, <3>3, <3>4
  <2> QED BY <2>1, <2>2
<1>3. LevelNoop(n) <=> noop
  BY <1>1 DEF LevelNoop
<1> QED BY <1>1, <1>2, <1>3

LEMMA InvSkips == CondInv => SkipsAsStandard
<1> SUFFICES ASSUME CondInv, status = "run"
             PROVE Len(groups) = Len(if_stack) /\ (parse_should_noop <=> ~Active(groups))
  BY DEF SkipsAsStandard
<1>1. CondTypeOK /\ Len(groups) = Len(if_stack) /\ ~LevelNoop(0)
  BY DEF CondInv, Depth
<1>2. parse_should_noop <=> \E i \in 0..Len(if_stack) : LevelNoop(i)
  BY <1>1, NoopIsSomeLevel
<1> QED BY <1>1, <1>2, ActiveLevels

LEMMA InvElse == CondInv => ElseRemembered
<1> SUFFICES ASSUME CondInv, status = "run", NEW i \in DOMAIN groups
             PROVE groups[i].els <=>
                     (IF i = Len(groups) THEN if_elif_chosen ELSE if_stack[i + 1].if_chosen) = "LAST_ELSE"
  BY DEF ElseRemembered
<1>1. Len(groups) = Len(if_stack) /\ i \in 1..Len(if_stack)
  BY DEF CondInv, Depth, CondTypeOK
<1> QED BY <1>1 DEF CondInv, ChosenOK, LevelChosen

-----------------------------------------------------------------------------
(* A step that leaves the outer levels alone and sets the current one.         *)

LEMMA ActiveType == CondTypeOK => Active(groups) \in BOOLEAN
<1> SUFFICES ASSUME CondTypeOK PROVE Active(groups) \in BOOLEAN
  OBVIOUS
<1>1. groups \in Seq(Group)
  BY DEF CondTypeOK
<1>2. CASE groups = <<>>
  BY <1>2 DEF Active
<1>3. CASE groups # <<>>
  <2>1. Len(groups) \in 1..Len(groups)
    BY <1>1, <1>3
  <2>2. groups[Len(groups)] \in Group
    BY <1>1, <2>1, SeqElt
  <2> QED BY <2>2 DEF Active, Group
<1> QED BY <1>2, <1>3

LEMMA NewGroup ==
  ASSUME NEW a \in BOOLEAN, NEW c \in BOOLEAN, NEW g,
         g = [live |-> a, taken |-> a /\ c, els |-> FALSE, on |-> a /\ c]
  PROVE /\ g \in Group
        /\ (g.live <=> a) /\ (g.taken <=> (a /\ c)) /\ ~g.els /\ (g.on <=> (a /\ c))
  BY DEF Group

LEMMA PushType ==
  ASSUME CondTypeOK, Len(if_stack) + 1 <= N_IFSTACK
  PROVE /\ Append(if_stack, [noop |-> noop, if_chosen |-> if_elif_chosen]) \in Seq(Frame)
        /\ Len(Append(if_stack, [noop |-> noop, if_chosen |-> if_elif_chosen])) = Len(if_stack) + 1
        /\ \A c \in BOOLEAN : Opened(c) \in Seq(Group)
<1>1. if_stack \in Seq(Frame) /\ [noop |-> noop, if_chosen |-> if_elif_chosen] \in Frame
  BY DEF CondTypeOK, Frame
<1>2. groups \in Seq(Group)
  BY DEF CondTypeOK
<1>3. Active(groups) \in BOOLEAN
  BY ActiveType
<1>4. \A c \in BOOLEAN : [live |-> Active(groups), taken |-> Active(groups) /\ c,
                          els |-> FALSE, on |-> Active(groups) /\ c] \in Group
  BY <1>3 DEF Group
<1> QED BY <1>1, <1>2, <1>4 DEF Opened

(* if_push() of a condition c that is true in live text exactly when is_true. *)
LEMMA PushKeeps ==
  ASSUME CondInv, status = "run",
         NEW is_true \in BOOLEAN, NEW c \in BOOLEAN,
         Active(groups) => (is_true <=> c),
         Len(if_stack) + 1 # N_IFSTACK,
         if_push(is_true, c)
  PROVE Depth' /\ LiveOK' /\ ChosenOK'
<1> PICK n \in Nat : n = Len(if_stack)
  BY DEF CondInv, CondTypeOK
<1> DEFINE g == [live |-> Active(groups), taken |-> Active(groups) /\ c,
                 els |-> FALSE, on |-> Active(groups) /\ c]
<1>1. /\ Len(groups) = n
      /\ if_stack \in Seq(Frame) /\ groups \in Seq(Group)
  BY DEF CondInv, Depth, CondTypeOK, Frame
<1>2. /\ if_stack' = Append(if_stack, [noop |-> noop, if_chosen |-> if_elif_chosen])
      /\ noop' = ~is_true
      /\ if_elif_chosen' = IF is_true THEN "GOT_TRUTH" ELSE "NO_TRUTH"
      /\ groups' = Append(groups, g)
  BY DEF if_push, Opens, Opened
<1>3. /\ Len(if_stack') = n + 1 /\ Len(groups') = n + 1
      /\ \A i \in 1..n : if_stack'[i] = if_stack[i] /\ groups'[i] = groups[i]
      /\ if_stack'[n + 1] = [noop |-> noop, if_chosen |-> if_elif_chosen]
      /\ groups'[n + 1] = g
  BY <1>1, <1>2
<1>4. ASSUME NEW i \in 0..n
      PROVE (LevelNoop(i)' <=> LevelNoop(i)) /\ LevelChosen(i)' = LevelChosen(i)
  <2>1. i # n + 1 /\ (i # n => i + 1 \in 1..n)
    BY <1>1, <1>4
  <2> QED BY <1>3, <2>1 DEF LevelNoop, LevelChosen
<1>5. /\ LevelNoop(n + 1)' <=> ~is_true
      /\ LevelChosen(n + 1)' # "LAST_ELSE"
      /\ LevelChosen(n + 1)' = "GOT_TRUTH" <=> is_true
  <2>1. LevelNoop(n + 1)' = noop' /\ LevelChosen(n + 1)' = if_elif_chosen'
    BY <1>3 DEF LevelNoop, LevelChosen
  <2>2. CASE is_true
    BY <2>1, <2>2, <1>2
  <2>3. CASE ~is_true
    BY <2>1, <2>3, <1>2
  <2> QED BY <2>2, <2>3
<1>6. Active(groups) <=> \A j \in 0..n : ~LevelNoop(j)
  BY ActiveLevels
<1>g. /\ g.live <=> Active(groups)
      /\ g.taken <=> (Active(groups) /\ c)
      /\ ~g.els
      /\ g.on <=> (Active(groups) /\ c)
  <2>1. Active(groups) \in BOOLEAN
    BY ActiveType DEF CondInv
  <2> QED BY <2>1, NewGroup
<1> HIDE DEF g
<1>7. Depth'
  BY <1>1, <1>3, <1>4, IfStackAssumption DEF Depth, CondInv
<1>8. LiveOK'
  <2> SUFFICES ASSUME NEW i \in 1..(n + 1)
      PROVE /\ (groups'[i].live <=> \A j \in 0..(i - 1) : ~LevelNoop(j)')
            /\ (groups'[i].on <=> (groups'[i].live /\ ~LevelNoop(i)'))
    BY <1>3 DEF LiveOK
  <2>1. CASE i \in 1..n
    <3>1. i \in 0..n /\ 0..(i - 1) \subseteq 0..n
      BY <1>1, <2>1
    <3>2. /\ (groups[i].live <=> \A j \in 0..(i - 1) : ~LevelNoop(j))
          /\ (groups[i].on <=> (groups[i].live /\ ~LevelNoop(i)))
      BY <2>1 DEF CondInv, LiveOK
    <3> QED BY <1>3, <1>4, <2>1, <3>1, <3>2
  <2>2. CASE i = n + 1
    <3>1. i - 1 = n
      BY <1>1, <2>2
    <3>2. (groups'[i].live <=> Active(groups)) /\ (groups'[i].on <=> (Active(groups) /\ c))
      BY <1>3, <1>g, <2>2
    <3> QED BY <1>4, <1>5, <1>6, <2>2, <3>1, <3>2
  <2> QED BY <1>1, <2>1, <2>2
<1>9. ChosenOK'
  <2> SUFFICES ASSUME NEW i \in 1..(n + 1)
      PROVE /\ (groups'[i].els <=> (LevelChosen(i)' = "LAST_ELSE"))
            /\ groups'[i].live /\ ~groups'[i].els => (groups'[i].taken <=> LevelChosen(i)' = "GOT_TRUTH")
    BY <1>3 DEF ChosenOK
  <2>1. CASE i \in 1..n
    <3>1. i \in 0..n
      BY <1>1, <2>1
    <3>2. /\ (groups[i].els <=> (LevelChosen(i) = "LAST_ELSE"))
          /\ groups[i].live /\ ~groups[i].els => (groups[i].taken <=> LevelChosen(i) = "GOT_TRUTH")
      BY <2>1 DEF CondInv, ChosenOK
    <3> QED BY <1>3, <1>4, <2>1, <3>1, <3>2
  <2>2. CASE i = n + 1
    <3>1. /\ (groups'[i].live <=> Active(groups)) /\ ~groups'[i].els
          /\ (groups'[i].taken <=> (Active(groups) /\ c))
      BY <1>3, <1>g, <2>2
    <3> QED BY <1>5, <2>2, <3>1
  <2> QED BY <1>1, <2>1, <2>2
<1> QED BY <1>7, <1>8, <1>9

(* if_pop(): the level around the group is current again.                      *)
LEMMA PopKeeps ==
  ASSUME CondInv, status = "run", if_stack # <<>>, if_pop
  PROVE Depth' /\ LiveOK' /\ ChosenOK' /\ if_stack' \in Seq(Frame) /\ groups' \in Seq(Group)
        /\ Len(if_stack') <= N_IFSTACK /\ noop' \in BOOLEAN /\ if_elif_chosen' \in Chosen
<1> PICK n \in Nat : n = Len(if_stack)
  BY DEF CondInv, CondTypeOK
<1>1. /\ Len(groups) = n /\ n # 0
      /\ if_stack \in Seq(Frame) /\ groups \in Seq(Group)
  BY DEF CondInv, Depth, CondTypeOK, Frame
<1>2. /\ if_stack' = SubSeq(if_stack, 1, n - 1) /\ groups' = SubSeq(groups, 1, n - 1)
      /\ noop' = if_stack[n].noop /\ if_elif_chosen' = if_stack[n].if_chosen
  BY <1>1 DEF if_pop, Closed
<1>3. /\ Len(if_stack') = n - 1 /\ Len(groups') = n - 1
      /\ \A i \in 1..(n - 1) : if_stack'[i] = if_stack[i] /\ groups'[i] = groups[i]
      /\ if_stack' \in Seq(Frame) /\ groups' \in Seq(Group)
  BY <1>1, <1>2
<1>4. ASSUME NEW i \in 0..(n - 1)
      PROVE (LevelNoop(i)' <=> LevelNoop(i)) /\ LevelChosen(i)' = LevelChosen(i)
  <2>1. i # n /\ (i # n - 1 => i + 1 \in 1..(n - 1)) /\ (i = n - 1 => i + 1 = n)
    BY <1>1, <1>4
  <2> QED BY <1>2, <1>3, <2>1 DEF LevelNoop, LevelChosen
<1>5. Depth'
  BY <1>1, <1>3, <1>4, IfStackAssumption DEF Depth, CondInv
<1>6. LiveOK' /\ ChosenOK'
  <2> SUFFICES ASSUME NEW i \in 1..(n - 1)
      PROVE /\ (groups'[i].live <=> \A j \in 0..(i - 1) : ~LevelNoop(j)')
            /\ (groups'[i].on <=> (groups'[i].live /\ ~LevelNoop(i)'))
            /\ (groups'[i].els <=> (LevelChosen(i)' = "LAST_ELSE"))
            /\ groups'[i].live /\ ~groups'[i].els => (groups'[i].taken <=> LevelChosen(i)' = "GOT_TRUTH")
    BY <1>3 DEF LiveOK, ChosenOK
  <2>1. i \in 0..(n - 1) /\ 0..(i - 1) \subseteq 0..(n - 1) /\ i \in 1..n
    BY <1>1
  <2>2. /\ (groups[i].live <=> \A j \in 0..(i - 1) : ~LevelNoop(j))
        /\ (groups[i].on <=> (groups[i].live /\ ~LevelNoop(i)))
        /\ (groups[i].els <=> (LevelChosen(i) = "LAST_ELSE"))
        /\ groups[i].live /\ ~groups[i].els => (groups[i].taken <=> LevelChosen(i) = "GOT_TRUTH")
    BY <2>1 DEF CondInv, LiveOK, ChosenOK
  <2> QED BY <1>3, <1>4, <2>1, <2>2
<1>7. noop' \in BOOLEAN /\ if_elif_chosen' \in Chosen
  <2>1. if_stack[n] \in Frame
    BY <1>1, SeqElt
  <2> QED BY <1>2, <2>1 DEF Frame
<1>8. Len(if_stack') <= N_IFSTACK
  BY <1>3, IfStackAssumption DEF CondInv, CondTypeOK
<1> QED BY <1>3, <1>5, <1>6, <1>7, <1>8

LEMMA BranchedGroup ==
  ASSUME NEW h \in Group, NEW c \in BOOLEAN, NEW e \in BOOLEAN, NEW g,
         g = [live |-> h.live, taken |-> h.taken \/ (h.live /\ ~h.taken /\ c),
              els |-> e, on |-> h.live /\ ~h.taken /\ c]
  PROVE /\ g \in Group
        /\ g.live <=> h.live
        /\ g.taken <=> (h.taken \/ (h.live /\ c))
        /\ g.els <=> e
        /\ g.on <=> (h.live /\ ~h.taken /\ c)
<1>1. h.live \in BOOLEAN /\ h.taken \in BOOLEAN
  BY DEF Group
<1> QED BY <1>1 DEF Group

(* #elif and #else: the current level's flags follow the branch's group.        *)
LEMMA BranchKeeps ==
  ASSUME CondInv, status = "run", if_stack # <<>>,
         NEW c \in BOOLEAN, NEW e \in BOOLEAN,
         groups' = NextBranch(c, e), if_stack' = if_stack,
         groups[Len(groups)].live => (noop' <=> ~(~groups[Len(groups)].taken /\ c)),
         e <=> if_elif_chosen' = "LAST_ELSE",
         groups[Len(groups)].live /\ ~e =>
           ((groups[Len(groups)].taken \/ c) <=> if_elif_chosen' = "GOT_TRUTH")
  PROVE Depth' /\ LiveOK' /\ ChosenOK' /\ groups' \in Seq(Group)
<1> PICK n \in Nat : n = Len(if_stack)
  BY DEF CondInv, CondTypeOK
<1>1. /\ Len(groups) = n /\ n # 0
      /\ if_stack \in Seq(Frame) /\ groups \in Seq(Group)
  BY DEF CondInv, Depth, CondTypeOK, Frame
<1> DEFINE h == groups[n]
           g == [live |-> h.live, taken |-> h.taken \/ (h.live /\ ~h.taken /\ c),
                 els |-> e, on |-> h.live /\ ~h.taken /\ c]
<1>2. groups' = [groups EXCEPT ![n] = g]
  BY <1>1 DEF NextBranch
<1>3. h \in Group
  BY <1>1, SeqElt
<1>4. /\ g \in Group
      /\ g.live <=> h.live
      /\ g.taken <=> (h.taken \/ (h.live /\ c))
      /\ g.els <=> e
      /\ g.on <=> (h.live /\ ~h.taken /\ c)
  BY <1>3, BranchedGroup
<1> HIDE DEF g
<1>5. /\ Len(groups') = n /\ groups' \in Seq(Group) /\ groups'[n] = g
      /\ \A i \in 1..n : i # n => groups'[i] = groups[i]
  BY <1>1, <1>2, <1>4
<1>6. ASSUME NEW i \in 0..n, i # n
      PROVE (LevelNoop(i)' <=> LevelNoop(i)) /\ LevelChosen(i)' = LevelChosen(i)
  BY <1>6 DEF LevelNoop, LevelChosen
<1>7. (LevelNoop(n)' <=> noop') /\ LevelChosen(n)' = if_elif_chosen'
  BY DEF LevelNoop, LevelChosen
<1>8. Depth'
  BY <1>1, <1>5, <1>6 DEF Depth, CondInv
<1>9. LiveOK' /\ ChosenOK'
  <2> SUFFICES ASSUME NEW i \in 1..n
      PROVE /\ (groups'[i].live <=> \A j \in 0..(i - 1) : ~LevelNoop(j)')
            /\ (groups'[i].on <=> (groups'[i].live /\ ~LevelNoop(i)'))
            /\ (groups'[i].els <=> (LevelChosen(i)' = "LAST_ELSE"))
            /\ groups'[i].live /\ ~groups'[i].els => (groups'[i].taken <=> LevelChosen(i)' = "GOT_TRUTH")
    BY DEF LiveOK, ChosenOK
  <2>1. /\ (groups[i].live <=> \A j \in 0..(i - 1) : ~LevelNoop(j))
        /\ (groups[i].on <=> (groups[i].live /\ ~LevelNoop(i)))
        /\ (groups[i].els <=> (LevelChosen(i) = "LAST_ELSE"))
        /\ groups[i].live /\ ~groups[i].els => (groups[i].taken <=> LevelChosen(i) = "GOT_TRUTH")
    BY DEF CondInv, LiveOK, ChosenOK
  <2>2. \A j \in 0..(i - 1) : j \in 0..n /\ j # n
    OBVIOUS
  <2>3. (\A j \in 0..(i - 1) : ~LevelNoop(j)') <=> (\A j \in 0..(i - 1) : ~LevelNoop(j))
    BY <1>6, <2>2
  <2>4. CASE i # n
    <3>1. i \in 0..n /\ groups'[i] = groups[i]
      BY <1>5, <2>4
    <3> QED BY <1>6, <2>1, <2>3, <2>4, <3>1
  <2>5. CASE i = n
    <3>1. (g.live <=> \A j \in 0..(i - 1) : ~LevelNoop(j)') /\ groups'[i] = g
      BY <1>4, <1>5, <2>1, <2>3, <2>5
    <3>2. g.on <=> (g.live /\ ~noop')
      BY <1>1, <1>4
    <3>3. g.live /\ ~g.els => (g.taken <=> if_elif_chosen' = "GOT_TRUTH")
      BY <1>1, <1>4
    <3> QED BY <1>4, <1>7, <2>5, <3>1, <3>2, <3>3
  <2> QED BY <2>4, <2>5
<1> QED BY <1>5, <1>8, <1>9

-----------------------------------------------------------------------------
(* One lemma per directive. *)

LEMMA DieKeeps == CondInv /\ CppDie => CondInv'
<1> SUFFICES ASSUME CondInv, CppDie PROVE CondInv'
  OBVIOUS
<1>1. CondTypeOK'
  BY DEF CondInv, CondTypeOK, CppDie
<1>2. status' # "run"
  BY DEF CppDie
<1> QED BY <1>1, <1>2 DEF CondInv

LEMMA PushInv ==
  ASSUME CondInv, status = "run",
         NEW is_true \in BOOLEAN, NEW c \in BOOLEAN,
         Active(groups) => (is_true <=> c),
         if_push(is_true, c)
  PROVE CondInv'
<1>1. Len(if_stack) < N_IFSTACK /\ Len(if_stack) \in Nat /\ N_IFSTACK \in Nat
  BY IfStackAssumption DEF CondInv, CondTypeOK, Depth
<1>2. /\ if_stack' \in Seq(Frame) /\ Len(if_stack') = Len(if_stack) + 1
      /\ Opened(c) \in Seq(Group)
  BY <1>1, PushType DEF CondInv, if_push
<1>3. Len(if_stack') <= N_IFSTACK
  BY <1>1, <1>2
<1>4. CASE Len(if_stack) + 1 = N_IFSTACK
  <2>1. status' = "died" /\ UNCHANGED <<noop, if_elif_chosen, groups>>
    BY <1>4 DEF if_push
  <2>2. CondTypeOK'
    BY <1>2, <1>3, <2>1 DEF CondInv, CondTypeOK, Frame
  <2> QED BY <2>1, <2>2 DEF CondInv
<1>5. CASE Len(if_stack) + 1 # N_IFSTACK
  <2>1. Depth' /\ LiveOK' /\ ChosenOK'
    BY <1>5, PushKeeps
  <2>2. /\ noop' = ~is_true /\ if_elif_chosen' \in Chosen
        /\ groups' \in Seq(Group) /\ status' = status
    BY <1>2, <1>5 DEF if_push, Opens, Chosen
  <2>3. CondTypeOK'
    BY <1>2, <1>3, <2>2 DEF CondInv, CondTypeOK, Frame
  <2> QED BY <2>1, <2>3 DEF CondInv
<1> QED BY <1>4, <1>5

LEMMA SomedefInv ==
  ASSUME CondInv, status = "run", NEW c \in BOOLEAN, NEW wellFormed \in BOOLEAN,
         handle_somedef(c, wellFormed)
  PROVE CondInv'
<1>2. CASE ~wellFormed
  BY <1>2, DieKeeps DEF handle_somedef
<1>3. CASE wellFormed
  <2> DEFINE t == ~noop /\ c
  <2>1. t \in BOOLEAN /\ (Active(groups) => (t <=> c)) /\ if_push(t, c)
    BY <1>3, ActiveLevels DEF handle_somedef
  <2> HIDE DEF t
  <2> QED BY <2>1, PushInv
<1> QED BY <1>2, <1>3

LEMMA IfInv ==
  ASSUME CondInv, status = "run", NEW c \in {"true", "false", "bad"}, handle_if(c)
  PROVE CondInv'
<1> DEFINE v == (c = "true")
<1>0. noop \in BOOLEAN
  BY DEF CondInv, CondTypeOK
<1>1. CASE noop
  <2>1. if_push(FALSE, v)
    BY <1>1 DEF handle_if
  <2>2. ~Active(groups)
    BY <1>1, ActiveLevels
  <2> QED BY <1>0, <2>1, <2>2, PushInv
<1>2. CASE ~noop
  <2>2. CASE c = "bad"
    BY <1>2, <2>2, DieKeeps DEF handle_if
  <2>3. CASE c # "bad"
    <3>1. if_push(v, v)
      BY <1>2, <2>3 DEF handle_if
    <3> QED BY <3>1, PushInv
  <2> QED BY <2>2, <2>3
<1> QED BY <1>1, <1>2

(* What the invariant says of the innermost group. *)
LEMMA Innermost ==
  ASSUME CondInv, status = "run", if_stack # <<>>
  PROVE LET h == groups[Len(groups)]
        IN /\ h \in Group
           /\ h.els <=> if_elif_chosen = "LAST_ELSE"
           /\ h.live /\ ~h.els => (h.taken <=> if_elif_chosen = "GOT_TRUTH")
<1> PICK n \in Nat : n = Len(if_stack)
  BY DEF CondInv, CondTypeOK
<1>1. Len(groups) = n /\ n \in 1..n /\ groups \in Seq(Group)
  BY DEF CondInv, Depth, CondTypeOK
<1>2. groups[n] \in Group
  BY <1>1, SeqElt
<1>3. LevelChosen(n) = if_elif_chosen
  BY DEF LevelChosen
<1> QED BY <1>1, <1>2, <1>3 DEF CondInv, ChosenOK

LEMMA BranchInv ==
  ASSUME CondInv, status = "run", Depth', LiveOK', ChosenOK', groups' \in Seq(Group),
         if_stack' = if_stack, noop' \in BOOLEAN, if_elif_chosen' \in Chosen,
         status' = status
  PROVE CondInv'
<1>1. CondTypeOK'
  BY DEF CondInv, CondTypeOK
<1> QED BY <1>1 DEF CondInv

LEMMA ElifInv ==
  ASSUME CondInv, status = "run", NEW c \in {"true", "false", "bad"}, handle_elif(c)
  PROVE CondInv'
<1> DEFINE v == (c = "true")
           h == groups[Len(groups)]
<1>1. CASE if_stack = <<>> \/ if_elif_chosen = "LAST_ELSE"
  BY <1>1, DieKeeps DEF handle_elif
<1>2. CASE if_stack # <<>> /\ if_elif_chosen # "LAST_ELSE"
  <2>1. h \in Group /\ ~h.els /\ (h.live => (h.taken <=> if_elif_chosen = "GOT_TRUTH"))
    BY <1>2, Innermost
  <2>2. CASE if_elif_chosen = "GOT_TRUTH"
    <3>1. /\ noop' = TRUE /\ groups' = NextBranch(v, FALSE) /\ if_elif_chosen' = if_elif_chosen
          /\ UNCHANGED <<if_stack, status>>
      BY <1>2, <2>2 DEF handle_elif
    <3>2. Depth' /\ LiveOK' /\ ChosenOK' /\ groups' \in Seq(Group)
      BY <1>2, <2>1, <2>2, <3>1, BranchKeeps
    <3> QED BY <2>2, <3>1, <3>2, BranchInv DEF Chosen
  <2>3. CASE if_elif_chosen # "GOT_TRUTH"
    <3>2. CASE c = "bad"
      BY <1>2, <2>3, <3>2, DieKeeps DEF handle_elif
    <3>3. CASE c # "bad"
      <4>1. /\ if_elif_chosen' = IF v THEN "GOT_TRUTH" ELSE "NO_TRUTH"
            /\ noop' = ~v /\ groups' = NextBranch(v, FALSE)
            /\ UNCHANGED <<if_stack, status>>
        BY <1>2, <2>3, <3>3 DEF handle_elif
      <4>2. v \in BOOLEAN /\ (noop' <=> ~v)
            /\ if_elif_chosen' # "LAST_ELSE" /\ (v <=> if_elif_chosen' = "GOT_TRUTH")
        BY <4>1
      <4> HIDE DEF v
      <4>3. Depth' /\ LiveOK' /\ ChosenOK' /\ groups' \in Seq(Group)
        BY <1>2, <2>1, <2>3, <4>1, <4>2, BranchKeeps
      <4> QED BY <4>1, <4>2, <4>3, BranchInv DEF Chosen
    <3> QED BY <3>2, <3>3
  <2> QED BY <2>2, <2>3
<1> QED BY <1>1, <1>2

LEMMA ElseInv ==
  ASSUME CondInv, status = "run", handle_else
  PROVE CondInv'
<1> DEFINE h == groups[Len(groups)]
<1>1. CASE if_stack = <<>> \/ if_elif_chosen = "LAST_ELSE"
  BY <1>1, DieKeeps DEF handle_else
<1>2. CASE if_stack # <<>> /\ if_elif_chosen # "LAST_ELSE"
  <2>1. h \in Group /\ ~h.els /\ (h.live => (h.taken <=> if_elif_chosen = "GOT_TRUTH"))
    BY <1>2, Innermost
  <2>2. /\ noop' = (if_elif_chosen = "GOT_TRUTH") /\ groups' = NextBranch(TRUE, TRUE)
        /\ if_elif_chosen' = "LAST_ELSE" /\ UNCHANGED <<if_stack, status>>
    BY <1>2 DEF handle_else
  <2>3. noop' \in BOOLEAN /\ (noop' <=> if_elif_chosen = "GOT_TRUTH")
    BY <2>2
  <2>4. Depth' /\ LiveOK' /\ ChosenOK' /\ groups' \in Seq(Group)
    BY <1>2, <2>1, <2>2, <2>3, BranchKeeps
  <2> QED BY <2>2, <2>3, <2>4, BranchInv DEF Chosen
<1> QED BY <1>1, <1>2

LEMMA EndifInv ==
  ASSUME CondInv, status = "run", handle_endif
  PROVE CondInv'
<1>1. CASE if_stack = <<>>
  BY <1>1, DieKeeps DEF handle_endif
<1>2. CASE if_stack # <<>>
  <2>1. if_pop
    BY <1>2 DEF handle_endif
  <2>2. status' = status
    BY <2>1 DEF if_pop
  <2>3. /\ Depth' /\ LiveOK' /\ ChosenOK' /\ if_stack' \in Seq(Frame) /\ groups' \in Seq(Group)
        /\ Len(if_stack') <= N_IFSTACK /\ noop' \in BOOLEAN /\ if_elif_chosen' \in Chosen
    BY <1>2, <2>1, PopKeeps
  <2>4. CondTypeOK'
    BY <2>2, <2>3 DEF CondInv, CondTypeOK, Frame
  <2> QED BY <2>3, <2>4 DEF CondInv
<1> QED BY <1>1, <1>2

-----------------------------------------------------------------------------
LEMMA InitInv == CondInit => CondInv
<1> SUFFICES ASSUME CondInit PROVE CondInv
  OBVIOUS
<1>0. /\ Len(if_stack) = 0 /\ if_stack \in Seq(Frame)
      /\ Len(groups) = 0 /\ groups \in Seq(Group)
  BY DEF CondInit
<1>1. /\ noop \in BOOLEAN /\ ~noop /\ if_elif_chosen \in Chosen
      /\ status \in {"run", "died", "done"}
  BY Zenon DEF CondInit, Chosen
<1>2. CondTypeOK
  BY <1>0, <1>1, IfStackAssumption DEF CondTypeOK, Frame
<1>3. Depth /\ LiveOK /\ ChosenOK
  BY <1>0, <1>1, IfStackAssumption DEF Depth, LiveOK, ChosenOK, LevelNoop
<1> QED BY <1>2, <1>3 DEF CondInv

(* Every conditional directive, error and end of input keeps the invariant.    *)
LEMMA NextInv == CondInv /\ [CondNext]_condVars => CondInv'
<1> SUFFICES ASSUME CondInv, [CondNext]_condVars PROVE CondInv'
  OBVIOUS
<1>1. CASE UNCHANGED condVars
  BY <1>1 DEF condVars, CondInv, CondTypeOK, Depth, LiveOK, ChosenOK, LevelNoop, LevelChosen
<1>2. CASE CondNext
  <2>0. status = "run"
    BY <1>2 DEF CondNext
  <2>1. ASSUME NEW c \in BOOLEAN, NEW w \in BOOLEAN, handle_somedef(c, w) PROVE CondInv'
    BY <2>0, <2>1, SomedefInv
  <2>2. ASSUME NEW c \in {"true", "false", "bad"}, handle_if(c) PROVE CondInv'
    BY <2>0, <2>2, IfInv
  <2>3. ASSUME NEW c \in {"true", "false", "bad"}, handle_elif(c) PROVE CondInv'
    BY <2>0, <2>3, ElifInv
  <2>4. CASE handle_else
    BY <2>0, <2>4, ElseInv
  <2>5. CASE handle_endif
    BY <2>0, <2>5, EndifInv
  <2>6. ASSUME NEW open \in BOOLEAN, EndValidate(open) PROVE CondInv'
    <3>1. CondTypeOK' /\ status' # "run"
      BY <2>6 DEF EndValidate, CondInv, CondTypeOK
    <3> QED BY <3>1 DEF CondInv
  <2>7. CASE Die
    BY <2>7, DieKeeps DEF Die
  <2> QED BY <1>2, <2>1, <2>2, <2>3, <2>4, <2>5, <2>6, <2>7 DEF CondNext
<1> QED BY <1>1, <1>2

THEOREM CondInvariant == CondSpec => []CondInv
<1> QED BY InitInv, NextInv, PTL DEF CondSpec

(* For every stack depth and every sequence of conditional directives, the     *)
(* lines directive.c skips are the ones the standard says are skipped.         *)
THEOREM SkipsCorrectly == CondSpec => []SkipsAsStandard
<1> QED BY CondInvariant, InvSkips, PTL

(* For every stack depth, an #else is remembered until its group is closed,    *)
(* whatever groups are opened and closed inside.                               *)
THEOREM ElseKept == CondSpec => []ElseRemembered
<1> QED BY CondInvariant, InvElse, PTL

=============================================================================

------------------------- MODULE StructLayoutProofs -------------------------
(***************************************************************************)
(* The layout of records is right for every set of member types and every  *)
(* number of members: proofs of TypeOK, MembersApart, FieldsApart and      *)
(* ElementsFit; the members of an object keep what is stored to them,      *)
(* HoldsWhatWasStored; and the data of an initialised one is that object,  *)
(* ImageMatchesLayout.                                                     *)
(*                                                                         *)
(* MembersApart alone is not inductive.  It needs to know that nothing     *)
(* placed so far reaches past the running offset (Behind), and, while a    *)
(* group of bit-fields is open, which bits of it are taken and that the    *)
(* older members end before it (OpenGroup): a field that joins the group   *)
(* is placed by these and not by the offset.                               *)
(***************************************************************************)
EXTENDS StructObject, TLAPS

Occupies(r) == Width(r) > 0 /\ ~Overruns(r)

\* Nothing that keeps to its unit reaches past the offset.
Behind ==
  prim = "struct" => \A i \in 1..Len(placed) : Occupies(placed[i]) => End(placed[i]) <= 8 * offset

\* The fields of the open group lie in it, below the next free bit, and what
\* was placed before the group ends before it.
OpenGroup ==
  bitfield.cur # 0 =>
    /\ bitfield.group # 0
    /\ bitfield.first + bitfield.unit <= offset
    /\ \A i \in 1..Len(placed) :
         placed[i].group = bitfield.group =>
           /\ placed[i].kind = "bits" /\ placed[i].off = bitfield.first
           /\ placed[i].bitoff + placed[i].bits <= bitfield.cur
    /\ prim = "struct" =>
         \A i \in 1..Len(placed) :
           placed[i].group # bitfield.group /\ Occupies(placed[i])
             => End(placed[i]) <= 8 * bitfield.first

\* Groups are numbered by their first field.
GroupsOld == \A i \in 1..Len(placed) : placed[i].group <= Len(placed)
GroupOld == bitfield.group <= Len(placed)

LayoutInv ==
  TypeOK /\ MembersApart /\ FieldsApart /\ Behind /\ OpenGroup /\ GroupsOld /\ GroupOld

-----------------------------------------------------------------------------
(* The operators.                                                          *)

\* pack_to_align() rounds up: the result is a number not below the argument.
LEMMA PackUp ==
  ASSUME NEW sz \in Nat, NEW al \in Powers
  PROVE  pack_to_align(sz, al) \in Nat /\ pack_to_align(sz, al) >= sz
<1>1. CASE al = 1 BY <1>1 DEF pack_to_align
<1>2. CASE al = 2 BY <1>2 DEF pack_to_align
<1>3. CASE al = 4 BY <1>3 DEF pack_to_align
<1>4. CASE al = 8 BY <1>4 DEF pack_to_align
<1>5. CASE al = 16 BY <1>5 DEF pack_to_align
<1> QED BY <1>1, <1>2, <1>3, <1>4, <1>5 DEF Powers

\* Padding out a group never moves the offset back.
LEMMA FinishUp ==
  ASSUME NEW off \in Nat, NEW bf \in GroupType
  PROVE  /\ struct_pack_finish_bitfield(off, bf) \in Nat
         /\ struct_pack_finish_bitfield(off, bf) >= off
<1>1. CASE bf.master = 0 BY <1>1 DEF struct_pack_finish_bitfield
<1>2. CASE bf.master # 0
  <2>1. bf.master \in Powers BY <1>2 DEF GroupType, Powers
  <2> QED BY <1>2, <2>1, PackUp DEF struct_pack_finish_bitfield
<1> QED BY <1>1, <1>2

\* A bit-field's unit is one of the machine's word sizes.
LEMMA UnitSize == ASSUME NEW b \in Nat PROVE decl_type_for_bitfield(b) \in {1, 2, 4, 8}
BY DEF decl_type_for_bitfield, type_nav_MAX_FOR

\* The larger of two alignments is an alignment.
LEMMA LargerPower ==
  ASSUME NEW a \in Powers, NEW b \in Powers \cup {0}
  PROVE  Larger(a, b) \in Powers
BY DEF Larger, Powers

\* The bits of a placed member are numbers.
LEMMA SpanType ==
  ASSUME NEW r \in PlacedType
  PROVE  Width(r) \in Nat /\ Begin(r) \in Nat /\ End(r) \in Nat
<1>1. r.size \in Nat /\ r.bits \in Nat /\ r.off \in Nat /\ r.bitoff \in Nat
  BY DEF PlacedType
<1> QED BY <1>1 DEF Width, Begin, End

\* Bits that fit a unit that ends before o end before o.
LEMMA UnitEnds ==
  ASSUME NEW f \in Nat, NEW u \in Nat, NEW c \in Nat, NEW b \in Nat, NEW o \in Nat, o >= f + u
  PROVE  c + b <= 8 * u => 8 * f + c + b <= 8 * o
OBVIOUS

\* What Append does, in the form the proofs use.
LEMMA AppendFacts ==
  ASSUME NEW S, NEW s \in Seq(S), NEW e \in S
  PROVE  /\ Append(s, e) \in Seq(S) /\ Len(s) \in Nat
         /\ Len(Append(s, e)) = Len(s) + 1
         /\ \A i \in 1..Len(s) : Append(s, e)[i] = s[i] /\ s[i] \in S
         /\ Append(s, e)[Len(s) + 1] = e
OBVIOUS

-----------------------------------------------------------------------------
(* One more member: what a step has to establish about the member it adds. *)

LEMMA AddKeeps ==
  ASSUME LayoutInv, TypeOK', NEW r \in PlacedType, placed' = Append(placed, r), prim' = prim,
         offset' >= offset, r.group <= Len(placed) + 1, GroupOld', OpenGroup',
         prim = "struct" => (Occupies(r) => End(r) <= 8 * offset'),
         prim = "struct" => \A i \in 1..Len(placed) :
                              Occupies(placed[i]) => End(placed[i]) <= Begin(r),
         r.group # 0 => \A i \in 1..Len(placed) :
                          placed[i].group = r.group => placed[i].bitoff + placed[i].bits <= r.bitoff
  PROVE  LayoutInv'
<1>1. /\ placed \in Seq(PlacedType) /\ offset \in Nat /\ offset' \in Nat
  BY DEF LayoutInv, TypeOK
<1>2. PICK n \in Nat : n = Len(placed)
  BY <1>1
<1>3. /\ Len(placed') = n + 1
      /\ \A i \in 1..n : placed'[i] = placed[i] /\ placed[i] \in PlacedType
      /\ placed'[n + 1] = r
  BY <1>1, <1>2, AppendFacts
<1>4. \A i \in 1..n+1 : i \in 1..n \/ i = n + 1
  BY <1>2
<1>5. MembersApart'
  <2> SUFFICES ASSUME prim = "struct", NEW i \in 1..n+1, NEW j \in 1..n+1, i < j,
                      Occupies(placed'[i])
               PROVE  End(placed'[i]) <= Begin(placed'[j])
    BY <1>3 DEF MembersApart, Occupies, End, Begin, Width, Overruns
  <2>1. i \in 1..n
    BY <1>2
  <2>2. CASE j \in 1..n
    BY <1>2, <1>3, <2>1, <2>2 DEF LayoutInv, MembersApart, Occupies
  <2>3. CASE j = n + 1
    BY <1>2, <1>3, <2>1, <2>3
  <2> QED BY <1>4, <2>2, <2>3
<1>6. FieldsApart'
  <2> SUFFICES ASSUME NEW i \in 1..n+1, NEW j \in 1..n+1, i < j,
                      placed'[i].group = placed'[j].group, placed'[i].group # 0
               PROVE  placed'[i].bitoff + placed'[i].bits <= placed'[j].bitoff
    BY <1>3 DEF FieldsApart
  <2>1. i \in 1..n
    BY <1>2
  <2>2. CASE j \in 1..n
    BY <1>2, <1>3, <2>1, <2>2 DEF LayoutInv, FieldsApart
  <2>3. CASE j = n + 1
    BY <1>2, <1>3, <2>1, <2>3
  <2> QED BY <1>4, <2>2, <2>3
<1>7. Behind'
  <2> SUFFICES ASSUME prim = "struct", NEW i \in 1..n+1, Occupies(placed'[i])
               PROVE  End(placed'[i]) <= 8 * offset'
    BY <1>3 DEF Behind, Occupies, End, Begin, Width, Overruns
  <2>1. CASE i \in 1..n
    <3>1. End(placed[i]) <= 8 * offset
      BY <1>2, <1>3, <2>1 DEF LayoutInv, Behind
    <3>2. End(placed[i]) \in Nat
      BY <1>3, <2>1, SpanType
    <3> QED BY <1>1, <1>3, <2>1, <3>1, <3>2
  <2>2. CASE i = n + 1
    BY <1>3, <2>2
  <2> QED BY <1>4, <2>1, <2>2
<1>8. GroupsOld'
  <2> SUFFICES ASSUME NEW i \in 1..n+1 PROVE placed'[i].group <= n + 1
    BY <1>3 DEF GroupsOld
  <2>1. CASE i \in 1..n
    <3>1. placed[i].group <= n /\ placed[i].group \in Nat
      BY <1>2, <1>3, <2>1 DEF LayoutInv, GroupsOld, PlacedType
    <3> QED BY <1>3, <2>1, <3>1
  <2>2. CASE i = n + 1
    BY <1>2, <1>3, <2>2
  <2> QED BY <1>4, <2>1, <2>2
<1> QED BY <1>5, <1>6, <1>7, <1>8 DEF LayoutInv

-----------------------------------------------------------------------------
(* The type invariant, action by action.                                   *)

\* The fields of a declared member have their types.
LEMMA MemberType ==
  ASSUME NEW m \in Members
  PROVE  /\ m.kind \in Kinds /\ m.size \in Nat /\ m.bits \in Nat
         /\ m.kind = "flex" => m.size = 0
         /\ m.align \in Powers /\ m.signed \in BOOLEAN /\ m.packed \in BOOLEAN
         /\ m.kind = "bits" => m.size \in {1, 2, 4, 8}
BY LayoutAssumption

\* Placed() makes a placed member of a declared one and a group.
LEMMA PlacedOK ==
  ASSUME NEW m \in Members, NEW off \in Nat, NEW bitoff \in Nat, NEW bf \in GroupType
  PROVE  Placed(m, [off |-> off, bitoff |-> bitoff, bf |-> bf]) \in PlacedType
<1>1. /\ m.kind \in Kinds /\ m.size \in Nat /\ m.bits \in Nat
      /\ m.align \in Powers /\ m.signed \in BOOLEAN
  BY MemberType
<1>2. (IF packed \/ m.packed THEN 1 ELSE m.align) \in Powers
  BY <1>1 DEF Powers
<1>3. /\ bf.master \in {0, 1, 2, 4, 8} /\ bf.signed \in BOOLEAN /\ bf.unit \in {0, 1, 2, 4, 8}
      /\ bf.group \in Nat
  BY DEF GroupType
<1> QED BY <1>1, <1>2, <1>3 DEF Placed, PlacedType

\* The end of the loop body keeps alignments powers of two.
LEMMA GrowType ==
  ASSUME TypeOK, NEW m \in Members, NEW sz \in Nat, NEW al \in Powers \cup {0}, Grow(m, sz, al)
  PROVE  align_max' \in Powers /\ sz_max' \in Nat
<1>1. (IF packed \/ m.packed THEN 1 ELSE al) \in Powers \cup {0}
  BY DEF Powers
<1>2. align_max' \in Powers
  BY <1>1, LargerPower DEF Grow, TypeOK
<1>3. sz_max' \in Nat
  BY DEF Grow, Larger, TypeOK
<1> QED BY <1>2, <1>3

\* Taking bits from a group keeps it one, and the offset does not go back.
LEMMA TakeType ==
  ASSUME NEW bits \in Nat, NEW bf \in GroupType, NEW off \in Nat, TakeBits(bits, bf, off)
  PROVE  /\ bitfield' \in GroupType /\ offset' \in Nat /\ offset' >= off
         /\ bitfield'.first = bf.first /\ bitfield'.unit = bf.unit /\ bitfield'.group = bf.group
         /\ bitfield'.cur # 0 => bitfield'.cur = bf.cur + bits
<1>1. bf.cur \in Nat /\ bf.limit \in Nat
  BY DEF GroupType
<1>2. offset' \in Nat /\ offset' >= off
  <2>1. offset' = struct_pack_finish_bitfield(off, bf) \/ offset' = off
    BY DEF TakeBits
  <2>2. /\ struct_pack_finish_bitfield(off, bf) \in Nat
        /\ struct_pack_finish_bitfield(off, bf) >= off
    BY FinishUp
  <2> QED BY <2>1, <2>2
<1> DEFINE c == IF bf.cur + bits = bf.limit THEN 0 ELSE bf.cur + bits
<1>3. /\ bitfield' = [bf EXCEPT !.cur = c] /\ c \in Nat
      /\ c # 0 => c = bf.cur + bits
  BY <1>1 DEF TakeBits
<1> HIDE DEF c
<1>4. /\ bitfield' \in GroupType
      /\ bitfield'.first = bf.first /\ bitfield'.unit = bf.unit /\ bitfield'.group = bf.group
      /\ bitfield'.cur = c
  BY <1>3 DEF GroupType
<1> QED BY <1>2, <1>3, <1>4

-----------------------------------------------------------------------------
(* Each kind of member keeps the invariant.                                *)

\* A field that takes no bits.
LEMMA ZeroWidthKeeps ==
  ASSUME LayoutInv, NEW m \in Members, ZeroWidth(m)
  PROVE  LayoutInv'
<1> DEFINE r == Placed(m, [off |-> offset, bitoff |-> bitfield.cur, bf |-> NoBitfield])
<1>1. /\ TypeOK /\ offset \in Nat /\ bitfield \in GroupType /\ bitfield.cur \in Nat
      /\ NoBitfield \in GroupType /\ placed \in Seq(PlacedType)
  BY DEF LayoutInv, TypeOK, GroupType, NoBitfield
<1>2. /\ r \in PlacedType /\ r.group = 0 /\ r.off = offset /\ r.bitoff = bitfield.cur
      /\ r.kind = "bits" /\ r.bits = 0
  BY <1>1, PlacedOK DEF Placed, NoBitfield, ZeroWidth
<1>3. placed' = Append(placed, r) /\ prim' = prim
  BY DEF ZeroWidth, Put
<1>4. /\ bitfield' \in GroupType /\ offset' \in Nat /\ offset' >= offset
      /\ bitfield'.first = bitfield.first /\ bitfield'.unit = bitfield.unit
      /\ bitfield'.group = bitfield.group
      /\ bitfield'.cur # 0 => bitfield'.cur = bitfield.cur
  BY <1>1, TakeType DEF ZeroWidth
<1>5. PICK n \in Nat : /\ n = Len(placed) /\ Len(placed') = n + 1
                       /\ \A i \in 1..n : placed'[i] = placed[i] /\ placed[i] \in PlacedType
                       /\ placed'[n + 1] = r /\ placed' \in Seq(PlacedType)
  BY <1>1, <1>2, <1>3, AppendFacts
<1>6. TypeOK'
  <2>1. align_max' \in Powers /\ sz_max' \in Nat
    BY <1>1, GrowType DEF ZeroWidth
  <2> QED BY <1>1, <1>4, <1>5, <2>1 DEF TypeOK, ZeroWidth
<1>7. GroupOld'
  BY <1>1, <1>4, <1>5 DEF LayoutInv, GroupOld, GroupType
<1>8. OpenGroup'
  <2> SUFFICES ASSUME bitfield'.cur # 0 PROVE OpenGroup'
    BY DEF OpenGroup
  <2>1. bitfield.cur # 0 /\ bitfield'.cur = bitfield.cur
    BY <1>4
  <2>2. bitfield.group # 0 /\ bitfield.first + bitfield.unit <= offset
    BY <2>1 DEF LayoutInv, OpenGroup
  <2>3. bitfield'.first + bitfield'.unit <= offset'
    BY <1>1, <1>4, <2>2, SMTT(30) DEF GroupType
  <2>4. ASSUME NEW i \in 1..n+1, placed'[i].group = bitfield'.group
        PROVE  /\ placed'[i].kind = "bits" /\ placed'[i].off = bitfield'.first
               /\ placed'[i].bitoff + placed'[i].bits <= bitfield'.cur
    <3>1. i \in 1..n
      BY <1>2, <1>4, <1>5, <2>2, <2>4
    <3> QED BY <1>4, <1>5, <2>1, <2>4, <3>1 DEF LayoutInv, OpenGroup
  <2>5. ASSUME prim = "struct", NEW i \in 1..n+1, placed'[i].group # bitfield'.group,
               Occupies(placed'[i])
        PROVE  End(placed'[i]) <= 8 * bitfield'.first
    <3>1. i \in 1..n
      BY <1>2, <1>5, <2>5 DEF Occupies, Width
    <3> QED BY <1>4, <1>5, <2>1, <2>5, <3>1 DEF LayoutInv, OpenGroup
  <2> QED BY <1>3, <1>4, <1>5, <2>2, <2>3, <2>4, <2>5 DEF OpenGroup, Occupies, End, Begin, Width, Overruns
<1>9. prim = "struct" => \A i \in 1..Len(placed) :
                           Occupies(placed[i]) => End(placed[i]) <= Begin(r)
  <2> SUFFICES ASSUME prim = "struct", NEW i \in 1..n, Occupies(placed[i])
               PROVE  End(placed[i]) <= Begin(r)
    BY <1>5
  <2>1. End(placed[i]) <= 8 * offset /\ End(placed[i]) \in Nat
    BY <1>5, SpanType DEF LayoutInv, Behind
  <2> QED BY <1>1, <1>2, <2>1 DEF Begin
<1>10. ~Occupies(r)
  BY <1>2 DEF Occupies, Width
<1> QED BY <1>2, <1>3, <1>4, <1>5, <1>6, <1>7, <1>8, <1>9, <1>10, AddKeeps

\* The first field of a group: the group is fresh and starts past the offset.
LEMMA StartGroupKeeps ==
  ASSUME LayoutInv, NEW m \in Members, StartGroup(m, GroupFrom)
  PROVE  LayoutInv'
<1> DEFINE unit == decl_type_for_bitfield(m.bits)
           first == pack_to_align(GroupFrom, unit)
           bf == NewGroup(m, first)
           r == Placed(m, [off |-> first, bitoff |-> 0, bf |-> bf])
<1>1. /\ TypeOK /\ offset \in Nat /\ bitfield \in GroupType /\ placed \in Seq(PlacedType)
      /\ m.bits \in Nat /\ m.kind = "bits" /\ m.bits > 0 /\ m.size \in {1, 2, 4, 8}
      /\ m.signed \in BOOLEAN /\ m.align \in Powers
  BY MemberType DEF LayoutInv, TypeOK, StartGroup
<1>2. unit \in {1, 2, 4, 8} /\ unit \in Powers
  BY <1>1, UnitSize DEF Powers
<1>3. GroupFrom \in Nat /\ GroupFrom >= offset
  <2>1. GroupFrom = struct_pack_finish_bitfield(offset, bitfield) \/ GroupFrom = offset
    BY DEF GroupFrom
  <2>2. /\ struct_pack_finish_bitfield(offset, bitfield) \in Nat
        /\ struct_pack_finish_bitfield(offset, bitfield) >= offset
    BY <1>1, FinishUp
  <2> QED BY <1>1, <2>1, <2>2
<1>4. first \in Nat /\ first >= offset
  <2>1. first \in Nat /\ first >= GroupFrom
    BY <1>2, <1>3, PackUp
  <2> QED BY <1>1, <1>3, <2>1
<1>5. PICK n \in Nat : n = Len(placed)
  BY <1>1
<1>6. /\ bf \in GroupType /\ bf.cur = 0 /\ bf.first = first /\ bf.unit = unit
      /\ bf.group = n + 1
  BY <1>1, <1>2, <1>4, <1>5 DEF NewGroup, GroupType
<1>7. /\ placed' = Append(placed, r) /\ prim' = prim /\ TakeBits(m.bits, bf, first + unit)
      /\ Grow(m, unit, m.align)
  BY DEF StartGroup, Put
<1> HIDE DEF unit, first, bf
<1>8. /\ r \in PlacedType /\ r.group = n + 1 /\ r.off = first /\ r.bitoff = 0
      /\ r.kind = "bits" /\ r.bits = m.bits /\ r.unit = unit
  BY <1>1, <1>4, <1>6, PlacedOK DEF Placed
<1>9. first + unit \in Nat
  BY <1>2, <1>4
<1>10. /\ bitfield' \in GroupType /\ offset' \in Nat /\ offset' >= first + unit
       /\ bitfield'.first = first /\ bitfield'.unit = unit /\ bitfield'.group = n + 1
       /\ bitfield'.cur # 0 => bitfield'.cur = m.bits
  BY <1>1, <1>6, <1>7, <1>9, TakeType
<1>11. /\ Len(placed') = n + 1
       /\ \A i \in 1..n : placed'[i] = placed[i] /\ placed[i] \in PlacedType
       /\ placed'[n + 1] = r /\ placed' \in Seq(PlacedType)
  BY <1>1, <1>5, <1>7, <1>8, AppendFacts
<1>12. TypeOK'
  <2>1. align_max' \in Powers /\ sz_max' \in Nat
    BY <1>1, <1>2, <1>7, GrowType
  <2> QED BY <1>1, <1>10, <1>11, <2>1 DEF TypeOK, StartGroup
<1>13. GroupOld'
  BY <1>10, <1>11 DEF GroupOld
<1>14. \A i \in 1..n : placed[i].group # n + 1
  BY <1>5, <1>11 DEF LayoutInv, GroupsOld, PlacedType
<1>15. prim = "struct" => \A i \in 1..n : Occupies(placed[i]) => End(placed[i]) <= 8 * first
  <2> SUFFICES ASSUME prim = "struct", NEW i \in 1..n, Occupies(placed[i])
               PROVE  End(placed[i]) <= 8 * first
    OBVIOUS
  <2>1. End(placed[i]) <= 8 * offset /\ End(placed[i]) \in Nat
    BY <1>5, <1>11, SpanType DEF LayoutInv, Behind
  <2> QED BY <1>1, <1>4, <2>1
<1>16. OpenGroup'
  <2> SUFFICES ASSUME bitfield'.cur # 0 PROVE OpenGroup'
    BY DEF OpenGroup
  <2>1. bitfield'.first + bitfield'.unit <= offset' /\ bitfield'.group # 0
    BY <1>2, <1>4, <1>5, <1>10
  <2>2. ASSUME NEW i \in 1..n+1, placed'[i].group = bitfield'.group
        PROVE  /\ placed'[i].kind = "bits" /\ placed'[i].off = bitfield'.first
               /\ placed'[i].bitoff + placed'[i].bits <= bitfield'.cur
    <3>1. i = n + 1
      BY <1>10, <1>11, <1>14, <2>2
    <3> QED BY <1>1, <1>8, <1>10, <1>11, <3>1
  <2>3. ASSUME prim = "struct", NEW i \in 1..n+1, placed'[i].group # bitfield'.group,
               Occupies(placed'[i])
        PROVE  End(placed'[i]) <= 8 * bitfield'.first
    <3>1. i \in 1..n
      BY <1>8, <1>10, <1>11, <2>3
    <3> QED BY <1>10, <1>11, <1>15, <2>3, <3>1
  <2> QED BY <1>7, <1>11, <2>1, <2>2, <2>3 DEF OpenGroup, Occupies, End, Begin, Width, Overruns
<1>17. Occupies(r) => End(r) <= 8 * offset'
  <2>1. Occupies(r) => m.bits <= 8 * unit
    BY <1>1, <1>2, <1>8 DEF Occupies, Overruns
  <2>2. End(r) = 8 * first + m.bits
    BY <1>1, <1>4, <1>8 DEF End, Begin, Width
  <2> QED BY <1>1, <1>2, <1>4, <1>10, <2>1, <2>2
<1>18. Begin(r) = 8 * first
  BY <1>4, <1>8 DEF Begin
<1>19. offset' >= offset /\ r.group <= Len(placed) + 1
  BY <1>1, <1>2, <1>4, <1>5, <1>8, <1>10
<1>20. prim = "struct" => \A i \in 1..Len(placed) :
                            Occupies(placed[i]) => End(placed[i]) <= Begin(r)
  BY <1>5, <1>15, <1>18
<1>21. \A i \in 1..Len(placed) : placed[i].group # r.group
  BY <1>5, <1>8, <1>14
<1> HIDE DEF r
<1> QED BY <1>7, <1>8, <1>12, <1>13, <1>16, <1>17, <1>19, <1>20, <1>21, AddKeeps

\* A field that joins the open group takes its next free bits.
LEMMA JoinGroupKeeps ==
  ASSUME LayoutInv, NEW m \in Members, JoinGroup(m)
  PROVE  LayoutInv'
<1> DEFINE r == Placed(m, [off |-> bitfield.first, bitoff |-> bitfield.cur, bf |-> bitfield])
<1>1. /\ TypeOK /\ offset \in Nat /\ bitfield \in GroupType /\ placed \in Seq(PlacedType)
      /\ bitfield.cur \in Nat /\ bitfield.first \in Nat /\ bitfield.group \in Nat
      /\ bitfield.unit \in Nat /\ m.bits \in Nat
  BY MemberType DEF LayoutInv, TypeOK, GroupType
<1>2. /\ m.kind = "bits" /\ m.bits > 0 /\ bitfield.cur # 0
      /\ placed' = Append(placed, r) /\ prim' = prim
      /\ TakeBits(m.bits, bitfield, offset) /\ Grow(m, 0, 0)
  BY DEF JoinGroup, NeedsGroup, Put
<1>3. /\ r \in PlacedType /\ r.group = bitfield.group /\ r.off = bitfield.first
      /\ r.bitoff = bitfield.cur /\ r.kind = "bits" /\ r.bits = m.bits /\ r.unit = bitfield.unit
  BY <1>1, <1>2, PlacedOK DEF Placed
<1>4. /\ bitfield' \in GroupType /\ offset' \in Nat /\ offset' >= offset
      /\ bitfield'.first = bitfield.first /\ bitfield'.unit = bitfield.unit
      /\ bitfield'.group = bitfield.group
      /\ bitfield'.cur # 0 => bitfield'.cur = bitfield.cur + m.bits
  BY <1>1, <1>2, TakeType
<1>5. PICK n \in Nat : /\ n = Len(placed) /\ Len(placed') = n + 1
                       /\ \A i \in 1..n : placed'[i] = placed[i] /\ placed[i] \in PlacedType
                       /\ placed'[n + 1] = r /\ placed' \in Seq(PlacedType)
  BY <1>1, <1>2, <1>3, AppendFacts
<1> HIDE DEF r
<1>6. TypeOK'
  <2>1. align_max' \in Powers /\ sz_max' \in Nat
    BY <1>1, <1>2, GrowType
  <2> QED BY <1>1, <1>4, <1>5, <2>1 DEF TypeOK, JoinGroup
<1>7. GroupOld' /\ r.group <= Len(placed) + 1
  BY <1>1, <1>3, <1>4, <1>5 DEF LayoutInv, GroupOld
<1>8. /\ bitfield.group # 0 /\ bitfield.first + bitfield.unit <= offset
      /\ \A i \in 1..n : placed[i].group = bitfield.group =>
           /\ placed[i].kind = "bits" /\ placed[i].off = bitfield.first
           /\ placed[i].bitoff + placed[i].bits <= bitfield.cur
      /\ prim = "struct" => \A i \in 1..n :
           placed[i].group # bitfield.group /\ Occupies(placed[i])
             => End(placed[i]) <= 8 * bitfield.first
  BY <1>2, <1>5 DEF LayoutInv, OpenGroup
<1>9. Begin(r) = 8 * bitfield.first + bitfield.cur
  BY <1>3 DEF Begin
<1>10. OpenGroup'
  <2> SUFFICES ASSUME bitfield'.cur # 0 PROVE OpenGroup'
    BY DEF OpenGroup
  <2>1. bitfield'.cur = bitfield.cur + m.bits
    BY <1>4
  <2>2. bitfield'.first + bitfield'.unit <= offset'
    BY <1>1, <1>4, <1>8
  <2>3. ASSUME NEW i \in 1..n+1, placed'[i].group = bitfield'.group
        PROVE  /\ placed'[i].kind = "bits" /\ placed'[i].off = bitfield'.first
               /\ placed'[i].bitoff + placed'[i].bits <= bitfield'.cur
    <3>1. CASE i \in 1..n
      <4>1. /\ placed[i].kind = "bits" /\ placed[i].off = bitfield.first
            /\ placed[i].bitoff + placed[i].bits <= bitfield.cur
            /\ placed[i].bitoff \in Nat /\ placed[i].bits \in Nat
        BY <1>4, <1>5, <1>8, <2>3, <3>1 DEF PlacedType
      <4>2. placed[i].bitoff + placed[i].bits <= bitfield.cur + m.bits
        BY <1>1, <4>1, SMTT(30)
      <4> QED BY <1>4, <1>5, <2>1, <3>1, <4>1, <4>2
    <3>2. CASE i = n + 1
      BY <1>1, <1>3, <1>4, <1>5, <2>1, <3>2
    <3> QED BY <3>1, <3>2
  <2>4. ASSUME prim = "struct", NEW i \in 1..n+1, placed'[i].group # bitfield'.group,
               Occupies(placed'[i])
        PROVE  End(placed'[i]) <= 8 * bitfield'.first
    <3>1. i \in 1..n
      BY <1>3, <1>4, <1>5, <2>4
    <3> QED BY <1>4, <1>5, <1>8, <2>4, <3>1
  <2> QED BY <1>2, <1>4, <1>5, <1>8, <2>2, <2>3, <2>4 DEF OpenGroup, Occupies, End, Begin, Width, Overruns
<1>11. Occupies(r) => End(r) <= 8 * offset'
  <2>1. Occupies(r) => bitfield.cur + m.bits <= 8 * bitfield.unit
    BY <1>1, <1>3 DEF Occupies, Overruns
  <2>2. End(r) = 8 * bitfield.first + bitfield.cur + m.bits
    BY <1>1, <1>3, <1>9 DEF End, Width
  <2>3. offset' >= bitfield.first + bitfield.unit
    BY <1>1, <1>4, <1>8
  <2>4. bitfield.cur + m.bits <= 8 * bitfield.unit
          => 8 * bitfield.first + bitfield.cur + m.bits <= 8 * offset'
    BY <1>1, <1>4, <2>3, UnitEnds
  <2> QED BY <2>1, <2>2, <2>4
<1>12. prim = "struct" => \A i \in 1..Len(placed) :
                            Occupies(placed[i]) => End(placed[i]) <= Begin(r)
  <2> SUFFICES ASSUME prim = "struct", NEW i \in 1..n, Occupies(placed[i])
               PROVE  End(placed[i]) <= Begin(r)
    BY <1>5
  <2>1. End(placed[i]) \in Nat /\ placed[i].bitoff \in Nat /\ placed[i].bits \in Nat
    BY <1>5, SpanType DEF PlacedType
  <2>2. CASE placed[i].group # bitfield.group
    <3>1. End(placed[i]) <= 8 * bitfield.first
      BY <1>8, <2>2
    <3> QED BY <1>1, <1>9, <2>1, <3>1
  <2>3. CASE placed[i].group = bitfield.group
    <3>1. /\ placed[i].kind = "bits" /\ placed[i].off = bitfield.first
          /\ placed[i].bitoff + placed[i].bits <= bitfield.cur
      BY <1>8, <2>3
    <3>2. End(placed[i]) = 8 * bitfield.first + placed[i].bitoff + placed[i].bits
      BY <3>1 DEF End, Begin, Width
    <3> QED BY <1>1, <1>9, <2>1, <3>1, <3>2, SMTT(30)
  <2> QED BY <2>2, <2>3
<1>13. \A i \in 1..Len(placed) :
         placed[i].group = r.group => placed[i].bitoff + placed[i].bits <= r.bitoff
  BY <1>3, <1>5, <1>8
<1> QED BY <1>2, <1>3, <1>4, <1>6, <1>7, <1>10, <1>11, <1>12, <1>13, AddKeeps

\* A member that is no bit-field, of a struct or of a union.
LEMMA PlaceKeeps ==
  ASSUME LayoutInv, NEW m \in Members, m.kind # "bits", NEW sz \in Nat, sz = m.size,
         NEW al \in Powers, PlaceAt(m, sz, al),
         align_max' \in Powers, sz_max' \in Nat, status' \in {"folding", "last"},
         UNCHANGED <<prim, packed, attr, realign_next, size, align>>
  PROVE  LayoutInv'
<1> DEFINE start == IF prim = "struct" THEN pack_to_align(offset, al) ELSE 0
           r == Placed(m, [off |-> start, bitoff |-> 0, bf |-> NoBitfield])
<1>1. /\ TypeOK /\ offset \in Nat /\ bitfield \in GroupType /\ placed \in Seq(PlacedType)
      /\ NoBitfield \in GroupType /\ prim' = prim
  BY DEF LayoutInv, TypeOK, GroupType, NoBitfield
<1>2. start \in Nat /\ (prim = "struct" => start >= offset)
  BY <1>1, PackUp
<1>3. placed' = Append(placed, r)
  BY DEF PlaceAt, Put
<1>4. /\ prim = "struct" => offset' = start + sz /\ bitfield' = [bitfield EXCEPT !.cur = 0]
      /\ prim # "struct" => offset' = offset /\ bitfield' = bitfield
  BY DEF PlaceAt
<1> HIDE DEF start
<1>5. /\ r \in PlacedType /\ r.group = 0 /\ r.off = start /\ r.bitoff = 0
      /\ r.kind = m.kind /\ r.size = sz
  BY <1>1, <1>2, PlacedOK DEF Placed, NoBitfield
<1> HIDE DEF r
<1>6. /\ bitfield' \in GroupType /\ offset' \in Nat /\ offset' >= offset
      /\ bitfield'.group = bitfield.group
      /\ bitfield'.cur # 0 => bitfield' = bitfield /\ offset' = offset /\ prim # "struct"
  <2>1. CASE prim = "struct"
    <3>1. bitfield' \in GroupType /\ bitfield'.cur = 0 /\ bitfield'.group = bitfield.group
      BY <1>1, <1>4, <2>1, SMTT(30) DEF GroupType
    <3> QED BY <1>1, <1>2, <1>4, <2>1, <3>1
  <2>2. CASE prim # "struct"
    BY <1>1, <1>4, <2>2
  <2> QED BY <2>1, <2>2
<1>7. PICK n \in Nat : /\ n = Len(placed) /\ Len(placed') = n + 1
                       /\ \A i \in 1..n : placed'[i] = placed[i] /\ placed[i] \in PlacedType
                       /\ placed'[n + 1] = r /\ placed' \in Seq(PlacedType)
  BY <1>1, <1>3, <1>5, AppendFacts
<1>8. TypeOK'
  BY <1>1, <1>6, <1>7 DEF TypeOK
<1>9. GroupOld' /\ r.group <= Len(placed) + 1
  BY <1>1, <1>5, <1>6, <1>7, SMTT(30) DEF LayoutInv, GroupOld, GroupType
<1>10. OpenGroup'
  <2> SUFFICES ASSUME bitfield'.cur # 0 PROVE OpenGroup'
    BY DEF OpenGroup
  <2>1. /\ bitfield' = bitfield /\ offset' = offset /\ prim # "struct"
        /\ bitfield.cur # 0 /\ bitfield.group # 0 /\ bitfield.first + bitfield.unit <= offset
        /\ \A i \in 1..n : placed[i].group = bitfield.group =>
             /\ placed[i].kind = "bits" /\ placed[i].off = bitfield.first
             /\ placed[i].bitoff + placed[i].bits <= bitfield.cur
    BY <1>6, <1>7 DEF LayoutInv, OpenGroup
  <2>2. ASSUME NEW i \in 1..n+1, placed'[i].group = bitfield'.group
        PROVE  /\ placed'[i].kind = "bits" /\ placed'[i].off = bitfield'.first
               /\ placed'[i].bitoff + placed'[i].bits <= bitfield'.cur
    <3>1. i \in 1..n
      BY <1>5, <1>7, <2>1, <2>2
    <3> QED BY <1>7, <2>1, <2>2, <3>1
  <2> QED BY <1>1, <1>7, <2>1, <2>2 DEF OpenGroup
<1>11. prim = "struct" => End(r) <= 8 * offset'
  <2>1. End(r) = 8 * start + 8 * sz
    BY <1>2, <1>5 DEF End, Begin, Width
  <2> QED BY <1>2, <1>4, <2>1
<1>12. prim = "struct" => \A i \in 1..Len(placed) :
                            Occupies(placed[i]) => End(placed[i]) <= Begin(r)
  <2> SUFFICES ASSUME prim = "struct", NEW i \in 1..n, Occupies(placed[i])
               PROVE  End(placed[i]) <= Begin(r)
    BY <1>7
  <2>1. End(placed[i]) <= 8 * offset /\ End(placed[i]) \in Nat
    BY <1>7, SpanType DEF LayoutInv, Behind
  <2>2. Begin(r) = 8 * start
    BY <1>2, <1>5 DEF Begin
  <2> QED BY <1>1, <1>2, <2>1, <2>2
<1> QED BY <1>1, <1>3, <1>5, <1>6, <1>8, <1>9, <1>10, <1>11, <1>12, AddKeeps

\* The step that ends the fold and the ones that add nothing.
LEMMA OthersKeep ==
  ASSUME LayoutInv,
         \/ Finish
         \/ \E m \in Members : Refuse(m) \/ Ignore(m)
         \/ UNCHANGED layoutVars
  PROVE  LayoutInv'
<1>1. TypeOK
  BY DEF LayoutInv
<1>2. UNCHANGED <<prim, packed, attr, placed, offset, bitfield, realign_next, align_max, sz_max>>
  BY DEF Finish, Refuse, Ignore, layoutVars
<1>3. status' \in {"folding", "last", "folded", "error"} /\ size' \in Nat /\ align' \in Powers
  <2>1. CASE Finish
    <3>1. align' \in Powers
      BY <1>1, <2>1, LargerPower, LayoutAssumption DEF Finish, TypeOK
    <3>2. (IF prim = "struct" THEN offset ELSE sz_max) \in Nat /\ align_max \in Powers
      BY <1>1 DEF TypeOK
    <3>3. pack_to_align(IF prim = "struct" THEN offset ELSE sz_max, align_max) \in Nat
      BY <3>2, PackUp
    <3>4. size' \in Nat
      BY <2>1, <3>1, <3>3, PackUp DEF Finish
    <3> QED BY <2>1, <3>1, <3>4 DEF Finish
  <2>2. CASE ~Finish
    BY <1>1, <2>2 DEF TypeOK, Refuse, Ignore, layoutVars
  <2> QED BY <2>1, <2>2
<1>4. TypeOK'
  BY <1>1, <1>2, <1>3 DEF TypeOK
<1> QED BY <1>2, <1>4 DEF LayoutInv, MembersApart, FieldsApart, Behind, OpenGroup, GroupsOld,
                          GroupOld, Occupies, End, Begin, Width, Overruns

-----------------------------------------------------------------------------
(* The theorems.                                                           *)

\* A new record has no members.
LEMMA InitHolds == Init => LayoutInv
<1> SUFFICES ASSUME Init PROVE LayoutInv
  OBVIOUS
<1>1. placed = <<>> /\ placed \in Seq(PlacedType) /\ Len(placed) = 0
  BY DEF Init
<1>2. bitfield \in GroupType /\ bitfield.cur = 0 /\ bitfield.group = 0
  BY DEF Init, NoBitfield, GroupType
<1>3. TypeOK
  BY <1>1, <1>2 DEF Init, TypeOK, Powers
<1> QED BY <1>1, <1>2, <1>3 DEF LayoutInv, MembersApart, FieldsApart, Behind, OpenGroup,
                                GroupsOld, GroupOld

\* fold_sue()'s loop keeps the invariant, whatever the members are.
THEOREM LayoutInductive == Spec => []LayoutInv
<1>1. LayoutInv /\ [Next]_layoutVars => LayoutInv'
  <2> SUFFICES ASSUME LayoutInv, [Next]_layoutVars PROVE LayoutInv'
    OBVIOUS
  <2>1. ASSUME NEW m \in Members, ZeroWidth(m) PROVE LayoutInv'
    BY <2>1, ZeroWidthKeeps
  <2>2. ASSUME NEW m \in Members, StartGroup(m, GroupFrom) PROVE LayoutInv'
    BY <2>2, StartGroupKeeps
  <2>3. ASSUME NEW m \in Members, JoinGroup(m) PROVE LayoutInv'
    BY <2>3, JoinGroupKeeps
  <2>4. ASSUME NEW m \in Members, Normal(m) PROVE LayoutInv'
    <3>1. /\ m.size \in Nat /\ m.align \in Powers /\ TypeOK /\ m.kind # "bits"
          /\ (IF packed \/ m.packed THEN 1 ELSE m.align) \in Powers
      BY <2>4, MemberType DEF Powers, LayoutInv, Normal
    <3>2. /\ align_max' \in Powers /\ sz_max' \in Nat
      BY <2>4, <3>1, GrowType DEF Normal
    <3>3. /\ PlaceAt(m, m.size, IF packed \/ m.packed THEN 1 ELSE m.align)
          /\ status' \in {"folding", "last"}
          /\ UNCHANGED <<prim, packed, attr, realign_next, size, align>>
      BY <2>4 DEF Normal, More
    <3> QED BY <3>1, <3>2, <3>3, PlaceKeeps
  <2>5. ASSUME NEW m \in Members, Flexible(m) PROVE LayoutInv'
    <3>1. /\ m.size = 0 /\ m.align \in Powers /\ TypeOK /\ m.kind # "bits"
          /\ (IF packed \/ m.packed THEN 1 ELSE m.align) \in Powers
      BY <2>5, MemberType DEF Powers, LayoutInv, Flexible
    <3>2. /\ align_max' \in Powers /\ sz_max' \in Nat
      BY <2>5, <3>1, GrowType DEF Flexible
    <3>3. /\ PlaceAt(m, 0, IF packed \/ m.packed THEN 1 ELSE m.align)
          /\ status' \in {"folding", "last"}
          /\ UNCHANGED <<prim, packed, attr, realign_next, size, align>>
      BY <2>5 DEF Flexible
    <3> QED BY <3>1, <3>2, <3>3, PlaceKeeps
  <2>6. ASSUME Finish \/ (\E m \in Members : Refuse(m) \/ Ignore(m)) \/ UNCHANGED layoutVars
        PROVE  LayoutInv'
    BY <2>6, OthersKeep
  <2> QED BY <2>1, <2>2, <2>3, <2>4, <2>5, <2>6 DEF Next, AddMember
<1> QED BY <1>1, InitHolds, PTL DEF Spec

\* For every set of member types the fold's variables keep their types, and
\* every alignment it computes stays a power of two.
THEOREM LayoutTypes == Spec => []TypeOK
<1>1. LayoutInv => TypeOK
  BY DEF LayoutInv
<1> QED BY <1>1, LayoutInductive, PTL

\* For every set of member types and any number of members, those of a struct
\* lie one after the other, except over a group that outgrew its unit.
THEOREM LayoutDisjoint == Spec => []MembersApart
<1>1. LayoutInv => MembersApart
  BY DEF LayoutInv
<1> QED BY <1>1, LayoutInductive, PTL

\* The fields of one group never share a bit, in structs and in unions, also
\* where the group outgrew its unit.
THEOREM GroupDisjoint == Spec => []FieldsApart
<1>1. LayoutInv => FieldsApart
  BY DEF LayoutInv
<1> QED BY <1>1, LayoutInductive, PTL


-----------------------------------------------------------------------------
(* Arrays of records.  ElementsFit needs to know, while members are added, *)
(* that each is aligned and that the record will be aligned no less        *)
(* (Aligned), and where each ends (Inside); the padding at the end then    *)
(* makes room and keeps the next element aligned (Padded).                 *)

\* A member no bit-field is aligned as its type is, the unit that starts a
\* group as that unit is (unless packed), and the record no less than both.
Aligned(i) ==
  LET r == placed[i]
  IN IF r.kind = "bits"
     THEN r.align > 1 /\ r.bits > 0 /\ prim = "struct" /\ r.group = i
            => r.unit \in Powers /\ r.off % r.unit = 0 /\ r.unit <= align_max
     ELSE r.off % r.align = 0 /\ r.align <= align_max

\* The bytes of the record before its padding.
Extent == IF prim = "struct" THEN offset ELSE sz_max

FirstField(i) == \A k \in 1..i-1 : placed[k].kind # "bits"

\* The members ElementsFit speaks of end before the padding.
Inside(i) ==
  ~Overruns(placed[i]) /\ (prim = "union" /\ placed[i].kind = "bits" => FirstField(i))
    => End(placed[i]) <= 8 * Extent

\* A union's offset stays zero until its first bit-field.
Unmoved ==
  prim = "union" /\ (\A k \in 1..Len(placed) : placed[k].kind # "bits")
    => offset = 0 /\ bitfield.cur = 0 /\ bitfield.master = 0

\* The size is the extent, padded for every alignment up to the record's.
Padded ==
  status = "folded" =>
    size % align = 0 /\ size >= Extent /\ \A p \in Powers : p <= align_max => size % p = 0

FitInv == (\A i \in 1..Len(placed) : Aligned(i) /\ Inside(i)) /\ Unmoved /\ Padded

\* The integer types of bit-fields are aligned to their size (btype_align()).
FieldsAligned == \A m \in Members : m.kind = "bits" => m.size <= m.align

\* pack_to_align() rounds to a multiple of the alignment, and so of every
\* smaller one.
LEMMA PackMultiple ==
  ASSUME NEW sz \in Nat, NEW al \in Powers, NEW p \in Powers, p <= al
  PROVE  pack_to_align(sz, al) % p = 0
<1>1. CASE al = 1 BY <1>1 DEF pack_to_align, Powers
<1>2. CASE al = 2 BY <1>2 DEF pack_to_align, Powers
<1>3. CASE al = 4 BY <1>3 DEF pack_to_align, Powers
<1>4. CASE al = 8 BY <1>4 DEF pack_to_align, Powers
<1>5. CASE al = 16 BY <1>5 DEF pack_to_align, Powers
<1> QED BY <1>1, <1>2, <1>3, <1>4, <1>5 DEF Powers

\* What is aligned in the first element of an array is in the second.
LEMMA SecondElement ==
  ASSUME NEW sz \in Nat, NEW off \in Nat, NEW p \in Powers, sz % p = 0, off % p = 0,
         NEW elem \in 0..1
  PROVE  (elem * sz + off) % p = 0
<1>1. elem * sz = 0 \/ elem * sz = sz
  <2>1. CASE elem = 0 BY <2>1
  <2>2. CASE elem = 1 BY <2>2
  <2> QED BY <2>1, <2>2
<1>2. (sz + off) % p = 0 /\ (0 + off) % p = 0
  BY DEF Powers
<1> QED BY <1>1, <1>2

\* A field no wider than its type reserves no more than its type.
LEMMA UnitFits ==
  ASSUME NEW b \in Nat, b > 0, NEW s \in {1, 2, 4, 8}, b <= 8 * s
  PROVE  decl_type_for_bitfield(b) <= s /\ decl_type_for_bitfield(b) \in {1, 2, 4, 8}
BY DEF decl_type_for_bitfield, type_nav_MAX_FOR

\* What Grow() makes of the largest alignment and size.
LEMMA GrowUp ==
  ASSUME TypeOK, NEW m \in Members, NEW sz \in Nat, NEW al \in Powers \cup {0}, Grow(m, sz, al)
  PROVE  /\ align_max' >= align_max /\ sz_max' >= sz_max /\ sz_max' >= sz
         /\ align_max' >= (IF packed \/ m.packed THEN 1 ELSE al)
<1> DEFINE a == IF packed \/ m.packed THEN 1 ELSE al
<1>1. align_max \in Nat /\ sz_max \in Nat /\ a \in Nat
  BY DEF TypeOK, Powers
<1>2. align_max' = Larger(align_max, a) /\ sz_max' = Larger(sz_max, sz)
  BY DEF Grow
<1> HIDE DEF a
<1>3. align_max' >= align_max /\ sz_max' >= sz_max /\ sz_max' >= sz /\ align_max' >= a
  BY <1>1, <1>2 DEF Larger
<1> QED BY <1>3 DEF a

\* One more member: what a step has to establish about the member it adds.
LEMMA AddFits ==
  ASSUME LayoutInv, LayoutInv', FitInv, NEW r \in PlacedType, placed' = Append(placed, r),
         prim' = prim, offset' >= offset, align_max' >= align_max, sz_max' >= sz_max,
         status' # "folded", Unmoved',
         NEW n \in Nat, n = Len(placed), Aligned(n + 1)', Inside(n + 1)'
  PROVE  FitInv'
<1>1. /\ placed \in Seq(PlacedType) /\ offset \in Nat /\ offset' \in Nat
      /\ sz_max \in Nat /\ sz_max' \in Nat /\ align_max \in Nat /\ align_max' \in Nat
  BY DEF LayoutInv, TypeOK, Powers
<1>3. /\ Len(placed') = n + 1
      /\ \A i \in 1..n : placed'[i] = placed[i] /\ placed[i] \in PlacedType
      /\ placed'[n + 1] = r
  BY <1>1, AppendFacts
<1>4. ASSUME NEW i \in 1..n PROVE Aligned(i)' /\ Inside(i)'
  <2>1. /\ placed'[i] = placed[i] /\ placed[i] \in PlacedType
        /\ \A k \in 1..i-1 : placed'[k] = placed[k]
    BY <1>3
  <2>2. Aligned(i) /\ Inside(i)
    BY DEF FitInv
  <2>3. Aligned(i)'
    <3>1. placed[i].unit \in Nat /\ placed[i].align \in Nat
      BY <2>1, SMTT(30) DEF PlacedType, Powers
    <3> DEFINE rec == placed[i]
               Al(am) == IF rec.kind = "bits"
                         THEN rec.align > 1 /\ rec.bits > 0 /\ prim = "struct" /\ rec.group = i
                                => rec.unit \in Powers /\ rec.off % rec.unit = 0 /\ rec.unit <= am
                         ELSE rec.off % rec.align = 0 /\ rec.align <= am
    <3>2. Al(align_max)
      BY <2>2 DEF Aligned
    <3>3. Al(align_max')
      <4>1. rec.unit <= align_max => rec.unit <= align_max'
        BY <1>1, <3>1
      <4>2. rec.align <= align_max => rec.align <= align_max'
        BY <1>1, <3>1
      <4> QED BY <3>2, <4>1, <4>2, Zenon
    <3> QED BY <2>1, <3>3 DEF Aligned
  <2>4. End(placed[i]) <= 8 * Extent => End(placed[i]) <= 8 * Extent'
    <3>1. End(placed[i]) \in Nat
      BY <2>1, SpanType
    <3> QED BY <1>1, <3>1 DEF Extent
  <2>5. FirstField(i)' = FirstField(i)
    BY <2>1 DEF FirstField
  <2>6. End(placed[i])' = End(placed[i]) /\ Overruns(placed[i])' = Overruns(placed[i])
    BY <2>1 DEF End, Begin, Width, Overruns
  <2>7. Inside(i)'
    BY <2>1, <2>2, <2>4, <2>5, <2>6 DEF Inside
  <2> QED BY <2>3, <2>7
<1>5. Padded'
  BY DEF Padded
<1>6. \A i \in 1..n+1 : Aligned(i)' /\ Inside(i)'
  BY <1>4
<1> QED BY <1>3, <1>5, <1>6 DEF FitInv

\* What all steps that add a member know of the state before and after.
LEMMA Before ==
  ASSUME LayoutInv
  PROVE  /\ TypeOK /\ offset \in Nat /\ bitfield \in GroupType /\ placed \in Seq(PlacedType)
         /\ bitfield.cur \in Nat /\ bitfield.first \in Nat /\ bitfield.group \in Nat
         /\ bitfield.unit \in Nat /\ sz_max \in Nat /\ Len(placed) \in Nat
BY DEF LayoutInv, TypeOK, GroupType

\* A bit-field that is the first of a union finds the offset where it began.
LEMMA FirstUnmoved ==
  ASSUME FitInv, NEW r, placed \in Seq(PlacedType), r \in PlacedType, placed' = Append(placed, r),
         NEW n \in Nat, n = Len(placed), prim = "union", FirstField(n + 1)'
  PROVE  offset = 0 /\ bitfield.cur = 0 /\ bitfield.master = 0
<1>1. \A i \in 1..n : placed'[i] = placed[i]
  BY AppendFacts
<1>2. \A k \in 1..n : placed[k].kind # "bits"
  BY <1>1 DEF FirstField
<1> QED BY <1>2 DEF FitInv, Unmoved

\* Bytes to bits keeps the order.
LEMMA EightTimes ==
  ASSUME NEW a \in Nat, NEW b \in Nat, b >= a
  PROVE  8 * a <= 8 * b /\ 8 * 0 <= 8 * b
OBVIOUS

\* A field that takes no bits ends at the offset, or is left out of the claim.
LEMMA ZeroWidthFits ==
  ASSUME LayoutInv, LayoutInv', FitInv, NEW m \in Members, ZeroWidth(m)
  PROVE  FitInv'
<1> DEFINE r == Placed(m, [off |-> offset, bitoff |-> bitfield.cur, bf |-> NoBitfield])
<1>1. /\ TypeOK /\ offset \in Nat /\ bitfield \in GroupType /\ placed \in Seq(PlacedType)
      /\ bitfield.cur \in Nat /\ sz_max \in Nat /\ NoBitfield \in GroupType
  BY Before DEF GroupType, NoBitfield
<1>2. /\ m.kind = "bits" /\ m.bits = 0 /\ placed' = Append(placed, r) /\ prim' = prim
      /\ TakeBits(0, bitfield, offset) /\ Grow(m, 0, 0) /\ status' # "folded"
  BY DEF ZeroWidth, Put, More
<1>3. /\ r \in PlacedType /\ r.kind = "bits" /\ r.bits = 0 /\ r.off = offset
      /\ r.bitoff = bitfield.cur /\ r.unit = 0
  BY <1>1, <1>2, PlacedOK DEF Placed, NoBitfield
<1> HIDE DEF r
<1>4. offset' \in Nat /\ offset' >= offset
  BY <1>1, <1>2, TakeType
<1>5. align_max' >= align_max /\ sz_max' >= sz_max /\ sz_max' \in Nat
  BY <1>1, <1>2, GrowUp, GrowType
<1>11. 8 * offset <= 8 * offset' /\ 8 * 0 <= 8 * sz_max'
  BY <1>1, <1>4, <1>5, EightTimes
<1>6. PICK n \in Nat : n = Len(placed) /\ Len(placed') = n + 1 /\ placed'[n + 1] = r
  BY <1>1, <1>2, <1>3, AppendFacts
<1>7. Aligned(n + 1)' /\ Unmoved'
  BY <1>3, <1>6 DEF Aligned, Unmoved
<1>8. Inside(n + 1)'
  <2> SUFFICES ASSUME ~Overruns(r), prim = "union" => FirstField(n + 1)'
               PROVE  End(r) <= 8 * Extent'
    BY <1>2, <1>3, <1>6 DEF Inside, End, Begin, Width, Overruns
  <2>1. bitfield.cur = 0 /\ End(r) = 8 * offset
    BY <1>1, <1>3 DEF Overruns, End, Begin, Width
  <2>2. CASE prim = "struct"
    <3>1. Extent' = offset'
      BY <1>2, <2>2 DEF Extent
    <3> QED BY <1>11, <2>1, <3>1
  <2>3. CASE prim # "struct"
    <3>1. prim = "union"
      BY <1>1, <2>3, LayoutAssumption DEF TypeOK
    <3>2. offset = 0
      BY <1>1, <1>2, <1>3, <1>6, <3>1, FirstUnmoved
    <3>3. Extent' = sz_max'
      BY <1>2, <2>3 DEF Extent
    <3> QED BY <1>11, <2>1, <3>2, <3>3
  <2> QED BY <2>2, <2>3
<1> QED BY <1>2, <1>3, <1>4, <1>5, <1>6, <1>7, <1>8, AddFits

\* The first field of a group: the unit it reserves is aligned and counted.
LEMMA StartGroupFits ==
  ASSUME LayoutInv, LayoutInv', FitInv, FieldsAligned, NEW m \in Members, StartGroup(m, GroupFrom)
  PROVE  FitInv'
<1> DEFINE unit == decl_type_for_bitfield(m.bits)
           first == pack_to_align(GroupFrom, unit)
           bf == NewGroup(m, first)
           r == Placed(m, [off |-> first, bitoff |-> 0, bf |-> bf])
<1>1. /\ TypeOK /\ offset \in Nat /\ bitfield \in GroupType /\ placed \in Seq(PlacedType)
      /\ bitfield.cur \in Nat /\ sz_max \in Nat
      /\ m.bits \in Nat /\ m.kind = "bits" /\ m.bits > 0 /\ m.size \in {1, 2, 4, 8}
      /\ m.bits <= 8 * m.size /\ m.size <= m.align /\ m.signed \in BOOLEAN /\ m.align \in Powers
  BY Before, MemberType, LayoutAssumption DEF StartGroup, FieldsAligned
<1>2. unit \in {1, 2, 4, 8} /\ unit \in Powers /\ unit <= m.align
  BY <1>1, UnitFits DEF Powers
<1>3. GroupFrom \in Nat /\ GroupFrom >= offset
  <2>1. GroupFrom = struct_pack_finish_bitfield(offset, bitfield) \/ GroupFrom = offset
    BY DEF GroupFrom
  <2>2. /\ struct_pack_finish_bitfield(offset, bitfield) \in Nat
        /\ struct_pack_finish_bitfield(offset, bitfield) >= offset
    BY <1>1, FinishUp
  <2> QED BY <1>1, <2>1, <2>2
<1>4. /\ first \in Nat /\ first >= offset /\ first % unit = 0
  <2>1. first \in Nat /\ first >= GroupFrom
    BY <1>2, <1>3, PackUp
  <2>2. unit <= unit
    BY <1>2
  <2>3. first % unit = 0
    BY <1>2, <1>3, <2>2, PackMultiple
  <2> QED BY <1>1, <1>3, <2>1, <2>3
<1>5. PICK n \in Nat : n = Len(placed)
  BY <1>1
<1>6. /\ bf \in GroupType /\ bf.cur = 0 /\ bf.unit = unit /\ bf.group = n + 1
  BY <1>1, <1>2, <1>4, <1>5 DEF NewGroup, GroupType
<1>7. /\ placed' = Append(placed, r) /\ prim' = prim /\ TakeBits(m.bits, bf, first + unit)
      /\ Grow(m, unit, m.align) /\ status' # "folded"
  BY DEF StartGroup, Put, More
<1>8. offset = 0 /\ bitfield.cur = 0 /\ bitfield.master = 0 => first = 0
  BY <1>2 DEF GroupFrom, struct_pack_finish_bitfield, pack_to_align
<1> HIDE DEF unit, first, bf
<1>9. /\ r \in PlacedType /\ r.group = n + 1 /\ r.off = first /\ r.bitoff = 0
      /\ r.kind = "bits" /\ r.bits = m.bits /\ r.unit = unit
      /\ r.align = (IF packed \/ m.packed THEN 1 ELSE m.align)
  BY <1>1, <1>4, <1>6, PlacedOK DEF Placed
<1> HIDE DEF r
<1>10. first + unit \in Nat /\ unit \in Nat
  BY <1>2, <1>4
<1>11. offset' \in Nat /\ offset' >= first + unit
  BY <1>1, <1>6, <1>7, <1>10, TakeType
<1>12. /\ align_max' >= align_max /\ sz_max' >= sz_max /\ sz_max' \in Nat /\ sz_max' >= unit
       /\ align_max' >= (IF packed \/ m.packed THEN 1 ELSE m.align) /\ align_max' \in Powers
  BY <1>1, <1>7, <1>10, GrowUp, GrowType
<1>13. Len(placed') = n + 1 /\ placed'[n + 1] = r
  BY <1>1, <1>5, <1>7, <1>9, AppendFacts
<1>14. Unmoved'
  BY <1>5, <1>9, <1>13 DEF Unmoved
<1>15. Aligned(n + 1)'
  <2>1. r.align > 1 => unit <= align_max'
    <3>1. align_max' \in Nat /\ m.align \in Nat
      BY <1>1, <1>12 DEF Powers
    <3> QED BY <1>2, <1>9, <1>10, <1>12, <3>1
  <2> QED BY <1>2, <1>4, <1>9, <1>13, <2>1 DEF Aligned
<1>16. Inside(n + 1)'
  <2> SUFFICES ASSUME ~Overruns(r), prim = "union" => FirstField(n + 1)'
               PROVE  End(r) <= 8 * Extent'
    BY <1>7, <1>9, <1>13 DEF Inside, End, Begin, Width, Overruns
  <2>1. m.bits <= 8 * unit /\ End(r) = 8 * first + m.bits
    BY <1>1, <1>2, <1>4, <1>9 DEF Overruns, End, Begin, Width
  <2>2. CASE prim = "struct"
    <3>1. Extent' = offset'
      BY <1>7, <2>2 DEF Extent
    <3> QED BY <1>1, <1>4, <1>10, <1>11, <2>1, <3>1
  <2>3. CASE prim # "struct"
    <3>1. prim = "union" /\ Extent' = sz_max'
      BY <1>1, <1>7, <2>3, LayoutAssumption DEF TypeOK, Extent
    <3>2. offset = 0 /\ bitfield.cur = 0 /\ bitfield.master = 0
      BY <1>1, <1>5, <1>7, <1>9, <3>1, FirstUnmoved
    <3> QED BY <1>1, <1>8, <1>10, <1>12, <2>1, <3>1, <3>2
  <2> QED BY <2>2, <2>3
<1>17. offset' >= offset
  BY <1>1, <1>4, <1>10, <1>11
<1> QED BY <1>5, <1>7, <1>9, <1>12, <1>14, <1>15, <1>16, <1>17, AddFits

\* A field that joins a group adds nothing to what the group reserved.
LEMMA JoinGroupFits ==
  ASSUME LayoutInv, LayoutInv', FitInv, NEW m \in Members, JoinGroup(m)
  PROVE  FitInv'
<1> DEFINE r == Placed(m, [off |-> bitfield.first, bitoff |-> bitfield.cur, bf |-> bitfield])
<1>1. /\ TypeOK /\ offset \in Nat /\ bitfield \in GroupType /\ placed \in Seq(PlacedType)
      /\ bitfield.cur \in Nat /\ bitfield.first \in Nat /\ bitfield.group \in Nat
      /\ sz_max \in Nat /\ m.bits \in Nat
  BY Before, MemberType
<1>2. /\ m.kind = "bits" /\ m.bits > 0 /\ bitfield.cur # 0
      /\ placed' = Append(placed, r) /\ prim' = prim /\ status' # "folded"
      /\ TakeBits(m.bits, bitfield, offset) /\ Grow(m, 0, 0)
  BY DEF JoinGroup, NeedsGroup, Put, More
<1>3. /\ r \in PlacedType /\ r.group = bitfield.group /\ r.kind = "bits" /\ r.bits = m.bits
  BY <1>1, <1>2, PlacedOK DEF Placed
<1> HIDE DEF r
<1>4. offset' \in Nat /\ offset' >= offset
  BY <1>1, <1>2, TakeType
<1>5. align_max' >= align_max /\ sz_max' >= sz_max
  BY <1>1, <1>2, GrowUp
<1>6. PICK n \in Nat : n = Len(placed) /\ Len(placed') = n + 1 /\ placed'[n + 1] = r
  BY <1>1, <1>2, <1>3, AppendFacts
<1>7. r.group # n + 1
  BY <1>1, <1>3, <1>6 DEF LayoutInv, GroupOld
<1>8. Aligned(n + 1)' /\ Unmoved'
  BY <1>3, <1>6, <1>7 DEF Aligned, Unmoved
<1>9. Inside(n + 1)'
  <2> SUFFICES ASSUME ~Overruns(r), prim = "union" => FirstField(n + 1)'
               PROVE  End(r) <= 8 * Extent'
    BY <1>2, <1>3, <1>6 DEF Inside, End, Begin, Width, Overruns
  <2>1. prim = "struct"
    <3>1. prim # "union"
      BY <1>1, <1>2, <1>3, <1>6, FirstUnmoved
    <3> QED BY <1>1, <3>1, LayoutAssumption DEF TypeOK
  <2>2. Occupies(r)
    BY <1>1, <1>2, <1>3 DEF Occupies, Width
  <2>3. \A i \in 1..n+1 : Occupies(placed'[i]) => End(placed'[i]) <= 8 * offset'
    BY <1>2, <1>6, <2>1 DEF LayoutInv, Behind, Occupies, End, Begin, Width, Overruns
  <2>4. End(r) <= 8 * offset'
    BY <1>6, <2>2, <2>3
  <2> QED BY <1>2, <2>1, <2>4 DEF Extent
<1> QED BY <1>2, <1>3, <1>4, <1>5, <1>6, <1>8, <1>9, AddFits

\* A member that is no bit-field is aligned as its type and counted.
LEMMA PlaceFits ==
  ASSUME LayoutInv, LayoutInv', FitInv, NEW m \in Members, m.kind # "bits", NEW sz \in Nat,
         sz = m.size, PlaceAt(m, sz, IF packed \/ m.packed THEN 1 ELSE m.align),
         Grow(m, sz, m.align), status' # "folded", UNCHANGED prim
  PROVE  FitInv'
<1> DEFINE al == IF packed \/ m.packed THEN 1 ELSE m.align
           start == IF prim = "struct" THEN pack_to_align(offset, al) ELSE 0
           r == Placed(m, [off |-> start, bitoff |-> 0, bf |-> NoBitfield])
<1>1. /\ TypeOK /\ offset \in Nat /\ bitfield \in GroupType /\ placed \in Seq(PlacedType)
      /\ sz_max \in Nat /\ NoBitfield \in GroupType /\ m.align \in Powers /\ al \in Powers
  BY Before, MemberType DEF GroupType, NoBitfield, Powers
<1>2. start \in Nat /\ (prim = "struct" => start >= offset) /\ start % al = 0
  <2>1. al <= al /\ 0 % al = 0
    BY <1>1 DEF Powers
  <2>2. pack_to_align(offset, al) \in Nat /\ pack_to_align(offset, al) >= offset
    BY <1>1, PackUp
  <2>3. pack_to_align(offset, al) % al = 0
    BY <1>1, <2>1, PackMultiple
  <2> QED BY <2>1, <2>2, <2>3
<1>3. placed' = Append(placed, r)
  BY DEF PlaceAt, Put
<1>4. /\ prim = "struct" => offset' = start + sz
      /\ prim # "struct" => offset' = offset /\ bitfield' = bitfield
  BY DEF PlaceAt
<1> HIDE DEF start
<1>5. /\ r \in PlacedType /\ r.off = start /\ r.bitoff = 0 /\ r.align = al
      /\ r.kind = m.kind /\ r.size = sz
  BY <1>1, <1>2, PlacedOK DEF Placed
<1> HIDE DEF r
<1>6. /\ align_max' >= align_max /\ sz_max' >= sz_max /\ sz_max' >= sz /\ align_max' >= al
      /\ align_max' \in Powers /\ sz_max' \in Nat
  BY <1>1, GrowUp, GrowType
<1> HIDE DEF al
<1>7. offset' >= offset /\ offset' \in Nat
  BY <1>1, <1>2, <1>4
<1>8. PICK n \in Nat : /\ n = Len(placed) /\ Len(placed') = n + 1 /\ placed'[n + 1] = r
                       /\ \A i \in 1..n : placed'[i] = placed[i]
  BY <1>1, <1>3, <1>5, AppendFacts
<1>9. Aligned(n + 1)'
  <2>1. al <= align_max'
    BY <1>1, <1>6 DEF Powers
  <2> QED BY <1>2, <1>5, <1>8, <2>1 DEF Aligned
<1>10. Unmoved'
  <2> SUFFICES ASSUME prim = "union", \A k \in 1..n+1 : placed'[k].kind # "bits" PROVE Unmoved'
    BY <1>8 DEF Unmoved
  <2>1. \A k \in 1..n : placed[k].kind # "bits"
    BY <1>8
  <2>2. offset = 0 /\ bitfield.cur = 0 /\ bitfield.master = 0
    BY <1>8, <2>1 DEF FitInv, Unmoved
  <2> QED BY <1>4, <2>2 DEF Unmoved
<1>11. Inside(n + 1)'
  <2>1. End(r) = 8 * start + 8 * sz
    BY <1>2, <1>5 DEF End, Begin, Width
  <2>2. End(r) <= 8 * Extent'
    <3>1. CASE prim = "struct"
      BY <1>2, <1>4, <2>1, <3>1 DEF Extent
    <3>2. CASE prim # "struct"
      BY <1>6, <2>1, <3>2 DEF Extent, start
    <3> QED BY <3>1, <3>2
  <2> QED BY <1>8, <2>2 DEF Inside, End, Begin, Width, Overruns
<1> QED BY <1>3, <1>5, <1>6, <1>7, <1>8, <1>9, <1>10, <1>11, AddFits

\* The size Finish computes is padded for the members and for the attribute.
LEMMA FinishFits ==
  ASSUME LayoutInv, FitInv, Finish
  PROVE  FitInv'
<1> DEFINE packedSize == pack_to_align(Extent, align_max)
<1>1. Extent \in Nat /\ align_max \in Powers /\ attr \in Powers
  BY LayoutAssumption DEF LayoutInv, TypeOK, Extent
<1>2. align' \in Powers /\ align' >= align_max
  <2>1. align' = Larger(attr, align_max)
    BY DEF Finish
  <2> QED BY <1>1, <2>1 DEF Larger, Powers
<1>3. packedSize \in Nat /\ packedSize >= Extent
  BY <1>1, PackUp
<1>4. size' = pack_to_align(packedSize, align')
  BY DEF Finish, Extent
<1> HIDE DEF packedSize
<1>5. size' \in Nat /\ size' >= packedSize
  BY <1>2, <1>3, <1>4, PackUp
<1>6. \A p \in Powers : p <= align' => size' % p = 0
  BY <1>2, <1>3, <1>4, PackMultiple
<1>7. size' % align' = 0 /\ \A p \in Powers : p <= align_max => size' % p = 0
  <2>1. align' <= align'
    BY <1>2 DEF Powers
  <2>2. \A p \in Powers : p <= align_max => p <= align'
    BY <1>1, <1>2 DEF Powers
  <2> QED BY <1>2, <1>6, <2>1, <2>2
<1>8. UNCHANGED <<prim, placed, offset, bitfield, align_max, sz_max>>
  BY DEF Finish
<1>9. Extent' = Extent
  BY <1>8 DEF Extent
<1>10. Padded'
  <2>1. size' >= Extent
    BY <1>1, <1>3, <1>5
  <2> QED BY <1>7, <1>8, <1>9, <2>1 DEF Padded
<1>11. Unmoved' /\ \A i \in 1..Len(placed) : Aligned(i)' /\ Inside(i)'
  BY <1>8, <1>9 DEF FitInv, Unmoved, Aligned, Inside, FirstField, End, Begin, Width, Overruns
<1> QED BY <1>8, <1>10, <1>11 DEF FitInv

\* Where no member is added the rest stays as it is.
LEMMA OthersFit ==
  ASSUME FitInv, (\E m \in Members : Refuse(m) \/ Ignore(m)) \/ UNCHANGED layoutVars
  PROVE  FitInv'
<1>1. /\ UNCHANGED <<prim, placed, offset, bitfield, align_max, sz_max, size, align>>
      /\ status' = status \/ status' = "error"
  BY DEF Refuse, Ignore, layoutVars
<1>2. Extent' = Extent
  BY <1>1 DEF Extent
<1>3. Padded' /\ Unmoved' /\ \A i \in 1..Len(placed) : Aligned(i)' /\ Inside(i)'
  BY <1>1, <1>2 DEF FitInv, Padded, Unmoved, Aligned, Inside, FirstField, End, Begin, Width, Overruns
<1> QED BY <1>1, <1>3 DEF FitInv

\* At the end of the fold the invariant says that elements fit.
LEMMA FitIsEnough ==
  ASSUME LayoutInv, FitInv
  PROVE  ElementsFit
<1> SUFFICES ASSUME status = "folded" PROVE ElementsFit
  BY DEF ElementsFit
<1>1. /\ size \in Nat /\ placed \in Seq(PlacedType) /\ Extent \in Nat /\ align_max \in Powers
      /\ size % align = 0 /\ size >= Extent
      /\ \A p \in Powers : p <= align_max => size % p = 0
  BY DEF LayoutInv, TypeOK, FitInv, Padded, Extent
<1>2. ASSUME NEW i \in 1..Len(placed), NEW elem \in 0..1
      PROVE  LET r == placed[i]
                 demand == IF r.kind = "bits" /\ r.align > 1 THEN r.unit ELSE r.align
                 first == \A k \in 1..i-1 : placed[k].kind # "bits"
             IN /\ (r.kind = "bits" => r.bits > 0 /\ prim = "struct" /\ r.group = i)
                     => (elem * size + r.off) % demand = 0
                /\ ~Overruns(r) /\ (prim = "union" /\ r.kind = "bits" => first)
                     => End(r) <= 8 * size
  <2> DEFINE r == placed[i]
             demand == IF r.kind = "bits" /\ r.align > 1 THEN r.unit ELSE r.align
             first == \A k \in 1..i-1 : placed[k].kind # "bits"
  <2>0. r \in PlacedType
    BY <1>1
  <2>1. /\ r \in PlacedType /\ r.off \in Nat /\ r.align \in Powers /\ End(r) \in Nat
        /\ Aligned(i) /\ Inside(i)
    <3>1. r.off \in Nat /\ r.align \in Powers
      BY <2>0 DEF PlacedType
    <3>2. End(r) \in Nat
      BY <2>0, SpanType
    <3> QED BY <2>0, <3>1, <3>2 DEF FitInv
  <2>2. ASSUME r.kind = "bits" => r.bits > 0 /\ prim = "struct" /\ r.group = i
        PROVE  (elem * size + r.off) % demand = 0
    <3>1. demand \in Powers /\ r.off % demand = 0 /\ demand <= align_max
      <4>1. CASE r.kind = "bits" /\ r.align > 1
        BY <2>1, <2>2, <4>1 DEF Aligned
      <4>2. CASE r.kind = "bits" /\ ~(r.align > 1)
        <5>1. r.align = 1
          BY <2>1, <4>2 DEF Powers
        <5> QED BY <1>1, <2>1, <4>2, <5>1 DEF Powers
      <4>3. CASE r.kind # "bits"
        BY <2>1, <4>3 DEF Aligned
      <4> QED BY <4>1, <4>2, <4>3
    <3> HIDE DEF demand
    <3>2. size % demand = 0
      BY <1>1, <3>1
    <3> QED BY <1>1, <2>1, <3>1, <3>2, SecondElement
  <2>3. ASSUME ~Overruns(r), prim = "union" /\ r.kind = "bits" => first
        PROVE  End(r) <= 8 * size
    <3>1. End(r) <= 8 * Extent
      BY <2>1, <2>3 DEF Inside, FirstField
    <3> QED BY <1>1, <2>1, <3>1
  <2> QED BY <2>2, <2>3
<1> QED BY <1>1, <1>2 DEF ElementsFit

\* For every set of member types, the alignment of bit-fields' types being
\* their size at least, and any number of members and any aligned attribute:
\* in an array of the record all elements and all members are aligned and no
\* member reaches into the next element.
THEOREM ArraysFit ==
  ASSUME FieldsAligned
  PROVE  Spec => []ElementsFit
<1>1. Init => FitInv
  <2> SUFFICES ASSUME Init PROVE FitInv
    OBVIOUS
  <2>1. placed = <<>> /\ Len(placed) = 0 /\ status = "folding" /\ offset = 0
        /\ bitfield.cur = 0 /\ bitfield.master = 0
    BY DEF Init, NoBitfield
  <2> QED BY <2>1 DEF FitInv, Unmoved, Padded
<1>2. LayoutInv /\ LayoutInv' /\ FitInv /\ [Next]_layoutVars => FitInv'
  <2> SUFFICES ASSUME LayoutInv, LayoutInv', FitInv, [Next]_layoutVars PROVE FitInv'
    OBVIOUS
  <2>1. ASSUME NEW m \in Members, ZeroWidth(m) PROVE FitInv'
    BY <2>1, ZeroWidthFits
  <2>2. ASSUME NEW m \in Members, StartGroup(m, GroupFrom) PROVE FitInv'
    BY <2>2, StartGroupFits
  <2>3. ASSUME NEW m \in Members, JoinGroup(m) PROVE FitInv'
    BY <2>3, JoinGroupFits
  <2>4. ASSUME NEW m \in Members, Normal(m) PROVE FitInv'
    <3>1. /\ m.size \in Nat /\ m.kind # "bits"
          /\ PlaceAt(m, m.size, IF packed \/ m.packed THEN 1 ELSE m.align)
          /\ Grow(m, m.size, m.align) /\ status' # "folded" /\ UNCHANGED prim
      BY <2>4, MemberType DEF Normal, More
    <3> QED BY <3>1, PlaceFits
  <2>5. ASSUME NEW m \in Members, Flexible(m) PROVE FitInv'
    <3>1. /\ m.size = 0 /\ 0 \in Nat /\ m.kind # "bits"
          /\ PlaceAt(m, 0, IF packed \/ m.packed THEN 1 ELSE m.align)
          /\ Grow(m, 0, m.align) /\ status' # "folded" /\ UNCHANGED prim
      BY <2>5, MemberType DEF Flexible
    <3> QED BY <3>1, PlaceFits
  <2>6. CASE Finish
    BY <2>6, FinishFits
  <2>7. CASE (\E m \in Members : Refuse(m) \/ Ignore(m)) \/ UNCHANGED layoutVars
    BY <2>7, OthersFit
  <2> QED BY <2>1, <2>2, <2>3, <2>4, <2>5, <2>6, <2>7 DEF Next, AddMember
<1>3. LayoutInv /\ FitInv => ElementsFit
  BY FitIsEnough
<1> QED BY <1>1, <1>2, <1>3, LayoutInductive, PTL DEF Spec

-----------------------------------------------------------------------------
(* Objects of the records.                                                 *)

\* Reading, writing and emitting objects leaves their layout alone, so the
\* objects of StructObject are laid out as StructLayout says.
THEOREM ObjectsImplementLayout == ObjectSpec => Spec
<1>1. ObjectInit => Init
  BY DEF ObjectInit
<1>2. [ObjectNext]_vars => [Next]_layoutVars
  BY DEF ObjectNext, vars, Allocate, Store, StartImage, EmitMember, EmitTail, EmitUnion
<1> QED BY <1>1, <1>2, PTL DEF ObjectSpec, Spec

\* So the members of every object lie apart.
THEOREM ObjectMembersApart == ObjectSpec => []MembersApart
BY ObjectsImplementLayout, LayoutDisjoint, PTL

-----------------------------------------------------------------------------
(* Members of an object.  What reading and writing does is told bit by bit: *)
(* a store changes the member's own bits and no others (StoreBit), and a    *)
(* load depends on them alone (DerefBit).                                   *)

\* The word a member is reached through contains it.
Reached(r) ==
  /\ r.kind = "bits" /\ r.bits > 0 =>
       /\ r.master \in {1, 2, 4, 8} /\ r.bitoff + r.bits <= 8 * r.master
       /\ r.bits <= 8 * r.size
  /\ r.kind # "bits" => r.bitoff = 0

\* Shifting moves every bit.
LEMMA ShiftedBit ==
  ASSUME NEW v \in SUBSET Int, NEW n \in Int
  PROVE  Shifted(v, n) \in SUBSET Int /\ \A b \in Int : b \in Shifted(v, n) <=> b - n \in v
<1>1. ASSUME NEW b \in Int PROVE b \in Shifted(v, n) <=> b - n \in v
  <2>1. ASSUME b \in Shifted(v, n) PROVE b - n \in v
    BY <2>1 DEF Shifted
  <2>2. ASSUME b - n \in v PROVE b \in Shifted(v, n)
    <3>1. (b - n) + n = b
      OBVIOUS
    <3> QED BY <2>2, <3>1 DEF Shifted
  <2> QED BY <2>1, <2>2
<1> QED BY <1>1 DEF Shifted

LEMMA ShiftRightBit ==
  ASSUME NEW v \in SUBSET Nat, NEW n \in Nat, NEW w \in Nat, n <= w, NEW s \in BOOLEAN
  PROVE  /\ ShiftRight(v, n, w, s) \in SUBSET Nat
         /\ \A b \in Nat : b \in ShiftRight(v, n, w, s)
                             <=> b + n \in v \/ (s /\ w - 1 \in v /\ w - n <= b /\ b < w)
<1> DEFINE down == {b - n : b \in {x \in v : x >= n}}
           fill == IF s /\ w - 1 \in v THEN w - n .. w - 1 ELSE {}
<1>1. ShiftRight(v, n, w, s) = down \cup fill
  BY DEF ShiftRight
<1>2. down \in SUBSET Nat
  OBVIOUS
<1>3. fill \in SUBSET Nat
  OBVIOUS
<1>4. ASSUME NEW b \in Nat PROVE b \in down <=> b + n \in v
  <2>1. ASSUME b \in down PROVE b + n \in v
    BY <2>1
  <2>2. ASSUME b + n \in v PROVE b \in down
    <3>1. b + n >= n /\ (b + n) - n = b
      OBVIOUS
    <3> QED BY <2>2, <3>1
  <2> QED BY <2>1, <2>2
<1>5. ASSUME NEW b \in Nat PROVE b \in fill <=> s /\ w - 1 \in v /\ w - n <= b /\ b < w
  OBVIOUS
<1> HIDE DEF down, fill
<1> QED BY <1>1, <1>2, <1>3, <1>4, <1>5

LEMMA ReachedTypes ==
  ASSUME NEW r \in PlacedType, Reached(r), Width(r) > 0
  PROVE  /\ WordBits(r) \in Nat /\ r.off \in Nat /\ r.bitoff \in Nat /\ r.bits \in Nat /\ r.size \in Nat
         /\ r.msigned \in BOOLEAN /\ r.signed \in BOOLEAN /\ r.master \in Nat
         /\ Width(r) \in Nat /\ Begin(r) \in Nat /\ Begin(r) = 8 * r.off + r.bitoff
         /\ End(r) = Begin(r) + Width(r) /\ r.bitoff + Width(r) <= WordBits(r)
<1>1. /\ r.off \in Nat /\ r.bitoff \in Nat /\ r.bits \in Nat /\ r.size \in Nat /\ r.master \in Nat
      /\ r.msigned \in BOOLEAN /\ r.signed \in BOOLEAN
  BY DEF PlacedType
<1> QED BY <1>1 DEF Reached, WordBits, Width, Begin, End

LEMMA LoadBit ==
  ASSUME NEW r \in PlacedType, Reached(r), Width(r) > 0, NEW m \in SUBSET Nat
  PROVE  /\ LoadWord(r, m) \in SUBSET Nat
         /\ \A b \in Nat : b \in LoadWord(r, m) <=> b < WordBits(r) /\ 8 * r.off + b \in m
<1>1. WordBits(r) \in Nat
  BY ReachedTypes
<1> QED BY <1>1 DEF LoadWord

\* out_bitfield_to_scalar(): the field's bits, and if the word is signed the
\* highest of them for all bits above.
LEMMA ScalarBit ==
  ASSUME NEW r \in PlacedType, Reached(r), Width(r) > 0, r.kind = "bits", ~WholeWord(r), NEW m \in SUBSET Nat
  PROVE  /\ out_bitfield_to_scalar(r, LoadWord(r, m)) \in SUBSET Nat
         /\ \A b \in Nat : b \in out_bitfield_to_scalar(r, LoadWord(r, m))
                             <=> \/ b < r.bits /\ Begin(r) + b \in m
                                 \/ /\ r.msigned /\ Begin(r) + (r.bits - 1) \in m
                                    /\ r.bits <= b /\ b < WordBits(r)
<1> DEFINE w == WordBits(r)
           word == LoadWord(r, m)
           right == ShiftRight(word, r.bitoff, w, r.msigned)
           scalar == {b \in right : ~Ones(r.bits, b)}
           up == Shifted(scalar, w - r.bits)
           k == r.bits
           p == r.bitoff
           o == 8 * r.off
<1>1. /\ w \in Nat /\ p \in Nat /\ k \in Nat /\ k > 0 /\ r.msigned \in BOOLEAN /\ p + k <= w
      /\ Begin(r) = o + p /\ o \in Nat /\ r.off \in Nat /\ k < 64
  <2>1. k < 64
    BY DEF Reached, WholeWord, PlacedType
  <2> QED BY <2>1, ReachedTypes DEF Width
<1>2. word \in SUBSET Nat /\ \A b \in Nat : b \in word <=> b < w /\ o + b \in m
  BY LoadBit
<1>3. out_bitfield_to_scalar(r, word) = IF r.msigned THEN ShiftRight(up, w - k, w, TRUE) ELSE scalar
  BY DEF out_bitfield_to_scalar
<1>3a. word = LoadWord(r, m) /\ w = WordBits(r) /\ Begin(r) = o + p /\ p <= w /\ k = r.bits
  BY <1>1
<1> HIDE DEF w, word, o, k, p
<1>4. right \in SUBSET Nat /\ \A b \in Nat : b \in right <=> b + p \in word \/ (r.msigned /\ w - 1 \in word /\ w - p <= b /\ b < w)
  <2>1. right = ShiftRight(word, p, w, r.msigned)
    BY DEF p
  <2> HIDE DEF right
  <2> QED BY <1>1, <1>2, <1>3a, <2>1, ShiftRightBit
<1>5. scalar \in SUBSET Nat /\ \A b \in Nat : b \in scalar <=> b < k /\ o + p + b \in m
  <2>1. scalar \in SUBSET Nat /\ \A b \in Nat : b \in scalar <=> b < k /\ b \in right
    <3>1. k = r.bits /\ k < 64 /\ k \in Nat
      BY <1>1, <1>3a
    <3>2. \A b \in Nat : Ones(r.bits, b) <=> b >= k
      BY <3>1 DEF Ones
    <3> QED BY <1>4, <3>1, <3>2
  <2>2. ASSUME NEW b \in Nat, b < k PROVE b \in right <=> o + p + b \in m
    <3>1. b + p \in Nat /\ b + p < w /\ ~(w - p <= b) /\ o + (b + p) = o + p + b
      BY <1>1, <2>2
    <3> HIDE DEF right, p, k
    <3> QED BY <1>2, <1>4, <3>1
  <2> HIDE DEF right, scalar
  <2> QED BY <2>1, <2>2
<1> HIDE DEF scalar
<1>6. CASE ~r.msigned
  <2>1. out_bitfield_to_scalar(r, word) = scalar
    BY <1>3, <1>6
  <2> QED BY <1>3a, <1>5, <1>6, <2>1
<1>7. CASE r.msigned
  <2>1. w - k \in Nat /\ w - k <= w /\ w - (w - k) = k
    BY <1>1
  <2>2. up \in SUBSET Int /\ \A b \in Int : b \in up <=> b - (w - k) \in scalar
    <3>1. scalar \in SUBSET Int /\ w - k \in Int
      BY <1>5, <2>1
    <3>2. up = Shifted(scalar, w - k)
      BY <1>3a
    <3> HIDE DEF up
    <3> QED BY <3>1, <3>2, ShiftedBit
  <2>3. up \in SUBSET Nat
    <3>1. ASSUME NEW b \in Int, b - (w - k) \in Nat PROVE b \in Nat
      BY <2>1, <3>1
    <3> QED BY <1>5, <2>2, <3>1
  <2> HIDE DEF up
  <2> DEFINE down == ShiftRight(up, w - k, w, TRUE)
  <2>4. down \in SUBSET Nat /\ \A b \in Nat : b \in down <=> b + (w - k) \in up \/ (w - 1 \in up /\ w - (w - k) <= b /\ b < w)
    BY <1>1, <2>1, <2>3, ShiftRightBit
  <2>5. \A b \in Nat : b + (w - k) \in up <=> b \in scalar
    <3>1. \A b \in Nat : b + (w - k) \in Int /\ (b + (w - k)) - (w - k) = b
      BY <2>1
    <3> QED BY <2>2, <3>1
  <2>6. w - 1 \in up <=> k - 1 \in scalar
    <3>1. w - 1 \in Int /\ (w - 1) - (w - k) = k - 1
      BY <1>1
    <3> QED BY <2>2, <3>1
  <2>7. k - 1 \in scalar <=> o + p + (k - 1) \in m
    <3>1. k - 1 \in Nat /\ k - 1 < k
      BY <1>1
    <3> QED BY <1>5, <3>1
  <2>8. out_bitfield_to_scalar(r, word) = down
    BY <1>3, <1>7
  <2> HIDE DEF down
  <2>9. \A b \in Nat : b \in down <=> \/ b < k /\ (o + p) + b \in m
                                      \/ (o + p) + (k - 1) \in m /\ k <= b /\ b < w
    <3> SUFFICES ASSUME NEW b \in Nat
                 PROVE  b \in down <=> \/ b < k /\ (o + p) + b \in m
                                       \/ (o + p) + (k - 1) \in m /\ k <= b /\ b < w
      OBVIOUS
    <3>1. b \in down <=> b \in scalar \/ (k - 1 \in scalar /\ k <= b /\ b < w)
      BY <2>1, <2>4, <2>5, <2>6
    <3>2. b \in scalar <=> b < k /\ o + p + b \in m
      BY <1>5
    <3> QED BY <1>1, <2>7, <3>1, <3>2
  <2>10. \A b \in Nat : b \in down <=> \/ b < r.bits /\ Begin(r) + b \in m
                                       \/ /\ r.msigned /\ Begin(r) + (r.bits - 1) \in m
                                          /\ r.bits <= b /\ b < WordBits(r)
    BY <1>3a, <1>7, <2>9
  <2> QED BY <1>3a, <2>4, <2>8, <2>10
<1> QED BY <1>6, <1>7

LEMMA LowBit ==
  ASSUME NEW v \in SUBSET Nat, NEW n
  PROVE  Low(v, n) \in SUBSET Int /\ \A b \in Int : b \in Low(v, n) <=> 0 <= b /\ b < n /\ b \in v
<1>1. \A b \in Low(v, n) : b \in Int
  BY DEF Low
<1>2. ASSUME NEW b \in Int PROVE b \in Low(v, n) <=> 0 <= b /\ b < n /\ b \in v
  BY DEF Low
<1> QED BY <1>1, <1>2

\* A load gives the member's own bits, sign-extended if its word is signed.
LEMMA DerefBit ==
  ASSUME NEW r \in PlacedType, Reached(r), Width(r) > 0, ~WholeWord(r), NEW m \in SUBSET Nat
  PROVE  /\ out_deref(r, m) \in SUBSET Nat
         /\ \A b \in Nat : b \in out_deref(r, m)
                             <=> \/ b < Width(r) /\ Begin(r) + b \in m
                                 \/ /\ r.kind = "bits" /\ r.msigned /\ Begin(r) + (r.bits - 1) \in m
                                    /\ r.bits <= b /\ b < WordBits(r)
<1>1. CASE r.kind = "bits"
  <2>1. out_deref(r, m) = out_bitfield_to_scalar(r, LoadWord(r, m)) /\ Width(r) = r.bits
    BY <1>1 DEF out_deref, Width
  <2>2. /\ out_bitfield_to_scalar(r, LoadWord(r, m)) \in SUBSET Nat
        /\ \A b \in Nat : b \in out_bitfield_to_scalar(r, LoadWord(r, m))
                            <=> \/ b < r.bits /\ Begin(r) + b \in m
                                \/ /\ r.msigned /\ Begin(r) + (r.bits - 1) \in m
                                   /\ r.bits <= b /\ b < WordBits(r)
    BY <1>1, ScalarBit
  <2> QED BY <1>1, <2>1, <2>2
<1>2. CASE r.kind # "bits"
  <2>1. out_deref(r, m) = LoadWord(r, m) /\ WordBits(r) = Width(r) /\ Begin(r) = 8 * r.off
    <3>1. r.bitoff = 0 /\ r.off \in Nat
      BY <1>2, ReachedTypes DEF Reached
    <3> QED BY <1>2, <3>1 DEF out_deref, Width, WordBits, Begin
  <2>2. LoadWord(r, m) \in SUBSET Nat /\ \A b \in Nat : b \in LoadWord(r, m) <=> b < WordBits(r) /\ 8 * r.off + b \in m
    BY LoadBit
  <2> QED BY <1>2, <2>1, <2>2
<1> QED BY <1>1, <1>2

\* What is written to the word: the value's bits for the member's own (unless
\* it ends a 64-bit word), the old ones for the rest.
LEMMA WrittenBit ==
  ASSUME NEW r \in PlacedType, Reached(r), Width(r) > 0, NEW m \in SUBSET Nat, NEW v \in SUBSET Nat
  PROVE  /\ Written(r, m, v) \in SUBSET Int
         /\ \A c \in Int : IF r.bitoff <= c /\ c < r.bitoff + Width(r)
                           THEN ~EndsWord(r) => (c \in Written(r, m, v) <=> c - r.bitoff \in v)
                           ELSE c \in Written(r, m, v) <=> 0 <= c /\ c < WordBits(r) /\ 8 * r.off + c \in m
<1> DEFINE p == r.bitoff
           w == WordBits(r)
           k == Width(r)
           o == 8 * r.off
           word == LoadWord(r, m)
<1>1. p \in Nat /\ w \in Nat /\ k \in Nat /\ k > 0 /\ p + k <= w /\ o \in Nat
  BY ReachedTypes
<1>2. CASE r.kind = "bits"
  <2>1. k = r.bits
    BY <1>2 DEF Width
  <2>2. word \in SUBSET Nat /\ \A b \in Nat : b \in word <=> b < w /\ o + b \in m
    BY LoadBit
  <2> DEFINE low == Low(v, w)
             own == {b \in low : ~Ones(k, b)}
             in == Shifted(own, p)
             out == {b \in word : Ones(p + k, b) \/ ~Ones(p, b)}
  <2>3. Written(r, m, v) = out \cup in
    BY <1>2, <2>1 DEF Written, out_bitfield_scalar_merge
  <2>3a. w <= 64 /\ (EndsWord(r) <=> p + k = 64)
    BY <1>1, <1>2, <2>1 DEF Reached, WordBits, EndsWord, Width
  <2> HIDE DEF word, o, w, k, p
  <2>4. low \in SUBSET Int /\ \A b \in Int : b \in low <=> 0 <= b /\ b < w /\ b \in v
    BY LowBit
  <2> HIDE DEF low
  <2>4a. own \in SUBSET Int
    BY <2>4
  <2>4b. ASSUME NEW b \in Int
         PROVE  b \in own => 0 <= b /\ b + p < w
    <3>1. CASE k < 64
      <4>1. b \in own => 0 <= b /\ ~(b >= k)
        BY <2>4, <3>1 DEF Ones
      <4> QED BY <1>1, <4>1
    <3>2. CASE ~(k < 64)
      <4>1. p = 0
        BY <1>1, <2>3a, <3>2
      <4> QED BY <1>1, <2>4, <4>1
    <3> QED BY <3>1, <3>2
  <2>4c. ASSUME ~EndsWord(r), NEW b \in Int
         PROVE  b \in own <=> 0 <= b /\ b < k /\ b \in v
    <3>1. k < 64 /\ p + k < 64 /\ k <= w
      BY <1>1, <2>3a, <2>4c
    <3>2. Ones(k, b) <=> b >= k
      BY <3>1 DEF Ones
    <3> QED BY <1>1, <2>4, <3>1, <3>2
  <2> HIDE DEF own
  <2>5. in \in SUBSET Int /\ \A c \in Int : c \in in <=> c - p \in own
    BY <1>1, <2>4a, ShiftedBit
  <2> HIDE DEF in
  <2>6. out \in SUBSET Int
    <3>1. \A b \in out : b \in Int
      BY <2>2
    <3> QED BY <3>1
  <2>7. ASSUME NEW c \in Int
        PROVE  /\ ~(p <= c /\ c < p + k) => (c \in out <=> 0 <= c /\ c < w /\ o + c \in m)
               /\ p <= c /\ c < p + k /\ ~EndsWord(r) => c \notin out
    <3>1. CASE c \notin Nat
      <4>1. c \notin out
        BY <2>2, <3>1
      <4> QED BY <1>1, <3>1, <4>1
    <3>2. CASE c \in Nat
      <4>1. p < 64 /\ (Ones(p, c) <=> c >= p)
        BY <1>1, <2>3a DEF Ones
      <4>2. CASE p + k < 64
        <5>1. Ones(p + k, c) <=> c >= p + k
          BY <4>2 DEF Ones
        <5>2. c \in out <=> c \in word /\ (c >= p + k \/ ~(c >= p))
          BY <4>1, <5>1
        <5> HIDE DEF out
        <5> QED BY <1>1, <2>2, <3>2, <5>2
      <4>3. CASE ~(p + k < 64)
        <5>1. EndsWord(r) /\ p + k = w
          BY <1>1, <2>3a, <4>3
        <5>2. ~(c >= p) => (c \in out <=> c \in word)
          BY <4>1
        <5>3. c >= w => c \notin out
          <6>1. c \in out => c \in word
            OBVIOUS
          <6> HIDE DEF out
          <6> QED BY <1>1, <2>2, <3>2, <6>1
        <5> HIDE DEF out
        <5> QED BY <1>1, <2>2, <3>2, <5>1, <5>2, <5>3
      <4> QED BY <4>2, <4>3
    <3> QED BY <3>1, <3>2
  <2> HIDE DEF out
  <2>8. ASSUME NEW c \in Int
        PROVE  IF p <= c /\ c < p + k THEN ~EndsWord(r) => (c \in Written(r, m, v) <=> c - p \in v)
               ELSE c \in Written(r, m, v) <=> 0 <= c /\ c < w /\ o + c \in m
    <3>1. c - p \in Int /\ (0 <= c - p <=> p <= c) /\ (c - p < k <=> c < p + k) /\ (c - p) + p = c
      BY <1>1
    <3>2. c \in in <=> c - p \in own
      BY <2>5
    <3>3. CASE p <= c /\ c < p + k
      BY <2>3, <2>4c, <2>7, <3>1, <3>2, <3>3
    <3>4. CASE ~(p <= c /\ c < p + k)
      <4>1. c \notin in
        <5>1. CASE EndsWord(r)
          <6>1. p + k = w
            BY <1>1, <2>3a, <5>1
          <6>2. c - p \in own => p <= c /\ c < w
            BY <2>4b, <3>1
          <6> QED BY <3>2, <3>4, <6>1, <6>2
        <5>2. CASE ~EndsWord(r)
          BY <2>4c, <3>1, <3>2, <3>4, <5>2
        <5> QED BY <5>1, <5>2
      <4> QED BY <2>3, <2>7, <3>4, <4>1
    <3> QED BY <3>3, <3>4
  <2>9. Written(r, m, v) \in SUBSET Int
    BY <2>3, <2>5, <2>6
  <2> QED BY <2>8, <2>9 DEF p, k, w, o
<1>3. CASE r.kind # "bits"
  <2>1. p = 0 /\ w = k /\ Written(r, m, v) = Low(v, k)
    BY <1>3 DEF Reached, Written, WordBits, Width
  <2> HIDE DEF w, k, p, o
  <2>2. ASSUME NEW c \in Int
        PROVE  c \in Low(v, k)
                 <=> IF p <= c /\ c < p + k THEN c - p \in v ELSE 0 <= c /\ c < w /\ o + c \in m
    <3>1. c - p = c /\ p + k = k
      BY <1>1, <2>1
    <3>2. c \in v => 0 <= c
      OBVIOUS
    <3> QED BY <1>1, <2>1, <3>1, <3>2 DEF Low
  <2>3. Low(v, k) \in SUBSET Int
    BY LowBit
  <2> QED BY <2>1, <2>2, <2>3 DEF p, k, w, o
<1> QED BY <1>2, <1>3

\* A store gives the member's own bits their new values, unless it ends a
\* 64-bit word, and changes no others.
LEMMA StoreBit ==
  ASSUME NEW r \in PlacedType, Reached(r), Width(r) > 0, NEW m \in SUBSET Nat, NEW v \in SUBSET Nat
  PROVE  /\ out_store(r, m, v) \in SUBSET Nat
         /\ \A b \in Nat : IF Begin(r) <= b /\ b < End(r)
                           THEN ~EndsWord(r) => (b \in out_store(r, m, v) <=> b - Begin(r) \in v)
                           ELSE b \in out_store(r, m, v) <=> b \in m
<1> DEFINE p == r.bitoff
           w == WordBits(r)
           k == Width(r)
           o == 8 * r.off
           wr == Written(r, m, v)
           gone == Shifted(0 .. w - 1, o)
           new == Shifted(wr, o)
<1>1. p \in Nat /\ w \in Nat /\ k \in Nat /\ k > 0 /\ p + k <= w /\ o \in Nat
      /\ Begin(r) = o + p /\ End(r) = o + p + k
  BY ReachedTypes
<1>2. wr \in SUBSET Int
      /\ \A c \in Int : IF p <= c /\ c < p + k THEN ~EndsWord(r) => (c \in wr <=> c - p \in v)
                        ELSE c \in wr <=> 0 <= c /\ c < w /\ o + c \in m
  BY WrittenBit
<1>3. out_store(r, m, v) = (m \ gone) \cup new
  BY DEF out_store
<1> HIDE DEF w, k, p, o, wr
<1>4. \A b \in Int : b \in gone <=> o <= b /\ b < o + w
  <2>1. (0 .. w - 1) \in SUBSET Int /\ o \in Int
    BY <1>1
  <2>2. \A b \in Int : b \in gone <=> b - o \in 0 .. w - 1
    BY <2>1, ShiftedBit
  <2> HIDE DEF gone
  <2> QED BY <1>1, <2>2
<1>5. new \in SUBSET Int /\ \A b \in Int : b \in new <=> b - o \in wr
  <2>1. o \in Int
    BY <1>1
  <2> QED BY <1>2, <2>1, ShiftedBit
<1> HIDE DEF gone, new
<1>6. ASSUME NEW b \in Int
      PROVE  IF o + p <= b /\ b < o + p + k THEN ~EndsWord(r) => (b \in new <=> b - (o + p) \in v)
             ELSE b \in new <=> o <= b /\ b < o + w /\ b \in m
  <2> DEFINE c == b - o
  <2>1. /\ c \in Int /\ (p <= c <=> o + p <= b) /\ (c < p + k <=> b < o + p + k)
        /\ c - p = b - (o + p) /\ (0 <= c <=> o <= b) /\ (c < w <=> b < o + w) /\ o + c = b
    BY <1>1
  <2>2. b \in new <=> c \in wr
    BY <1>5
  <2> HIDE DEF c
  <2> QED BY <1>2, <2>1, <2>2
<1>7. ASSUME NEW b \in Nat
      PROVE  IF o + p <= b /\ b < o + p + k
             THEN ~EndsWord(r) => (b \in out_store(r, m, v) <=> b - (o + p) \in v)
             ELSE b \in out_store(r, m, v) <=> b \in m
  <2>1. b \in out_store(r, m, v) <=> (b \in m /\ ~(o <= b /\ b < o + w)) \/ b \in new
    BY <1>3, <1>4
  <2>2. o + p <= b /\ b < o + p + k => o <= b /\ b < o + w
    BY <1>1
  <2> QED BY <1>6, <2>1, <2>2
<1>8. out_store(r, m, v) \in SUBSET Nat
  <2>1. ASSUME NEW b \in new PROVE b \in Nat
    <3>1. b \in Int /\ (o <= b \/ b \in m)
      BY <1>1, <1>5, <1>6
    <3> QED BY <1>1, <3>1
  <2> QED BY <1>3, <2>1
<1> QED BY <1>1, <1>7, <1>8

\* The value of a member that v is converted to, bit by bit.
LEMMA ConvertedBit ==
  ASSUME NEW r \in PlacedType, Reached(r), Width(r) > 0, NEW v \in SUBSET Nat, NEW b \in Nat
  PROVE  b \in Converted(r, v)
           <=> \/ b < Width(r) /\ b \in v
               \/ /\ r.kind = "bits" /\ r.signed /\ Width(r) - 1 \in v
                  /\ Width(r) <= b /\ b < 8 * r.size
<1> DEFINE k == Width(r)
           t == Low(v, k)
           signed == r.kind = "bits" /\ r.signed /\ k - 1 \in t
<1>1. k \in Nat /\ k > 0 /\ 8 * r.size \in Nat
  BY ReachedTypes
<1>2. Converted(r, v) = IF signed THEN t \cup (k .. 8 * r.size - 1) ELSE t
  BY DEF Converted
<1> HIDE DEF k
<1>3. \A c \in Nat : c \in t <=> c < k /\ c \in v
  BY DEF Low
<1>4. k - 1 \in t <=> k - 1 \in v
  <2>1. k - 1 \in Nat /\ k - 1 < k
    BY <1>1
  <2> QED BY <1>3, <2>1
<1>5. b \in k .. 8 * r.size - 1 <=> k <= b /\ b < 8 * r.size
  BY <1>1
<1> HIDE DEF t
<1>6. b \in Converted(r, v) <=> b \in t \/ (signed /\ b \in k .. 8 * r.size - 1)
  BY <1>2
<1> QED BY <1>3, <1>4, <1>5, <1>6 DEF k

\* The member's bits in m are the lowest of v.
BitsAre(r, m, v) == \A b \in 0 .. Width(r) - 1 : Begin(r) + b \in m <=> b \in v

\* Then it reads as the value C gives it when v is assigned to it.
LEMMA AgreesOK ==
  ASSUME NEW r \in PlacedType, Reached(r), Width(r) > 0, ~WholeWord(r), NEW m \in SUBSET Nat, NEW v \in SUBSET Nat,
         BitsAre(r, m, v)
  PROVE  Agrees(r, out_deref(r, m), Converted(r, v))
<1> DEFINE k == Width(r)
           x == out_deref(r, m)
           g == Converted(r, v)
           n == IF r.kind = "bits" /\ r.msigned = r.signed
                THEN 8 * (IF r.master < r.size THEN r.master ELSE r.size) ELSE k
<1>1. /\ k \in Nat /\ k > 0 /\ r.size \in Nat /\ r.master \in Nat /\ WordBits(r) \in Nat /\ Begin(r) \in Nat
      /\ r.msigned \in BOOLEAN /\ r.signed \in BOOLEAN /\ (r.kind = "bits" => k = r.bits)
      /\ (r.kind = "bits" => WordBits(r) = 8 * r.master)
  BY ReachedTypes DEF Width, WordBits
<1>2. /\ x \in SUBSET Nat
      /\ \A b \in Nat : b \in x
                          <=> \/ b < k /\ Begin(r) + b \in m
                              \/ /\ r.kind = "bits" /\ r.msigned /\ Begin(r) + (r.bits - 1) \in m
                                 /\ r.bits <= b /\ b < WordBits(r)
  BY DerefBit
<1>3. \A b \in Nat : b \in g
        <=> \/ b < k /\ b \in v
            \/ r.kind = "bits" /\ r.signed /\ k - 1 \in v /\ k <= b /\ b < 8 * r.size
  BY ConvertedBit
<1>4. \A b \in Nat : b < k => (Begin(r) + b \in m <=> b \in v)
  BY <1>1 DEF BitsAre
<1>5. k - 1 \in Nat /\ (Begin(r) + (k - 1) \in m <=> k - 1 \in v)
  <2>1. k - 1 \in Nat /\ k - 1 < k
    BY <1>1
  <2> QED BY <1>4, <2>1
<1>6. n \in Nat /\ (r.kind = "bits" /\ r.msigned = r.signed => n <= WordBits(r) /\ n <= 8 * r.size)
      /\ (~(r.kind = "bits" /\ r.msigned = r.signed) => n = k)
  BY <1>1
<1>7. Agrees(r, x, g) <=> Low(x, n) = Low(g, n)
  BY DEF Agrees
<1>8. g \in SUBSET Nat
  <2>1. \A b \in g : b \in Nat
    <3>1. g \subseteq v \cup (k .. 8 * r.size - 1)
      BY DEF Converted, Low
    <3> HIDE DEF g, k
    <3> QED BY <1>1, <3>1
  <2> HIDE DEF g
  <2> QED BY <2>1
<1> HIDE DEF x, g, n, k
<1>9. ASSUME NEW b \in Nat, b < n PROVE b \in x <=> b \in g
  <2>1. CASE r.kind # "bits"
    BY <1>2, <1>3, <1>4, <1>6, <1>9, <2>1
  <2>2. CASE r.kind = "bits" /\ r.msigned # r.signed
    <3>1. b < k
      BY <1>6, <1>9, <2>2
    <3>2. ~(k <= b)
      BY <1>1, <3>1
    <3> QED BY <1>1, <1>2, <1>3, <1>4, <2>2, <3>1, <3>2
  <2>3. CASE r.kind = "bits" /\ r.msigned = r.signed
    <3>1. b < WordBits(r) /\ b < 8 * r.size
      BY <1>1, <1>6, <1>9, <2>3
    <3>2. b \in x <=> (b < k /\ b \in v) \/ (r.signed /\ k - 1 \in v /\ k <= b)
      BY <1>1, <1>2, <1>4, <1>5, <2>3, <3>1
    <3>3. b \in g <=> (b < k /\ b \in v) \/ (r.signed /\ k - 1 \in v /\ k <= b)
      BY <1>3, <2>3, <3>1
    <3> QED BY <3>2, <3>3
  <2> QED BY <2>1, <2>2, <2>3
<1>10. Low(x, n) = Low(g, n)
  BY <1>2, <1>8, <1>9 DEF Low
<1> QED BY <1>7, <1>10 DEF x, g

-----------------------------------------------------------------------------
(* The layout puts every bit-field inside the word of its group, and the    *)
(* record is as large as its members need.                                  *)

GroupWord ==
  bitfield.cur # 0 => bitfield.master \in {1, 2, 4, 8} /\ bitfield.limit = 8 * bitfield.master
Sized == status = "folded" => (prim = "struct" => offset <= size)
WordInv == (\A i \in 1..Len(placed) : Reached(placed[i])) /\ GroupWord /\ Sized

LEMMA AddReached ==
  ASSUME LayoutInv, WordInv, NEW r \in PlacedType, Reached(r), placed' = Append(placed, r)
  PROVE  \A i \in 1..Len(placed') : Reached(placed'[i])
<1>1. placed \in Seq(PlacedType)
  BY DEF LayoutInv, TypeOK
<1>2. /\ Len(placed) \in Nat /\ Len(placed') = Len(placed) + 1 /\ placed'[Len(placed) + 1] = r
      /\ \A i \in 1..Len(placed) : placed'[i] = placed[i]
  BY <1>1, AppendFacts
<1>3. ASSUME NEW i \in 1..Len(placed') PROVE i \in 1..Len(placed) \/ i = Len(placed) + 1
  BY <1>2
<1>4. ASSUME NEW i \in 1..Len(placed) PROVE Reached(placed'[i])
  BY <1>2 DEF WordInv
<1>5. Reached(placed'[Len(placed) + 1])
  BY <1>2
<1> QED BY <1>3, <1>4, <1>5

\* Taking bits from a group leaves its word.
LEMMA TakeWord ==
  ASSUME NEW bits \in Nat, NEW bf \in GroupType, NEW off \in Nat, TakeBits(bits, bf, off),
         bf.master \in {1, 2, 4, 8} /\ bf.limit = 8 * bf.master
  PROVE  GroupWord'
<1> DEFINE c == IF bf.cur + bits = bf.limit THEN 0 ELSE bf.cur + bits
<1>1. bitfield' = [bf EXCEPT !.cur = c]
  BY DEF TakeBits
<1> HIDE DEF c
<1>2. bitfield'.master = bf.master /\ bitfield'.limit = bf.limit
  BY <1>1 DEF GroupType
<1> QED BY <1>2 DEF GroupWord

LEMMA WordStep ==
  ASSUME LayoutInv, LayoutInv', WordInv, [Next]_layoutVars
  PROVE  WordInv'
<1>1. /\ offset \in Nat /\ bitfield \in GroupType /\ bitfield.cur \in Nat /\ bitfield.limit \in Nat
      /\ placed \in Seq(PlacedType) /\ NoBitfield \in GroupType
  BY DEF LayoutInv, TypeOK, GroupType, NoBitfield
<1>2. ASSUME NEW m \in Members, ZeroWidth(m) PROVE WordInv'
  <2> DEFINE r == Placed(m, [off |-> offset, bitoff |-> bitfield.cur, bf |-> NoBitfield])
  <2>1. r \in PlacedType /\ r.kind = "bits" /\ r.bits = 0
    BY <1>1, <1>2, PlacedOK DEF Placed, ZeroWidth
  <2>2. placed' = Append(placed, r) /\ Sized'
    BY <1>2 DEF ZeroWidth, Put, Sized, More
  <2>3. Reached(r)
    BY <2>1 DEF Reached
  <2>4. GroupWord'
    <3>1. CASE bitfield.cur # 0
      BY <1>1, <1>2, <3>1, TakeWord DEF ZeroWidth, WordInv, GroupWord
    <3>2. CASE bitfield.cur = 0
      <4> DEFINE c == IF bitfield.cur + 0 = bitfield.limit THEN 0 ELSE bitfield.cur + 0
      <4>1. bitfield' = [bitfield EXCEPT !.cur = c]
        BY <1>2 DEF ZeroWidth, TakeBits
      <4>2. c = 0
        BY <3>2
      <4> HIDE DEF c
      <4>3. bitfield'.cur = 0
        BY <1>1, <4>1, <4>2 DEF GroupType
      <4> QED BY <4>3 DEF GroupWord
    <3> QED BY <3>1, <3>2
  <2> HIDE DEF r
  <2> QED BY <2>1, <2>2, <2>3, <2>4, AddReached DEF WordInv
<1>3. ASSUME NEW m \in Members, StartGroup(m, GroupFrom) PROVE WordInv'
  <2> DEFINE unit == decl_type_for_bitfield(m.bits)
             first == pack_to_align(GroupFrom, unit)
             bf == NewGroup(m, first)
             r == Placed(m, [off |-> first, bitoff |-> 0, bf |-> bf])
  <2>1. /\ m.bits \in Nat /\ m.kind = "bits" /\ m.bits > 0 /\ m.size \in {1, 2, 4, 8}
        /\ m.bits <= 8 * m.size /\ m.signed \in BOOLEAN
    BY <1>3, LayoutAssumption DEF StartGroup
  <2>2. unit \in {1, 2, 4, 8} /\ unit \in Powers
    BY <2>1, UnitSize DEF Powers
  <2>3. GroupFrom \in Nat
    BY <1>1, FinishUp DEF GroupFrom
  <2>4. first \in Nat
    BY <2>2, <2>3, PackUp
  <2>5. placed' = Append(placed, r) /\ Sized' /\ TakeBits(m.bits, bf, first + unit)
    BY <1>3 DEF StartGroup, Put, Sized, More
  <2> HIDE DEF first, unit
  <2>6. bf.master = m.size /\ bf.limit = 8 * m.size /\ bf \in GroupType
    <3>1. Len(placed) + 1 \in Nat
      BY <1>1
    <3> QED BY <2>1, <2>2, <2>4, <3>1 DEF NewGroup, GroupType, unit
  <2> HIDE DEF bf
  <2>7. /\ r \in PlacedType /\ r.kind = "bits" /\ r.bits = m.bits /\ r.bitoff = 0
        /\ r.master = m.size /\ r.size = m.size
    BY <2>1, <2>4, <2>6, PlacedOK DEF Placed
  <2>8. Reached(r)
    BY <2>1, <2>7 DEF Reached
  <2>9. GroupWord'
    <3>1. first + unit \in Nat
      BY <2>2, <2>4
    <3> QED BY <2>1, <2>5, <2>6, <3>1, TakeWord
  <2> HIDE DEF r
  <2> QED BY <2>5, <2>7, <2>8, <2>9, AddReached DEF WordInv
<1>4. ASSUME NEW m \in Members, JoinGroup(m) PROVE WordInv'
  <2> DEFINE r == Placed(m, [off |-> bitfield.first, bitoff |-> bitfield.cur, bf |-> bitfield])
  <2>1. /\ m.bits \in Nat /\ m.kind = "bits" /\ m.bits > 0 /\ m.bits <= 8 * m.size
        /\ bitfield.cur # 0 /\ bitfield.cur + m.bits <= bitfield.limit
    BY <1>1, <1>4, LayoutAssumption DEF JoinGroup, NeedsGroup
  <2>2. placed' = Append(placed, r) /\ Sized' /\ TakeBits(m.bits, bitfield, offset)
    BY <1>4 DEF JoinGroup, Put, Sized, More
  <2>3. bitfield.master \in {1, 2, 4, 8} /\ bitfield.limit = 8 * bitfield.master
    BY <2>1 DEF WordInv, GroupWord
  <2>4. /\ r \in PlacedType /\ r.kind = "bits" /\ r.bits = m.bits /\ r.bitoff = bitfield.cur
        /\ r.master = bitfield.master /\ r.size = m.size
    <3>1. bitfield.first \in Nat
      BY <1>1 DEF GroupType
    <3> QED BY <1>1, <2>1, <3>1, PlacedOK DEF Placed
  <2>5. Reached(r)
    BY <2>1, <2>3, <2>4 DEF Reached
  <2>6. GroupWord'
    BY <1>1, <2>1, <2>2, <2>3, TakeWord
  <2> HIDE DEF r
  <2> QED BY <2>2, <2>4, <2>5, <2>6, AddReached DEF WordInv
<1>5. ASSUME NEW m \in Members, NEW sz, NEW al \in Powers, PlaceAt(m, sz, al), m.kind # "bits", status' # "folded"
      PROVE  WordInv'
  <2>1. PICK off \in Nat : placed' = Append(placed, Placed(m, [off |-> off, bitoff |-> 0, bf |-> NoBitfield]))
    <3>1. pack_to_align(offset, al) \in Nat /\ 0 \in Nat
      BY <1>1, PackUp
    <3> QED BY <1>5, <3>1 DEF PlaceAt, Put
  <2> DEFINE r == Placed(m, [off |-> off, bitoff |-> 0, bf |-> NoBitfield])
  <2>2. r \in PlacedType /\ r.kind # "bits" /\ r.bitoff = 0
    BY <1>1, <1>5, PlacedOK DEF Placed
  <2>3. Reached(r)
    BY <2>2 DEF Reached
  <2>4. GroupWord'
    <3>1. CASE bitfield' = bitfield
      BY <3>1 DEF WordInv, GroupWord
    <3>2. CASE bitfield' = [bitfield EXCEPT !.cur = 0]
      <4>1. bitfield'.cur = 0
        BY <1>1, <3>2 DEF GroupType
      <4> QED BY <4>1 DEF GroupWord
    <3> QED BY <1>5, <3>1, <3>2 DEF PlaceAt
  <2>5. Sized'
    BY <1>5 DEF Sized
  <2> HIDE DEF r
  <2> QED BY <2>1, <2>2, <2>3, <2>4, <2>5, AddReached DEF WordInv, r
<1>6. ASSUME NEW m \in Members, Normal(m) \/ Flexible(m) PROVE WordInv'
  <2> DEFINE al == IF packed \/ m.packed THEN 1 ELSE m.align
  <2>1. al \in Powers /\ m.kind # "bits" /\ status' # "folded"
        /\ (PlaceAt(m, m.size, al) \/ PlaceAt(m, 0, al))
    BY <1>6, MemberType DEF Powers, Normal, Flexible, More
  <2> HIDE DEF al
  <2> QED BY <1>5, <2>1
<1>7. CASE Finish
  <2> DEFINE x == pack_to_align(offset, align_max)
  <2>1. /\ placed' = placed /\ bitfield' = bitfield /\ offset' = offset /\ prim' = prim
        /\ (prim = "struct" => size' = pack_to_align(x, align'))
    BY <1>7 DEF Finish
  <2>2. align_max \in Powers /\ align' \in Powers
    BY DEF LayoutInv, TypeOK
  <2>3. x \in Nat /\ x >= offset
    BY <1>1, <2>2, PackUp
  <2> HIDE DEF x
  <2>4. pack_to_align(x, align') \in Nat /\ pack_to_align(x, align') >= x
    BY <2>2, <2>3, PackUp
  <2>5. Sized'
    BY <1>1, <2>1, <2>3, <2>4 DEF Sized
  <2> QED BY <2>1, <2>5 DEF WordInv, GroupWord
<1>8. CASE (\E m \in Members : Refuse(m) \/ Ignore(m)) \/ UNCHANGED layoutVars
  <2>1. /\ placed' = placed /\ bitfield' = bitfield /\ offset' = offset /\ prim' = prim /\ size' = size
        /\ (status' = "error" \/ status' = status)
    BY <1>8 DEF Refuse, Ignore, layoutVars
  <2> QED BY <2>1 DEF WordInv, GroupWord, Sized
<1> QED BY <1>2, <1>3, <1>4, <1>6, <1>7, <1>8 DEF Next, AddMember

LEMMA InitWord == Init => WordInv
BY DEF Init, WordInv, GroupWord, Sized, NoBitfield

-----------------------------------------------------------------------------
(* Objects: every member whose value is known has that value's bits.        *)

Fits == \A k \in Indices : ~Overruns(placed[k])

\* Member i has the bits of the value it was given.
HasValue(i) ==
  \E v \in SUBSET Nat : held[i] = Converted(placed[i], v) /\ BitsAre(placed[i], mem, v)

After == {b \in mem : b >= 8 * size}

LiveInv ==
  /\ mem \in SUBSET Nat /\ known \subseteq Indices /\ DOMAIN held = Indices
  /\ Fits => /\ \A i \in known : Width(placed[i]) > 0 /\ ~EndsWord(placed[i]) => HasValue(i)
             /\ prim = "struct" => After \in {{}, 8 * size .. 8 * size + 63}

ObjectInv ==
  /\ phase # "none" => status = "folded"
  /\ phase = "live" => LiveInv

LEMMA AllocateLive ==
  ASSUME LayoutInv, WordInv, NEW fill \in BOOLEAN, Allocate(fill)
  PROVE  LiveInv'
<1>1. /\ placed \in Seq(PlacedType) /\ size \in Nat /\ placed' = placed /\ size' = size /\ prim' = prim
      /\ \A i \in Indices : placed[i] \in PlacedType /\ Reached(placed[i])
  BY DEF LayoutInv, TypeOK, WordInv, Indices, Allocate, layoutVars
<1>2. Indices' = Indices
  BY <1>1 DEF Indices
<1>3. /\ mem' = IF fill THEN 0 .. 8 * size + 63 ELSE {}
      /\ held' = [i \in Indices |-> Converted(placed[i], IF fill THEN 0 .. 8 * placed[i].size - 1 ELSE {})]
      /\ known' = {i \in Indices : End(placed[i]) <= 8 * size}
  BY DEF Allocate
<1>4. mem' \in SUBSET Nat /\ known' \subseteq Indices' /\ DOMAIN held' = Indices'
  BY <1>1, <1>2, <1>3
<1>5. ASSUME NEW i \in known', Width(placed[i]) > 0 PROVE HasValue(i)'
  <2> DEFINE r == placed[i]
             v == IF fill THEN 0 .. 8 * r.size - 1 ELSE {}
  <2>1. i \in Indices /\ r \in PlacedType /\ Reached(r) /\ End(r) <= 8 * size /\ held'[i] = Converted(r, v)
    BY <1>1, <1>3, <1>5
  <2>2. v \in SUBSET Nat
    BY <2>1 DEF PlacedType
  <2>3. BitsAre(r, mem', v)
    <3> SUFFICES ASSUME NEW b \in 0 .. Width(r) - 1 PROVE Begin(r) + b \in mem' <=> b \in v
      BY DEF BitsAre
    <3>1. /\ Begin(r) \in Nat /\ Width(r) \in Nat /\ End(r) = Begin(r) + Width(r) /\ r.size \in Nat
          /\ Width(r) <= 8 * r.size
      <4>1. Begin(r) \in Nat /\ Width(r) \in Nat /\ End(r) = Begin(r) + Width(r) /\ r.size \in Nat
        BY <1>5, <2>1, ReachedTypes
      <4> QED BY <1>5, <2>1, <4>1 DEF Reached, Width
    <3>2. Begin(r) + b \in 0 .. 8 * size + 63 /\ b \in 0 .. 8 * r.size - 1
      <4>1. /\ b \in Nat /\ b < Width(r) /\ Begin(r) \in Nat /\ Width(r) \in Nat /\ r.size \in Nat /\ size \in Nat
            /\ Begin(r) + Width(r) <= 8 * size /\ Width(r) <= 8 * r.size
        BY <1>1, <2>1, <3>1
      <4> HIDE DEF r
      <4> QED BY ONLY <4>1
    <3>3. CASE fill
      <4>1. mem' = 0 .. 8 * size + 63 /\ v = 0 .. 8 * r.size - 1
        BY <1>3, <3>3
      <4> QED BY <3>2, <4>1
    <3>4. CASE ~fill
      <4>1. mem' = {} /\ v = {}
        BY <1>3, <3>4
      <4> QED BY <4>1
    <3> QED BY <3>3, <3>4
  <2> HIDE DEF v
  <2> QED BY <1>1, <2>1, <2>2, <2>3 DEF HasValue, BitsAre, Begin, Width
<1>6. After' \in {{}, 8 * size .. 8 * size + 63}
  <2>1. After' = {b \in mem' : b >= 8 * size}
    BY <1>1 DEF After
  <2>2. CASE fill
    <3>1. mem' = 0 .. 8 * size + 63
      BY <1>3, <2>2
    <3>2. {b \in 0 .. 8 * size + 63 : b >= 8 * size} = 8 * size .. 8 * size + 63
      BY <1>1
    <3> QED BY <2>1, <3>1, <3>2
  <2>3. CASE ~fill
    BY <1>3, <2>1, <2>3
  <2> QED BY <2>2, <2>3
<1>7. ASSUME NEW i \in known' PROVE Width(placed'[i]) > 0 => HasValue(i)'
  BY <1>1, <1>5
<1> QED BY <1>1, <1>4, <1>6, <1>7 DEF LiveInv

LEMMA StoreLive ==
  ASSUME LayoutInv, WordInv, ObjectInv, NEW i \in Indices, NEW v \in Values, Store(i, v)
  PROVE  LiveInv'
<1> DEFINE r == placed[i]
<1>1. /\ placed \in Seq(PlacedType) /\ size \in Nat /\ offset \in Nat /\ prim \in {"struct", "union"}
      /\ placed' = placed /\ size' = size /\ prim' = prim
      /\ \A j \in Indices : placed[j] \in PlacedType /\ Reached(placed[j])
  BY LayoutAssumption DEF LayoutInv, TypeOK, WordInv, Indices, Store, layoutVars
<1>2. Indices' = Indices /\ Fits' = Fits /\ Indices \subseteq Nat
  BY <1>1 DEF Indices, Fits, Overruns
<1>3. LiveInv /\ status = "folded"
  BY DEF ObjectInv, Store
<1>4. /\ mem' = out_store(r, mem, v) /\ held' = [held EXCEPT ![i] = Converted(r, v)]
      /\ known' = IF prim = "union" THEN {i} ELSE known
      /\ Width(r) > 0 /\ v \in SUBSET Nat
  BY ObjectAssumption DEF Store
<1>5. /\ mem \in SUBSET Nat /\ known \subseteq Indices /\ DOMAIN held = Indices
      /\ Fits => /\ \A j \in known : Width(placed[j]) > 0 /\ ~EndsWord(placed[j]) => HasValue(j)
                 /\ prim = "struct" => After \in {{}, 8 * size .. 8 * size + 63}
  BY <1>3 DEF LiveInv
<1>6. r \in PlacedType /\ Reached(r) /\ Begin(r) \in Nat /\ Width(r) \in Nat /\ End(r) = Begin(r) + Width(r)
  BY <1>1, <1>4, ReachedTypes
<1>7. /\ mem' \in SUBSET Nat
      /\ \A b \in Nat : IF Begin(r) <= b /\ b < End(r) THEN ~EndsWord(r) => (b \in mem' <=> b - Begin(r) \in v)
                        ELSE b \in mem' <=> b \in mem
  BY <1>4, <1>5, <1>6, StoreBit
<1>8. known' \subseteq Indices' /\ DOMAIN held' = Indices'
  BY <1>2, <1>4, <1>5
<1>9. held'[i] = Converted(r, v) /\ \A j \in Indices : j # i => held'[j] = held[j]
  BY <1>4, <1>5
<1>10. ASSUME ~EndsWord(r) PROVE HasValue(i)'
  <2>1. BitsAre(r, mem', v)
    <3> SUFFICES ASSUME NEW b \in 0 .. Width(r) - 1 PROVE Begin(r) + b \in mem' <=> b \in v
      BY DEF BitsAre
    <3>1. Begin(r) + b \in Nat /\ Begin(r) <= Begin(r) + b /\ Begin(r) + b < End(r)
          /\ (Begin(r) + b) - Begin(r) = b
      BY <1>6
    <3> QED BY <1>7, <1>10, <3>1
  <2>2. placed'[i] = r
    BY <1>1
  <2> HIDE DEF r
  <2> QED BY <1>4, <1>9, <2>1, <2>2 DEF HasValue, BitsAre, Begin, Width
<1>11. ASSUME Fits, prim = "struct", NEW j \in known, j # i, Width(placed[j]) > 0, ~EndsWord(placed[j])
       PROVE  HasValue(j)'
  <2> DEFINE q == placed[j]
  <2>1. j \in Indices /\ q \in PlacedType /\ Reached(q) /\ Begin(q) \in Nat /\ Width(q) \in Nat
        /\ End(q) = Begin(q) + Width(q)
    BY <1>1, <1>5, <1>11, ReachedTypes
  <2>2. PICK u \in SUBSET Nat : held[j] = Converted(q, u) /\ BitsAre(q, mem, u)
    BY <1>5, <1>11 DEF HasValue
  <2>3. End(r) <= Begin(q) \/ End(q) <= Begin(r)
    <3>1. ~Overruns(r) /\ ~Overruns(q)
      BY <1>11, <2>1 DEF Fits
    <3>2. i < j \/ j < i
      BY <1>2, <1>11, <2>1
    <3>3. MembersApart /\ Width(r) > 0 /\ Width(q) > 0
      BY <1>4, <1>11 DEF LayoutInv
    <3> QED BY <1>11, <2>1, <3>1, <3>2, <3>3 DEF MembersApart, Indices
  <2>4. BitsAre(q, mem', u)
    <3> SUFFICES ASSUME NEW b \in 0 .. Width(q) - 1 PROVE Begin(q) + b \in mem' <=> b \in u
      BY DEF BitsAre
    <3>1. Begin(q) + b \in Nat /\ ~(Begin(r) <= Begin(q) + b /\ Begin(q) + b < End(r))
      BY <1>6, <2>1, <2>3
    <3>2. Begin(q) + b \in mem <=> b \in u
      BY <2>2 DEF BitsAre
    <3> QED BY <1>7, <3>1, <3>2
  <2>5. placed'[j] = q /\ held'[j] = Converted(q, u)
    BY <1>1, <1>9, <1>11, <2>1, <2>2
  <2> HIDE DEF q, r
  <2> QED BY <2>4, <2>5 DEF HasValue, BitsAre, Begin, Width
<1>12. ASSUME Fits, prim = "struct" PROVE After' = After
  <2>1. End(r) <= 8 * size
    <3>1. ~Overruns(r)
      BY <1>12 DEF Fits
    <3>2. End(r) <= 8 * offset
      BY <1>4, <1>12, <3>1 DEF LayoutInv, Behind, Occupies, Indices
    <3>3. offset <= size
      BY <1>3, <1>12 DEF WordInv, Sized
    <3> QED BY <1>1, <1>6, <3>2, <3>3
  <2>2. After' = {b \in mem' : b >= 8 * size}
    BY <1>1 DEF After
  <2>3. ASSUME NEW b \in Nat, b >= 8 * size PROVE b \in mem' <=> b \in mem
    <3>1. ~(b < End(r))
      BY <1>1, <1>6, <2>1, <2>3
    <3> QED BY <1>7, <3>1
  <2> HIDE DEF r
  <2> QED BY <1>5, <1>7, <2>2, <2>3 DEF After
<1>13. ASSUME Fits, NEW j \in known', Width(placed[j]) > 0, ~EndsWord(placed[j]) PROVE HasValue(j)'
  <2>1. CASE j = i
    BY <1>10, <1>13, <2>1
  <2>2. CASE j # i
    <3>1. prim = "struct" /\ j \in known
      BY <1>1, <1>4, <1>13, <2>2
    <3> QED BY <1>11, <1>13, <2>2, <3>1
  <2> QED BY <2>1, <2>2
<1>14. ASSUME Fits', prim' = "struct" PROVE After' \in {{}, 8 * size' .. 8 * size' + 63}
  BY <1>1, <1>2, <1>5, <1>12, <1>14
<1>15. ASSUME Fits', NEW j \in known' PROVE Width(placed[j])' > 0 /\ ~EndsWord(placed[j])' => HasValue(j)'
  <2>1. Width(placed[j])' = Width(placed[j]) /\ EndsWord(placed[j])' = EndsWord(placed[j])
    BY <1>1 DEF Width, EndsWord
  <2> QED BY <1>2, <1>13, <1>15, <2>1
<1> QED BY <1>7, <1>8, <1>14, <1>15 DEF LiveInv

LEMMA ObjectStep ==
  ASSUME LayoutInv, WordInv, ObjectInv, [ObjectNext]_vars
  PROVE  ObjectInv'
<1>1. CASE Next /\ UNCHANGED objectVars
  <2>1. status \in {"folding", "last"}
    BY <1>1 DEF Next, AddMember, ZeroWidth, StartGroup, JoinGroup, Normal, Flexible, Refuse, Ignore, More, Finish
  <2>2. phase = "none" /\ phase' = phase
    BY <1>1, <2>1 DEF ObjectInv, objectVars
  <2> QED BY <2>2 DEF ObjectInv
<1>2. ASSUME NEW fill \in BOOLEAN, Allocate(fill) PROVE ObjectInv'
  <2>1. LiveInv'
    BY <1>2, AllocateLive
  <2>2. status' = "folded"
    BY <1>2 DEF Allocate, layoutVars
  <2> QED BY <2>1, <2>2 DEF ObjectInv
<1>3. ASSUME NEW i \in Indices, NEW v \in Values, Store(i, v) PROVE ObjectInv'
  <2>1. LiveInv'
    BY <1>3, StoreLive
  <2>2. status' = "folded"
    BY <1>3 DEF Store, layoutVars, ObjectInv
  <2> QED BY <2>1, <2>2 DEF ObjectInv
<1>4. ASSUME (\E v \in Values : StartImage(v)) \/ EmitMember \/ EmitTail \/ (\E i \in Indices : EmitUnion(i))
      PROVE  ObjectInv'
  <2>1. status' = status /\ phase' # "live" /\ status = "folded"
    BY <1>4 DEF StartImage, EmitMember, EmitTail, EmitUnion, layoutVars, ObjectInv
  <2> QED BY <2>1 DEF ObjectInv
<1>5. CASE UNCHANGED vars
  <2>1. /\ placed' = placed /\ size' = size /\ prim' = prim /\ status' = status
        /\ phase' = phase /\ mem' = mem /\ held' = held /\ known' = known
    BY <1>5 DEF vars, layoutVars, objectVars
  <2> QED BY <2>1 DEF ObjectInv, LiveInv, Indices, Fits, Overruns, After, HasValue, BitsAre, Begin, Width, EndsWord
<1> QED BY <1>1, <1>2, <1>3, <1>4, <1>5 DEF ObjectNext

LEMMA LiveIsEnough ==
  ASSUME LayoutInv, WordInv, ObjectInv
  PROVE  HoldsWhatWasStored
<1> SUFFICES ASSUME phase = "live", Fits PROVE HoldsWhatWasStored
  BY DEF HoldsWhatWasStored, Fits
<1>1. LiveInv
  BY DEF ObjectInv
<1>2. ASSUME NEW i \in known, Width(placed[i]) > 0, ~EndsWord(placed[i])
      PROVE  Agrees(placed[i], out_deref(placed[i], mem), held[i])
  <2>1. i \in Indices /\ mem \in SUBSET Nat /\ HasValue(i)
    BY <1>1, <1>2 DEF LiveInv
  <2>2. placed[i] \in PlacedType /\ Reached(placed[i])
    BY <2>1 DEF LayoutInv, TypeOK, WordInv, Indices
  <2>3. PICK v \in SUBSET Nat : held[i] = Converted(placed[i], v) /\ BitsAre(placed[i], mem, v)
    BY <2>1 DEF HasValue
  <2>4. ~WholeWord(placed[i])
    BY <1>2, <2>2 DEF WholeWord, EndsWord, Reached, PlacedType
  <2> QED BY <1>2, <2>1, <2>2, <2>3, <2>4, AgreesOK
<1>3. prim = "struct" => {b \in mem : b >= 8 * size} \in {{}, 8 * size .. 8 * size + 63}
  BY <1>1 DEF LiveInv, After
<1> QED BY <1>2, <1>3 DEF HoldsWhatWasStored

\* For every record without a group that outgrew its unit, and every sequence
\* of stores of any values: a member reads as what was last stored to it,
\* whatever is stored to the others, also through the word it shares with
\* them, and nothing behind a struct changes.  A bit-field that ends a 64-bit
\* word, whose masks are undefined, counts among the others only: whatever the
\* build makes of -1UL << 64, it is not said to hold what was stored to it.
THEOREM StoresHold == ObjectSpec => []HoldsWhatWasStored
<1>1. ObjectInit => WordInv /\ ObjectInv
  BY InitWord DEF ObjectInit, ObjectInv
<1>2. LayoutInv /\ LayoutInv' /\ WordInv /\ ObjectInv /\ [ObjectNext]_vars => WordInv' /\ ObjectInv'
  <2> SUFFICES ASSUME LayoutInv, LayoutInv', WordInv, ObjectInv, [ObjectNext]_vars PROVE WordInv' /\ ObjectInv'
    OBVIOUS
  <2>1. [Next]_layoutVars
    BY DEF ObjectNext, vars, Allocate, Store, StartImage, EmitMember, EmitTail, EmitUnion
  <2> QED BY <2>1, WordStep, ObjectStep
<1>3. LayoutInv /\ WordInv /\ ObjectInv => HoldsWhatWasStored
  BY LiveIsEnough
<1>4. ObjectSpec => []LayoutInv
  BY ObjectsImplementLayout, LayoutInductive, PTL
<1> QED BY <1>1, <1>2, <1>3, <1>4, PTL DEF ObjectSpec

-----------------------------------------------------------------------------
(* The image of a static object.  asm_declare_init() reads the offsets only *)
(* as distances from where the last member ended, so the proof needs the    *)
(* order of the members in bytes, groups with all they reserve (Ordered),   *)
(* and how a member lies against the one before it (Chained).               *)

Top(r) == IF r.kind = "bits" THEN r.off + r.unit ELSE r.off + r.size

\* A member behind another starts where that one ends or later, unless both
\* are in one group; nothing ends behind the offset.
Ordered ==
  /\ \A i \in Indices : Top(placed[i]) <= offset
  /\ \A i, j \in Indices :
       i < j /\ (placed[i].group = 0 \/ placed[i].group # placed[j].group)
         => Top(placed[i]) <= placed[j].off

\* A field of a group starts it or continues that of the member before it.
Continues(j) ==
  \/ placed[j].group = j /\ placed[j].master = placed[j].size
  \/ /\ j - 1 \in Indices /\ placed[j-1].group = placed[j].group
     /\ placed[j-1].off = placed[j].off /\ placed[j-1].unit = placed[j].unit
     /\ placed[j-1].master = placed[j].master

\* Groups hold the fields that take bits, and a field that takes none lies
\* directly behind the member before it, or at the start.
Chained(j) ==
  /\ placed[j].kind \in {"normal", "bits", "flex"}
  /\ placed[j].kind = "flex" => placed[j].size = 0 /\ j = Len(placed) /\ status # "folding"
  /\ placed[j].group # 0 <=> placed[j].kind = "bits" /\ placed[j].bits > 0
  /\ placed[j].group # 0 => placed[j].group <= j /\ Continues(j)
  /\ placed[j].kind = "bits" /\ placed[j].group = 0 =>
       /\ placed[j].unit = 0
       /\ j = 1 => placed[j].off = 0
       /\ j > 1 /\ placed[j-1].group = 0 => placed[j].off = Top(placed[j-1])

\* The same for the next member: what the open group and the offset are.
NextChained ==
  /\ Len(placed) = 0 => offset = 0
  /\ Len(placed) > 0 /\ placed[Len(placed)].group = 0 => offset = Top(placed[Len(placed)])
  /\ bitfield.limit = 8 * bitfield.master
  /\ bitfield.cur # 0 => bitfield.cur < bitfield.limit
  /\ ~realign_next /\ bitfield.cur # 0 =>
       LET r == placed[Len(placed)]
       IN /\ Len(placed) > 0 /\ r.group = bitfield.group /\ r.off = bitfield.first
          /\ r.unit = bitfield.unit /\ r.master = bitfield.master

\* A union is as large as its members that are no bit-fields.
UnionSized ==
  /\ \A i \in Indices : placed[i].kind # "bits" => placed[i].size <= sz_max
  /\ status = "folded" => sz_max <= size

ChainInv ==
  /\ prim = "struct" => Ordered /\ (\A j \in Indices : Chained(j)) /\ NextChained
  /\ prim = "union" => UnionSized

\* asm_declare_init()'s loop: outside a group the last member ended where the
\* loop says; inside one, the group is what was collected since its first
\* field, and all of it is to be written there.
EmitType == [next: Nat, pos: Nat, end: Nat, group: SUBSET Nat, first: Nat]

Outside(e) ==
  /\ e.group = {}
  /\ e.next = 1 => e.end = 0
  /\ e.next > 1 => /\ placed[e.next-1].group = 0
                   /\ e.end = Top(placed[e.next-1]) \/ placed[e.next-1].kind = "flex"

InGroup(e) ==
  /\ e.first \in 1 .. e.next-1 /\ placed[e.first].group = e.first
  /\ placed[e.first].master = placed[e.first].size
  /\ e.end = Top(placed[e.first])
  /\ e.group = {k \in e.first .. e.next-1 : placed[k].group # 0}
  /\ \A k \in e.first .. e.next-1 :
       /\ placed[k].kind = "bits"
       /\ placed[k].group # 0 =>
            /\ placed[k].group = e.first /\ placed[k].off = placed[e.first].off
            /\ placed[k].unit = placed[e.first].unit /\ placed[k].master = placed[e.first].master

Shape(e) ==
  /\ e \in EmitType /\ e.next \in 1 .. Len(placed) + 1 /\ e.end <= offset
  /\ e.first = 0 => Outside(e)
  /\ e.first # 0 => InGroup(e)

\* The members of done have v's bits in m, and all of it ends at p.
WrittenTo(m, p, done, v) ==
  /\ m \in SUBSET Nat /\ p \in Nat /\ \A b \in m : b < 8 * p
  /\ \A i \in done : Width(placed[i]) > 0 => BitsAre(placed[i], m, v) /\ End(placed[i]) <= 8 * p

\* What was written is all but the open group, and the assembler is where the
\* layout puts what follows.
Position(e) ==
  /\ e.first = 0 =>
       \/ e.pos = e.end
       \/ e.pos >= e.end /\ e.next > Len(placed) /\ placed[Len(placed)].kind = "flex"
  /\ e.first # 0 => e.pos = placed[e.first].off

Done(e) == (1 .. e.next-1) \ e.group

Emitting(v) ==
  /\ held = [i \in Indices |-> Converted(placed[i], v)] /\ known = Indices
  /\ prim = "struct" => Shape(emit)
  /\ prim = "struct" /\ Snug /\ NoGapAfterFields =>
       Position(emit) /\ WrittenTo(mem, emit.pos, Done(emit), v)
  /\ prim = "union" => emit = NoEmit

ImageInv ==
  /\ phase = "none" => mem = {} /\ emit = NoEmit
  /\ phase = "emit" => \E v \in SUBSET Nat : Emitting(v)
  /\ ImageMatchesLayout

\* What a step has to establish about the member r it adds to n others.
Links(r, n) ==
  /\ r.kind \in {"normal", "bits", "flex"}
  /\ r.kind = "flex" => r.size = 0 /\ status' # "folding"
  /\ r.group # 0 <=> r.kind = "bits" /\ r.bits > 0
  /\ r.group # 0 => r.group <= n + 1
  /\ r.group # 0 =>
       \/ r.group = n + 1 /\ r.master = r.size
       \/ /\ n > 0 /\ placed[n].group = r.group /\ placed[n].off = r.off
          /\ placed[n].unit = r.unit /\ placed[n].master = r.master
  /\ r.kind = "bits" /\ r.group = 0 =>
       /\ r.unit = 0
       /\ n = 0 => r.off = 0
       /\ n > 0 /\ placed[n].group = 0 => r.off = Top(placed[n])

\* The bytes a member ends at are a number.
LEMMA TopType == ASSUME NEW r \in PlacedType PROVE Top(r) \in Nat /\ r.off \in Nat
<1>1. r.off \in Nat /\ r.unit \in Nat /\ r.size \in Nat
  BY SMTT(30) DEF PlacedType
<1> QED BY <1>1 DEF Top

LEMMA ChainAdd ==
  ASSUME LayoutInv, ChainInv, prim = "struct", status = "folding", NEW r \in PlacedType,
         NEW n \in Nat, n = Len(placed), placed' = Append(placed, r),
         offset' \in Nat, offset' >= offset, Top(r) <= offset', Links(r, n),
         \A i \in 1..n : placed[i].group = 0 \/ placed[i].group # r.group => Top(placed[i]) <= r.off
  PROVE  Ordered' /\ \A j \in Indices' : Chained(j)'
<1>1. /\ placed \in Seq(PlacedType) /\ offset \in Nat
      /\ Ordered /\ \A j \in Indices : Chained(j)
  BY DEF LayoutInv, TypeOK, ChainInv
<1>2. /\ Len(placed') = n + 1 /\ placed'[n + 1] = r
      /\ \A i \in 1..n : placed'[i] = placed[i] /\ placed[i] \in PlacedType
  BY <1>1, AppendFacts
<1>3. Indices' = 1..n+1 /\ Indices = 1..n /\ \A i \in 1..n+1 : i \in 1..n \/ i = n + 1
  BY <1>2 DEF Indices
<1>4. ASSUME NEW i \in 1..n+1 PROVE Top(placed'[i]) <= offset'
  <2>1. CASE i \in 1..n
    <3>1. Top(placed[i]) <= offset /\ Top(placed[i]) \in Nat
      BY <1>1, <1>2, <1>3, <2>1, TopType DEF Ordered
    <3> QED BY <1>1, <1>2, <2>1, <3>1
  <2>2. CASE i = n + 1
    BY <1>2, <2>2
  <2> QED BY <1>3, <2>1, <2>2
<1>5. ASSUME NEW i \in 1..n+1, NEW j \in 1..n+1, i < j,
             placed'[i].group = 0 \/ placed'[i].group # placed'[j].group
      PROVE  Top(placed'[i]) <= placed'[j].off
  <2>1. i \in 1..n
    BY <1>5
  <2>2. CASE j \in 1..n
    BY <1>1, <1>2, <1>3, <1>5, <2>1, <2>2 DEF Ordered
  <2>3. CASE j = n + 1
    BY <1>2, <1>5, <2>1, <2>3
  <2> QED BY <1>3, <2>2, <2>3
<1>6. Ordered'
  <2>1. \A i \in Indices' : Top(placed'[i]) <= offset'
    BY <1>3, <1>4
  <2>2. \A i, j \in Indices' :
          i < j /\ (placed'[i].group = 0 \/ placed'[i].group # placed'[j].group)
            => Top(placed'[i]) <= placed'[j].off
    BY <1>3, <1>5
  <2> QED BY <2>1, <2>2 DEF Ordered, Top
<1>7. ASSUME NEW j \in 1..n PROVE Chained(j)'
  <2>1. Chained(j) /\ placed'[j] = placed[j] /\ placed[j].kind # "flex"
    BY <1>1, <1>2, <1>3 DEF Chained
  <2>2. j > 1 => j - 1 \in 1..n /\ placed'[j-1] = placed[j-1]
    BY <1>2
  <2>3. placed[j].group # 0 => Continues(j)'
    <3>1. placed[j].group # 0 => Continues(j)
      BY <2>1 DEF Chained
    <3>2. j - 1 \in Indices <=> j > 1
      BY <1>3
    <3>3. j - 1 \in Indices' <=> j > 1
      BY <1>3
    <3> QED BY <2>1, <2>2, <3>1, <3>2, <3>3 DEF Continues
  <2> QED BY <2>1, <2>2, <2>3 DEF Chained, Top
<1>8. Chained(n + 1)'
  <2>1. n > 0 => n \in 1..n /\ placed'[n] = placed[n]
    BY <1>2
  <2>2. (n + 1) - 1 = n /\ (n + 1 = 1 <=> n = 0) /\ (n + 1 > 1 <=> n > 0)
    OBVIOUS
  <2>3. r.group # 0 => Continues(n + 1)'
    <3>1. n \in Indices' <=> n > 0
      BY <1>3
    <3> QED BY <1>2, <2>1, <2>2, <3>1 DEF Links, Continues
  <2> QED BY <1>2, <2>1, <2>2, <2>3 DEF Links, Chained, Top
<1> QED BY <1>3, <1>6, <1>7, <1>8

LEMMA NextAdd ==
  ASSUME NEW r \in PlacedType, placed \in Seq(PlacedType), placed' = Append(placed, r),
         r.group = 0 => offset' = Top(r),
         bitfield'.limit = 8 * bitfield'.master, bitfield'.cur # 0 => bitfield'.cur < bitfield'.limit,
         ~realign_next' /\ bitfield'.cur # 0 =>
           /\ r.group = bitfield'.group /\ r.off = bitfield'.first
           /\ r.unit = bitfield'.unit /\ r.master = bitfield'.master
  PROVE  NextChained'
<1>1. /\ Len(placed) \in Nat /\ Len(placed') = Len(placed) + 1 /\ placed'[Len(placed) + 1] = r
  BY AppendFacts
<1>2. placed'[Len(placed')] = r /\ Len(placed') > 0 /\ Len(placed') # 0
  BY <1>1
<1> QED BY <1>2 DEF NextChained, Top

\* What TakeBits() leaves of the group.
LEMMA TakeLimit ==
  ASSUME NEW bits \in Nat, NEW bf \in GroupType, NEW off \in Nat, TakeBits(bits, bf, off),
         bf.limit = 8 * bf.master, bf.cur + bits <= bf.limit
  PROVE  /\ bitfield'.master = bf.master /\ bitfield'.limit = 8 * bitfield'.master
         /\ bitfield'.cur # 0 => bitfield'.cur < bitfield'.limit
<1> DEFINE c == IF bf.cur + bits = bf.limit THEN 0 ELSE bf.cur + bits
<1>1. bitfield' = [bf EXCEPT !.cur = c] /\ bf.cur \in Nat /\ bf.limit \in Nat
  BY DEF TakeBits, GroupType
<1>2. c # 0 => c < bf.limit
  BY <1>1
<1> HIDE DEF c
<1>3. bitfield'.master = bf.master /\ bitfield'.limit = bf.limit /\ bitfield'.cur = c
  BY <1>1 DEF GroupType
<1> QED BY <1>2, <1>3

LEMMA ZeroChain ==
  ASSUME LayoutInv, LayoutInv', ChainInv, prim = "struct", NEW m \in Members, ZeroWidth(m)
  PROVE  Ordered' /\ (\A j \in Indices' : Chained(j)') /\ NextChained'
<1> DEFINE r == Placed(m, [off |-> offset, bitoff |-> bitfield.cur, bf |-> NoBitfield])
<1>1. /\ TypeOK /\ offset \in Nat /\ bitfield \in GroupType /\ bitfield.cur \in Nat
      /\ bitfield.limit \in Nat /\ bitfield.master \in Nat
      /\ NoBitfield \in GroupType /\ placed \in Seq(PlacedType)
  BY DEF LayoutInv, TypeOK, GroupType, NoBitfield
<1>2. /\ r \in PlacedType /\ r.group = 0 /\ r.off = offset /\ r.unit = 0
      /\ r.kind = "bits" /\ r.bits = 0
  BY <1>1, PlacedOK DEF Placed, NoBitfield, ZeroWidth
<1>3. placed' = Append(placed, r) /\ TakeBits(0, bitfield, offset) /\ realign_next' /\ status = "folding"
  BY DEF ZeroWidth, Put, More
<1> HIDE DEF r
<1>4. /\ Ordered /\ NextChained /\ \A j \in Indices : Chained(j)
  BY DEF ChainInv
<1>5. bitfield.limit = 8 * bitfield.master /\ bitfield.cur + 0 <= bitfield.limit
  BY <1>1, <1>4 DEF NextChained
<1>6. /\ bitfield'.limit = 8 * bitfield'.master
      /\ bitfield'.cur # 0 => bitfield'.cur < bitfield'.limit
  BY <1>1, <1>3, <1>5, TakeLimit
<1>7. offset' = offset
  <2>1. bitfield.cur + 0 = bitfield.limit => bitfield.master = 0
    BY <1>1, <1>4 DEF NextChained
  <2> QED BY <1>3, <2>1 DEF TakeBits, struct_pack_finish_bitfield
<1>8. Top(r) = offset
  BY <1>1, <1>2 DEF Top
<1>9. PICK n \in Nat : n = Len(placed)
  BY <1>1
<1>10. \A i \in 1..n : Top(placed[i]) <= offset
  BY <1>4, <1>9 DEF Ordered, Indices
<1>11. Links(r, n)
  BY <1>2, <1>4, <1>9 DEF Links, NextChained
<1>12. NextChained'
  BY <1>1, <1>2, <1>3, <1>6, <1>7, <1>8, NextAdd
<1>13. Ordered' /\ \A j \in Indices' : Chained(j)'
  BY <1>1, <1>2, <1>3, <1>7, <1>8, <1>9, <1>10, <1>11, ChainAdd
<1> QED BY <1>12, <1>13

LEMMA StartChain ==
  ASSUME LayoutInv, LayoutInv', ChainInv, prim = "struct", NEW m \in Members, StartGroup(m, GroupFrom)
  PROVE  Ordered' /\ (\A j \in Indices' : Chained(j)') /\ NextChained'
<1> DEFINE unit == decl_type_for_bitfield(m.bits)
           first == pack_to_align(GroupFrom, unit)
           bf == NewGroup(m, first)
           r == Placed(m, [off |-> first, bitoff |-> 0, bf |-> bf])
<1>1. /\ TypeOK /\ offset \in Nat /\ bitfield \in GroupType /\ placed \in Seq(PlacedType)
      /\ m.bits \in Nat /\ m.kind = "bits" /\ m.bits > 0 /\ m.size \in {1, 2, 4, 8}
      /\ m.signed \in BOOLEAN /\ m.bits <= 8 * m.size
  BY MemberType, LayoutAssumption DEF LayoutInv, TypeOK, StartGroup
<1>2. unit \in {1, 2, 4, 8} /\ unit \in Powers
  BY <1>1, UnitSize DEF Powers
<1>3. GroupFrom \in Nat /\ GroupFrom >= offset
  <2>1. GroupFrom = struct_pack_finish_bitfield(offset, bitfield) \/ GroupFrom = offset
    BY DEF GroupFrom
  <2>2. /\ struct_pack_finish_bitfield(offset, bitfield) \in Nat
        /\ struct_pack_finish_bitfield(offset, bitfield) >= offset
    BY <1>1, FinishUp
  <2> QED BY <1>1, <2>1, <2>2
<1>4. first \in Nat /\ first >= offset
  <2>1. first \in Nat /\ first >= GroupFrom
    BY <1>2, <1>3, PackUp
  <2> QED BY <1>1, <1>3, <2>1
<1>5. PICK n \in Nat : n = Len(placed)
  BY <1>1
<1>6. /\ bf \in GroupType /\ bf.cur = 0 /\ bf.first = first /\ bf.unit = unit
      /\ bf.group = n + 1 /\ bf.master = m.size /\ bf.limit = 8 * m.size
  BY <1>1, <1>2, <1>4, <1>5 DEF NewGroup, GroupType
<1>7. placed' = Append(placed, r) /\ TakeBits(m.bits, bf, first + unit) /\ status = "folding"
  BY DEF StartGroup, Put, More
<1> HIDE DEF unit, first, bf
<1>8. /\ r \in PlacedType /\ r.group = n + 1 /\ r.off = first
      /\ r.kind = "bits" /\ r.bits = m.bits /\ r.unit = unit /\ r.master = m.size /\ r.size = m.size
  BY <1>1, <1>4, <1>6, PlacedOK DEF Placed
<1> HIDE DEF r
<1>9. first + unit \in Nat
  BY <1>2, <1>4
<1>10. /\ offset' \in Nat /\ offset' >= first + unit
       /\ bitfield'.first = first /\ bitfield'.unit = unit /\ bitfield'.group = n + 1
  BY <1>1, <1>6, <1>7, <1>9, TakeType
<1>11. /\ bitfield'.master = m.size /\ bitfield'.limit = 8 * bitfield'.master
       /\ bitfield'.cur # 0 => bitfield'.cur < bitfield'.limit
  <2>1. bf.limit = 8 * bf.master /\ bf.cur + m.bits <= bf.limit
    BY <1>1, <1>6
  <2> QED BY <1>1, <1>6, <1>7, <1>9, <2>1, TakeLimit
<1>12. Top(r) = first + unit /\ offset' >= offset
  BY <1>1, <1>2, <1>4, <1>8, <1>10 DEF Top
<1>13. \A i \in 1..n : Top(placed[i]) <= first
  <2> SUFFICES ASSUME NEW i \in 1..n PROVE Top(placed[i]) <= first
    OBVIOUS
  <2>1. Top(placed[i]) <= offset /\ placed[i] \in PlacedType
    BY <1>1, <1>5 DEF ChainInv, Ordered, Indices
  <2>2. Top(placed[i]) \in Nat
    BY <2>1, TopType
  <2> QED BY <1>1, <1>4, <2>1, <2>2
<1>14. Links(r, n)
  BY <1>1, <1>8 DEF Links
<1>15. NextChained'
  BY <1>1, <1>7, <1>8, <1>10, <1>11, NextAdd
<1>16. Ordered' /\ \A j \in Indices' : Chained(j)'
  BY <1>5, <1>7, <1>8, <1>10, <1>12, <1>13, <1>14, ChainAdd
<1> QED BY <1>15, <1>16

LEMMA JoinChain ==
  ASSUME LayoutInv, LayoutInv', ChainInv, prim = "struct", NEW m \in Members, JoinGroup(m)
  PROVE  Ordered' /\ (\A j \in Indices' : Chained(j)') /\ NextChained'
<1> DEFINE r == Placed(m, [off |-> bitfield.first, bitoff |-> bitfield.cur, bf |-> bitfield])
<1>1. /\ TypeOK /\ offset \in Nat /\ bitfield \in GroupType /\ placed \in Seq(PlacedType)
      /\ bitfield.cur \in Nat /\ bitfield.first \in Nat /\ bitfield.group \in Nat
      /\ bitfield.unit \in Nat /\ bitfield.limit \in Nat /\ m.bits \in Nat
  BY MemberType DEF LayoutInv, TypeOK, GroupType
<1>2. /\ m.kind = "bits" /\ m.bits > 0 /\ bitfield.cur # 0 /\ ~realign_next
      /\ placed' = Append(placed, r) /\ realign_next' = realign_next /\ status = "folding"
      /\ TakeBits(m.bits, bitfield, offset) /\ ~(bitfield.cur + m.bits > bitfield.limit)
  BY DEF JoinGroup, NeedsGroup, Put, More
<1>3. /\ r \in PlacedType /\ r.group = bitfield.group /\ r.off = bitfield.first
      /\ r.kind = "bits" /\ r.bits = m.bits /\ r.unit = bitfield.unit /\ r.master = bitfield.master
  BY <1>1, <1>2, PlacedOK DEF Placed
<1> HIDE DEF r
<1>4. /\ Ordered /\ NextChained /\ \A j \in Indices : Chained(j)
  BY DEF ChainInv
<1>5. /\ offset' \in Nat /\ offset' >= offset
      /\ bitfield'.first = bitfield.first /\ bitfield'.unit = bitfield.unit
      /\ bitfield'.group = bitfield.group
  BY <1>1, <1>2, TakeType
<1>6. /\ bitfield'.master = bitfield.master /\ bitfield'.limit = 8 * bitfield'.master
      /\ bitfield'.cur # 0 => bitfield'.cur < bitfield'.limit
  <2>1. bitfield.limit = 8 * bitfield.master /\ bitfield.cur + m.bits <= bitfield.limit
    BY <1>1, <1>2, <1>4 DEF NextChained
  <2> QED BY <1>1, <1>2, <2>1, TakeLimit
<1>7. PICK n \in Nat : n = Len(placed)
  BY <1>1
<1>8. /\ n > 0 /\ placed[n].group = bitfield.group /\ placed[n].off = bitfield.first
      /\ placed[n].unit = bitfield.unit /\ placed[n].master = bitfield.master
  BY <1>2, <1>4, <1>7 DEF NextChained
<1>9. bitfield.group # 0 /\ bitfield.first + bitfield.unit <= offset
  BY <1>2 DEF LayoutInv, OpenGroup
<1>10. Top(r) <= offset'
  BY <1>1, <1>3, <1>5, <1>9 DEF Top
<1>11. ASSUME NEW i \in 1..n, placed[i].group = 0 \/ placed[i].group # r.group
       PROVE  Top(placed[i]) <= r.off
  <2>1. i \in Indices /\ n \in Indices /\ i < n
    BY <1>3, <1>7, <1>8, <1>9, <1>11 DEF Indices
  <2> QED BY <1>3, <1>4, <1>8, <1>11, <2>1 DEF Ordered
<1>12. Links(r, n)
  <2>1. bitfield.group <= n + 1
    BY <1>1, <1>7 DEF LayoutInv, GroupOld
  <2> QED BY <1>2, <1>3, <1>8, <1>9, <2>1 DEF Links
<1>13. NextChained'
  BY <1>1, <1>2, <1>3, <1>5, <1>6, <1>9, NextAdd
<1>14. Ordered' /\ \A j \in Indices' : Chained(j)'
  BY <1>2, <1>3, <1>5, <1>7, <1>10, <1>11, <1>12, ChainAdd
<1> QED BY <1>13, <1>14

LEMMA PlaceChain ==
  ASSUME LayoutInv, LayoutInv', ChainInv, prim = "struct", NEW m \in Members,
         m.kind \in {"normal", "flex"}, NEW sz \in Nat, sz = m.size, NEW al \in Powers,
         PlaceAt(m, sz, al), m.kind = "flex" => sz = 0 /\ status' # "folding", status = "folding"
  PROVE  Ordered' /\ (\A j \in Indices' : Chained(j)') /\ NextChained'
<1> DEFINE start == pack_to_align(offset, al)
           r == Placed(m, [off |-> start, bitoff |-> 0, bf |-> NoBitfield])
<1>1. /\ TypeOK /\ offset \in Nat /\ bitfield \in GroupType /\ placed \in Seq(PlacedType)
      /\ NoBitfield \in GroupType
  BY DEF LayoutInv, TypeOK, GroupType, NoBitfield
<1>2. start \in Nat /\ start >= offset
  BY <1>1, PackUp
<1>3. /\ placed' = Append(placed, r) /\ offset' = start + sz
      /\ bitfield' = [bitfield EXCEPT !.cur = 0]
  BY DEF PlaceAt, Put
<1> HIDE DEF start
<1>4. /\ r \in PlacedType /\ r.group = 0 /\ r.off = start /\ r.kind = m.kind /\ r.size = sz
  BY <1>1, <1>2, PlacedOK DEF Placed, NoBitfield
<1> HIDE DEF r
<1>5. bitfield'.cur = 0 /\ bitfield'.limit = bitfield.limit /\ bitfield'.master = bitfield.master
  BY <1>1, <1>3, SMTT(30) DEF GroupType
<1>6. Top(r) = start + sz /\ offset' \in Nat /\ offset' >= offset
  BY <1>1, <1>2, <1>3, <1>4 DEF Top
<1>7. PICK n \in Nat : n = Len(placed)
  BY <1>1
<1>8. ASSUME NEW i \in 1..n PROVE Top(placed[i]) <= start
  <2>1. Top(placed[i]) <= offset /\ placed[i] \in PlacedType
    BY <1>1, <1>7 DEF ChainInv, Ordered, Indices
  <2>2. Top(placed[i]) \in Nat
    BY <2>1, TopType
  <2> QED BY <1>1, <1>2, <2>1, <2>2
<1>9. Links(r, n)
  BY <1>4 DEF Links
<1>10. NextChained'
  <2>1. bitfield.limit = 8 * bitfield.master
    BY DEF ChainInv, NextChained
  <2> QED BY <1>1, <1>3, <1>4, <1>5, <1>6, <2>1, NextAdd
<1>11. Ordered' /\ \A j \in Indices' : Chained(j)'
  BY <1>3, <1>4, <1>6, <1>7, <1>8, <1>9, ChainAdd
<1> QED BY <1>10, <1>11

\* A union's members, however many, are no larger than the largest.
LEMMA UnionAdd ==
  ASSUME LayoutInv, LayoutInv', ChainInv, prim = "union", NEW r \in PlacedType, placed' = Append(placed, r),
         sz_max' >= sz_max, r.kind # "bits" => r.size <= sz_max', status' # "folded"
  PROVE  UnionSized'
<1>1. placed \in Seq(PlacedType) /\ sz_max \in Nat /\ sz_max' \in Nat /\ UnionSized
  BY DEF LayoutInv, TypeOK, ChainInv
<1>2. /\ Len(placed) \in Nat /\ Len(placed') = Len(placed) + 1 /\ placed'[Len(placed) + 1] = r
      /\ \A i \in 1..Len(placed) : placed'[i] = placed[i] /\ placed[i] \in PlacedType
  BY <1>1, AppendFacts
<1>3. ASSUME NEW i \in 1..Len(placed'), placed'[i].kind # "bits" PROVE placed'[i].size <= sz_max'
  <2>1. CASE i \in 1..Len(placed)
    <3>1. placed'[i] = placed[i] /\ placed[i].size <= sz_max /\ placed[i].size \in Nat
      BY <1>1, <1>2, <1>3, <2>1 DEF UnionSized, Indices, PlacedType
    <3> QED BY <1>1, <3>1
  <2>2. CASE i = Len(placed) + 1
    BY <1>2, <1>3, <2>2
  <2> QED BY <1>2, <2>1, <2>2
<1> QED BY <1>3 DEF UnionSized, Indices

LEMMA UnionStep ==
  ASSUME LayoutInv, LayoutInv', ChainInv, prim = "union", [Next]_layoutVars
  PROVE  UnionSized'
<1>1. TypeOK /\ sz_max \in Nat /\ offset \in Nat /\ bitfield.cur \in Nat /\ bitfield.first \in Nat
      /\ bitfield \in GroupType /\ NoBitfield \in GroupType
  BY DEF LayoutInv, TypeOK, GroupType, NoBitfield
<1>2. ASSUME NEW m \in Members, ZeroWidth(m) \/ StartGroup(m, GroupFrom) \/ JoinGroup(m) PROVE UnionSized'
  <2>1. PICK r : placed' = Append(placed, r) /\ r.kind = "bits"
    <3>1. ASSUME NEW rec PROVE Placed(m, rec).kind = m.kind
      BY DEF Placed
    <3> QED BY <1>2, <3>1 DEF ZeroWidth, StartGroup, JoinGroup, Put
  <2>2. r \in PlacedType
    <3>1. placed' \in Seq(PlacedType) /\ placed \in Seq(PlacedType)
      BY DEF LayoutInv, TypeOK
    <3>2. Len(placed) \in Nat /\ Len(placed') = Len(placed) + 1 /\ placed'[Len(placed) + 1] = r
      BY <2>1, <3>1
    <3> QED BY <3>1, <3>2
  <2>3. sz_max' >= sz_max
    <3>1. PICK sz : sz \in Nat /\ sz_max' = Larger(sz_max, sz)
      <4>1. decl_type_for_bitfield(m.bits) \in Nat /\ 0 \in Nat
        BY UnitSize, MemberType
      <4> QED BY <1>2, <4>1 DEF ZeroWidth, StartGroup, JoinGroup, Grow
    <3> QED BY <1>1, <3>1 DEF Larger
  <2>4. status' # "folded"
    BY <1>2 DEF ZeroWidth, StartGroup, JoinGroup, More
  <2> QED BY <2>1, <2>2, <2>3, <2>4, UnionAdd
<1>3. ASSUME NEW m \in Members, Normal(m) PROVE UnionSized'
  <2> DEFINE r == Placed(m, [off |-> 0, bitoff |-> 0, bf |-> NoBitfield])
  <2>1. /\ placed' = Append(placed, r) /\ r.kind = "normal" /\ r.size = m.size /\ status' # "folded"
    BY <1>3 DEF Normal, PlaceAt, Put, Placed, More
  <2>2. r \in PlacedType /\ m.size \in Nat /\ m.align \in Powers
    BY <1>1, PlacedOK, MemberType
  <2> HIDE DEF r
  <2>3. sz_max' >= sz_max /\ sz_max' >= m.size
    BY <1>1, <1>3, <2>2, GrowUp DEF Normal
  <2>4. m.size <= sz_max' /\ sz_max' \in Nat
    BY <2>2, <2>3 DEF LayoutInv, TypeOK
  <2> QED BY <2>1, <2>2, <2>3, <2>4, UnionAdd
<1>4. CASE Finish
  <2> DEFINE x == pack_to_align(sz_max, align_max)
  <2>1. /\ placed' = placed /\ sz_max' = sz_max /\ size' = pack_to_align(x, align')
    BY <1>4 DEF Finish
  <2>2. align_max \in Powers /\ align' \in Powers
    BY DEF LayoutInv, TypeOK
  <2>3. x \in Nat /\ x >= sz_max
    BY <1>1, <2>2, PackUp
  <2> HIDE DEF x
  <2>4. size' \in Nat /\ size' >= x
    BY <2>1, <2>2, <2>3, PackUp
  <2>5. sz_max' <= size'
    BY <1>1, <2>1, <2>3, <2>4
  <2> QED BY <2>1, <2>5 DEF UnionSized, ChainInv, Indices
<1>5. CASE (\E m \in Members : Flexible(m) \/ Refuse(m) \/ Ignore(m)) \/ UNCHANGED layoutVars
  <2>1. /\ placed' = placed /\ sz_max' = sz_max /\ size' = size
        /\ (status' = "error" \/ status' = status)
    BY <1>5 DEF Flexible, Refuse, Ignore, layoutVars
  <2> QED BY <2>1 DEF UnionSized, ChainInv, Indices
<1> QED BY <1>2, <1>3, <1>4, <1>5 DEF Next, AddMember

\* fold_sue()'s loop keeps the order of the members and how they are linked.
LEMMA ChainStep ==
  ASSUME LayoutInv, LayoutInv', ChainInv, [Next]_layoutVars
  PROVE  ChainInv'
<1>1. prim' = prim
  BY DEF Next, AddMember, ZeroWidth, StartGroup, JoinGroup, Normal, Flexible, Refuse, Ignore, Finish, layoutVars
<1>2. CASE prim = "struct"
  <2>1. ASSUME NEW m \in Members, Normal(m) \/ Flexible(m)
        PROVE  Ordered' /\ (\A j \in Indices' : Chained(j)') /\ NextChained'
    <3> DEFINE al == IF packed \/ m.packed THEN 1 ELSE m.align
    <3>1. al \in Powers /\ m.size \in Nat /\ (m.kind = "flex" => m.size = 0)
      BY MemberType DEF Powers
    <3>2. m.kind \in {"normal", "flex"} /\ status = "folding" /\ (m.kind = "flex" => status' # "folding")
          /\ PlaceAt(m, m.size, al)
      BY <2>1, <3>1 DEF Normal, Flexible, More
    <3> HIDE DEF al
    <3> QED BY <1>2, <3>1, <3>2, PlaceChain
  <2>2. ASSUME NEW m \in Members, ZeroWidth(m) \/ StartGroup(m, GroupFrom) \/ JoinGroup(m)
        PROVE  Ordered' /\ (\A j \in Indices' : Chained(j)') /\ NextChained'
    BY <1>2, <2>2, ZeroChain, StartChain, JoinChain
  <2>3. ASSUME Finish \/ (\E m \in Members : Refuse(m) \/ Ignore(m)) \/ UNCHANGED layoutVars
        PROVE  Ordered' /\ (\A j \in Indices' : Chained(j)') /\ NextChained'
    <3>1. /\ placed' = placed /\ offset' = offset /\ bitfield' = bitfield /\ realign_next' = realign_next
          /\ (status' = status \/ status' # "folding")
      BY <2>3 DEF Finish, Refuse, Ignore, layoutVars
    <3>2. Ordered /\ (\A j \in Indices : Chained(j)) /\ NextChained
      BY <1>2 DEF ChainInv
    <3>3. Indices' = Indices /\ Ordered' /\ NextChained'
      BY <3>1, <3>2 DEF Ordered, Indices, NextChained, Top
    <3>4. ASSUME NEW j \in Indices PROVE Chained(j)'
      <4>1. Chained(j) /\ Continues(j)' = Continues(j)
        BY <3>1, <3>2 DEF Continues, Indices
      <4> QED BY <3>1, <4>1 DEF Chained, Top
    <3> QED BY <3>3, <3>4
  <2> QED BY <1>1, <1>2, <2>1, <2>2, <2>3 DEF Next, AddMember, ChainInv
<1>3. CASE prim = "union"
  BY <1>1, <1>3, UnionStep DEF ChainInv
<1>4. prim \in {"struct", "union"}
  BY LayoutAssumption DEF LayoutInv, TypeOK
<1> QED BY <1>2, <1>3, <1>4

LEMMA InitChain == Init => ChainInv
<1> SUFFICES ASSUME Init PROVE ChainInv
  OBVIOUS
<1>1. Indices = {} /\ Len(placed) = 0 /\ status = "folding" /\ offset = 0
  BY DEF Init, Indices
<1>2. bitfield.cur = 0 /\ bitfield.limit = 8 * bitfield.master
  BY DEF Init, NoBitfield
<1> QED BY <1>1, <1>2 DEF ChainInv, Ordered, NextChained, UnionSized

-----------------------------------------------------------------------------
(* What is written, bit by bit.                                             *)

LEMMA DatumBit ==
  ASSUME NEW p \in Nat, NEW v \in SUBSET Nat, NEW sz \in Nat
  PROVE  /\ Datum(p, v, sz) \in SUBSET Nat
         /\ \A b \in Nat : b \in Datum(p, v, sz) <=> 8 * p <= b /\ b < 8 * (p + sz) /\ b - 8 * p \in v
<1> DEFINE low == Low(v, 8 * sz)
<1>1. low \in SUBSET Int /\ \A b \in Int : b \in low <=> 0 <= b /\ b < 8 * sz /\ b \in v
  BY LowBit
<1>2. Datum(p, v, sz) = Shifted(low, 8 * p) /\ 8 * p \in Int
  BY DEF Datum
<1> HIDE DEF low
<1>3. /\ Shifted(low, 8 * p) \in SUBSET Int
      /\ \A b \in Int : b \in Shifted(low, 8 * p) <=> b - 8 * p \in low
  BY <1>1, <1>2, ShiftedBit
<1>4. ASSUME NEW b \in Int PROVE b \in Datum(p, v, sz) <=> 8 * p <= b /\ b < 8 * (p + sz) /\ b - 8 * p \in v
  <2>1. b - 8 * p \in Int /\ (0 <= b - 8 * p <=> 8 * p <= b) /\ (b - 8 * p < 8 * sz <=> b < 8 * (p + sz))
    OBVIOUS
  <2> QED BY <1>1, <1>2, <1>3, <2>1
<1>5. ASSUME NEW b \in Datum(p, v, sz) PROVE b \in Nat
  <2>1. b \in Int
    BY <1>2, <1>3
  <2>2. 8 * p <= b
    BY <1>4, <2>1
  <2> QED BY <2>1, <2>2
<1> QED BY <1>4, <1>5

LEMMA ConvertedNat ==
  ASSUME NEW r \in PlacedType, NEW v \in SUBSET Nat
  PROVE  Converted(r, v) \in SUBSET Nat
<1>1. Width(r) \in Nat /\ 8 * r.size \in Nat
  BY SpanType DEF PlacedType
<1>2. Converted(r, v) \subseteq v \cup (Width(r) .. 8 * r.size - 1)
  BY DEF Converted, Low
<1>3. Width(r) .. 8 * r.size - 1 \subseteq Nat
  BY <1>1
<1>4. ASSUME NEW b \in Converted(r, v) PROVE b \in Nat
  BY <1>2, <1>3, <1>4
<1> QED BY <1>4

\* Writing at or behind the end of what was written leaves it alone.
LEMMA WrittenMore ==
  ASSUME LayoutInv, NEW m, NEW p, NEW done \in SUBSET Indices, NEW v, WrittenTo(m, p, done, v),
         NEW q \in Nat, q >= p, NEW sz \in Nat, NEW D \in SUBSET Nat,
         \A b \in D : 8 * q <= b /\ b < 8 * (q + sz)
  PROVE  WrittenTo(m \cup D, q + sz, done, v)
<1>1. m \in SUBSET Nat /\ p \in Nat /\ \A b \in m : b < 8 * p
  BY DEF WrittenTo
<1>2. m \cup D \in SUBSET Nat /\ q + sz \in Nat
  BY <1>1
<1>3. ASSUME NEW b \in m \cup D PROVE b < 8 * (q + sz)
  <2>1. CASE b \in m
    <3>1. b \in Nat /\ b < 8 * p
      BY <1>1, <2>1
    <3> QED BY <1>1, <3>1
  <2> QED BY <1>3, <2>1
<1>4. ASSUME NEW i \in done, Width(placed[i]) > 0
      PROVE  BitsAre(placed[i], m \cup D, v) /\ End(placed[i]) <= 8 * (q + sz)
  <2> DEFINE r == placed[i]
  <2>1. BitsAre(r, m, v) /\ End(r) <= 8 * p
    BY <1>4 DEF WrittenTo
  <2>2. r \in PlacedType
    BY DEF LayoutInv, TypeOK, Indices
  <2>3. Begin(r) \in Nat /\ Width(r) \in Nat /\ End(r) \in Nat /\ End(r) = Begin(r) + Width(r)
    BY <2>2, SpanType DEF End
  <2>4. ASSUME NEW b \in 0 .. Width(r) - 1 PROVE Begin(r) + b \in m \cup D <=> b \in v
    <3>1. Begin(r) + b \in m <=> b \in v
      BY <2>1 DEF BitsAre
    <3>2. Begin(r) + b \notin D
      <4>1. Begin(r) + b < 8 * q /\ Begin(r) + b \in Nat
        BY <1>1, <2>1, <2>3
      <4> QED BY <4>1
    <3> QED BY <3>1, <3>2
  <2>5. End(r) <= 8 * (q + sz)
    BY <1>1, <2>1, <2>3
  <2> QED BY <2>4, <2>5 DEF BitsAre
<1> QED BY <1>2, <1>3, <1>4 DEF WrittenTo

\* Writing nothing.
LEMMA WrittenOn ==
  ASSUME LayoutInv, NEW m, NEW p, NEW done \in SUBSET Indices, NEW v, WrittenTo(m, p, done, v),
         NEW q \in Nat, q >= p
  PROVE  WrittenTo(m, q, done, v)
<1>1. WrittenTo(m \cup {}, q + 0, done, v)
  BY WrittenMore
<1>2. m \cup {} = m /\ q + 0 = q
  OBVIOUS
<1> QED BY <1>1, <1>2

\* A member that is no bit-field, written at its offset.
LEMMA WriteNormal ==
  ASSUME LayoutInv, WordInv, NEW m, NEW p, NEW done \in SUBSET Indices, NEW v \in SUBSET Nat,
         WrittenTo(m, p, done, v), NEW i \in Indices, placed[i].kind # "bits",
         held[i] = Converted(placed[i], v), placed[i].off >= p
  PROVE  WrittenTo(m \cup Datum(placed[i].off, held[i], placed[i].size),
                   placed[i].off + placed[i].size, done \cup {i}, v)
<1> DEFINE r == placed[i]
           q == placed[i].off
           sz == placed[i].size
           D == Datum(q, held[i], sz)
<1>1. r \in PlacedType /\ Reached(r)
  BY DEF LayoutInv, TypeOK, WordInv, Indices
<1>2. q \in Nat /\ sz \in Nat /\ held[i] \in SUBSET Nat /\ r.bitoff = 0 /\ Width(r) = 8 * sz
  BY <1>1, ConvertedNat DEF PlacedType, Reached, Width
<1>3. Begin(r) = 8 * q /\ End(r) = 8 * (q + sz)
  BY <1>2 DEF Begin, End
<1>4. /\ D \in SUBSET Nat
      /\ \A b \in Nat : b \in D <=> 8 * q <= b /\ b < 8 * (q + sz) /\ b - 8 * q \in held[i]
  BY <1>2, DatumBit
<1>5. m \in SUBSET Nat /\ p \in Nat /\ \A b \in m : b < 8 * p
  BY DEF WrittenTo
<1> HIDE DEF D, q, sz
<1>6. \A b \in D : 8 * q <= b /\ b < 8 * (q + sz)
  BY <1>4
<1>7. q >= p
  BY DEF q
<1>8. WrittenTo(m \cup D, q + sz, done, v)
  BY <1>2, <1>4, <1>6, <1>7, WrittenMore
<1>9. ASSUME Width(r) > 0 PROVE BitsAre(r, m \cup D, v)
  <2>1. ASSUME NEW b \in 0 .. Width(r) - 1 PROVE Begin(r) + b \in m \cup D <=> b \in v
    <3>1. b \in Nat /\ b < 8 * sz /\ b < Width(r)
      BY <1>2
    <3>2. 8 * q + b \in Nat /\ 8 * q <= 8 * q + b /\ 8 * q + b < 8 * (q + sz) /\ (8 * q + b) - 8 * q = b
          /\ ~(8 * q + b < 8 * p)
      BY <1>2, <1>5, <1>7, <3>1
    <3>3. 8 * q + b \in D <=> b \in held[i]
      BY <1>4, <3>2
    <3>4. 8 * q + b \notin m
      BY <1>5, <3>2
    <3>5. b \in held[i] <=> b \in v
      <4>1. b \in Converted(r, v) <=> b < Width(r) /\ b \in v
        BY <1>1, <1>9, <3>1, ConvertedBit
      <4> QED BY <3>1, <4>1
    <3> QED BY <1>3, <3>3, <3>4, <3>5
  <2> QED BY <2>1 DEF BitsAre
<1>10. End(r) <= 8 * (q + sz)
  BY <1>2, <1>3
<1>11. ASSUME NEW k \in done \cup {i}, Width(placed[k]) > 0
       PROVE  BitsAre(placed[k], m \cup D, v) /\ End(placed[k]) <= 8 * (q + sz)
  BY <1>8, <1>9, <1>10, <1>11 DEF WrittenTo
<1>12. WrittenTo(m \cup D, q + sz, done \cup {i}, v)
  BY <1>8, <1>11 DEF WrittenTo
<1> QED BY <1>12 DEF D, q, sz

\* The fields of a group share no bit of its word.
LEMMA PendingBit ==
  ASSUME LayoutInv, WordInv, ChainInv, prim = "struct", Shape(emit), emit.first # 0,
         NEW v \in SUBSET Nat, held = [k \in Indices |-> Converted(placed[k], v)]
  PROVE  /\ Pending \in SUBSET Nat
         /\ \A i \in emit.group : \A b \in Nat :
              b < placed[i].bits => (placed[i].bitoff + b \in Pending <=> b \in v)
<1>1. InGroup(emit) /\ emit \in EmitType /\ emit.next \in 1 .. Len(placed) + 1 /\ Len(placed) \in Nat
  BY DEF Shape, LayoutInv, TypeOK
<1>2. /\ emit.first \in 1 .. emit.next-1
      /\ emit.group = {k \in emit.first .. emit.next-1 : placed[k].group # 0}
      /\ \A k \in emit.first .. emit.next-1 : placed[k].kind = "bits" /\
           (placed[k].group # 0 => placed[k].group = emit.first)
  BY <1>1 DEF InGroup
<1>3. ASSUME NEW i \in emit.group
      PROVE  /\ i \in Indices /\ i \in Nat /\ placed[i].kind = "bits" /\ placed[i].bits > 0
             /\ placed[i].group = emit.first /\ placed[i] \in PlacedType /\ Reached(placed[i])
             /\ held[i] = Converted(placed[i], v) /\ held[i] \in SUBSET Nat
             /\ placed[i].bitoff \in Nat /\ placed[i].bits \in Nat
  <2>1. i \in Indices /\ i \in Nat /\ placed[i].kind = "bits" /\ placed[i].group = emit.first /\ placed[i].group # 0
    BY <1>1, <1>2, <1>3 DEF Indices, EmitType
  <2>2. placed[i] \in PlacedType /\ Reached(placed[i])
    BY <2>1 DEF LayoutInv, TypeOK, WordInv, Indices
  <2>3. placed[i].bits > 0
    BY <2>1 DEF ChainInv, Chained
  <2>4. held[i] = Converted(placed[i], v) /\ held[i] \in SUBSET Nat
    BY <2>1, <2>2, ConvertedNat
  <2>5. placed[i].bitoff \in Nat /\ placed[i].bits \in Nat
    BY <2>2 DEF PlacedType
  <2> QED BY <2>1, <2>2, <2>3, <2>4, <2>5
<1>4. ASSUME NEW i \in emit.group
      PROVE  /\ FieldBits(i, placed[i].bitoff) \in SUBSET Nat
             /\ \A b \in Int : b \in FieldBits(i, placed[i].bitoff)
                  <=> /\ placed[i].bitoff <= b /\ b < placed[i].bitoff + placed[i].bits
                      /\ b - placed[i].bitoff \in held[i]
  <2> DEFINE s == placed[i].bitoff
             n == placed[i].bits
             low == Low(held[i], n)
  <2>1. s \in Nat /\ n \in Nat /\ held[i] \in SUBSET Nat
    BY <1>3, <1>4
  <2>2. low \in SUBSET Int /\ \A b \in Int : b \in low <=> 0 <= b /\ b < n /\ b \in held[i]
    BY <2>1, LowBit
  <2>3. FieldBits(i, s) = Shifted(low, s)
    BY DEF FieldBits
  <2> HIDE DEF low, s, n
  <2>4. Shifted(low, s) \in SUBSET Int /\ \A b \in Int : b \in Shifted(low, s) <=> b - s \in low
    BY <2>1, <2>2, ShiftedBit
  <2>5. \A b \in Int : b - s \in Int /\ (0 <= b - s <=> s <= b) /\ (b - s < n <=> b < s + n)
    BY <2>1
  <2>6. \A b \in Int : b \in FieldBits(i, s) <=> s <= b /\ b < s + n /\ b - s \in held[i]
    BY <2>2, <2>3, <2>4, <2>5
  <2>7. ASSUME NEW b \in FieldBits(i, s) PROVE b \in Nat
    <3>1. b \in Int
      BY <2>3, <2>4
    <3>2. s <= b
      BY <2>6, <3>1
    <3> QED BY <2>1, <3>1, <3>2
  <2> QED BY <2>6, <2>7 DEF s, n
<1>5. Pending \in SUBSET Nat
  BY <1>4 DEF Pending
<1>6. ASSUME NEW i \in emit.group, NEW b \in Nat, b < placed[i].bits
      PROVE  placed[i].bitoff + b \in Pending <=> b \in v
  <2> DEFINE s == placed[i].bitoff
  <2>1. /\ i \in Indices /\ i \in Nat /\ placed[i].bits > 0 /\ placed[i].group = emit.first
        /\ placed[i] \in PlacedType /\ Reached(placed[i]) /\ placed[i].kind = "bits"
        /\ held[i] = Converted(placed[i], v) /\ s \in Nat /\ placed[i].bits \in Nat
    BY <1>3, <1>6
  <2>2. b \in held[i] <=> b \in v
    <3>1. Width(placed[i]) = placed[i].bits
      BY <2>1 DEF Width
    <3>2. b \in Converted(placed[i], v) <=> b < Width(placed[i]) /\ b \in v
      <4>1. ~(Width(placed[i]) <= b)
        BY <1>6, <2>1, <3>1
      <4> QED BY <2>1, <3>1, <4>1, ConvertedBit
    <3> QED BY <1>6, <2>1, <3>1, <3>2
  <2>3. (s + b) - s = b /\ s <= s + b /\ s + b < s + placed[i].bits /\ s + b \in Int
    BY <1>6, <2>1
  <2>4. ASSUME b \in v PROVE s + b \in Pending
    <3>1. s + b \in FieldBits(i, s)
      BY <1>4, <2>2, <2>3, <2>4
    <3> QED BY <3>1 DEF Pending
  <2>5. ASSUME s + b \in Pending PROVE b \in v
    <3>1. PICK j \in emit.group : s + b \in FieldBits(j, placed[j].bitoff)
      BY <2>5 DEF Pending
    <3> DEFINE t == placed[j].bitoff
    <3>2. /\ j \in Indices /\ j \in Nat /\ placed[j].bits \in Nat /\ t \in Nat /\ placed[j].group = emit.first
      BY <1>3
    <3>3. t <= s + b /\ s + b < t + placed[j].bits /\ (s + b) - t \in held[j]
      BY <1>4, <2>3, <3>1
    <3>4. emit.first # 0 /\ FieldsApart
      BY DEF LayoutInv
    <3>5. ~(i < j)
      <4>1. i < j => s + placed[i].bits <= t
        BY <2>1, <3>2, <3>4 DEF FieldsApart, Indices
      <4> HIDE DEF s, t
      <4>2. s + b < s + placed[i].bits
        BY <2>3
      <4> QED BY <2>1, <3>2, <3>3, <4>1, <4>2
    <3>6. ~(j < i)
      <4>1. j < i => t + placed[j].bits <= s
        BY <2>1, <3>2, <3>4 DEF FieldsApart, Indices
      <4> HIDE DEF s, t
      <4> QED BY <2>1, <3>2, <3>3, <4>1
    <3>7. j = i
      BY <2>1, <3>2, <3>5, <3>6
    <3> QED BY <2>2, <2>3, <3>3, <3>7
  <2> QED BY <2>4, <2>5
<1> QED BY <1>5, <1>6

\* A group, written at its offset as a datum of its type.
LEMMA WriteGroup ==
  ASSUME LayoutInv, WordInv, ChainInv, prim = "struct", Snug, Shape(emit), emit.first # 0,
         NEW v \in SUBSET Nat, held = [k \in Indices |-> Converted(placed[k], v)],
         NEW m, NEW p, NEW done \in SUBSET Indices, WrittenTo(m, p, done, v),
         NEW q \in Nat, q = placed[emit.first].off, q >= p, NEW sz \in Nat, sz = placed[emit.first].unit
  PROVE  WrittenTo(m \cup Datum(q, Pending, sz), q + sz, done \cup emit.group, v)
<1> DEFINE D == Datum(q, Pending, sz)
<1>1. InGroup(emit) /\ emit \in EmitType /\ emit.next \in 1 .. Len(placed) + 1 /\ Len(placed) \in Nat
  BY DEF Shape, LayoutInv, TypeOK
<1>2. /\ Pending \in SUBSET Nat
      /\ \A i \in emit.group : \A b \in Nat :
           b < placed[i].bits => (placed[i].bitoff + b \in Pending <=> b \in v)
  BY PendingBit
<1>3. /\ D \in SUBSET Nat
      /\ \A b \in Nat : b \in D <=> 8 * q <= b /\ b < 8 * (q + sz) /\ b - 8 * q \in Pending
  <2>1. Pending \in SUBSET Nat
    BY <1>2
  <2>2. PICK P \in SUBSET Nat : P = Pending
    BY <2>1
  <2>3. /\ Datum(q, P, sz) \in SUBSET Nat
        /\ \A b \in Nat : b \in Datum(q, P, sz) <=> 8 * q <= b /\ b < 8 * (q + sz) /\ b - 8 * q \in P
    BY ONLY q \in Nat, sz \in Nat, P \in SUBSET Nat, DatumBit
  <2> QED BY <2>2, <2>3
<1>4. m \in SUBSET Nat /\ p \in Nat /\ \A b \in m : b < 8 * p
  BY DEF WrittenTo
<1> HIDE DEF D
<1>5. WrittenTo(m \cup D, q + sz, done, v)
  <2>1. \A b \in D : 8 * q <= b /\ b < 8 * (q + sz)
    BY <1>3
  <2> QED BY <1>3, <2>1, WrittenMore
<1>6. ASSUME NEW i \in emit.group
      PROVE  BitsAre(placed[i], m \cup D, v) /\ End(placed[i]) <= 8 * (q + sz)
  <2> DEFINE r == placed[i]
  <2>1. /\ i \in emit.first .. emit.next-1 /\ emit.first \in 1 .. emit.next-1 /\ r.group # 0
        /\ r.kind = "bits" /\ r.off = q /\ r.unit = sz
    BY <1>1, <1>6 DEF InGroup
  <2>2. i \in Indices
    BY <1>1, <2>1 DEF Indices, EmitType
  <2>3. r \in PlacedType /\ Reached(r) /\ r.bits > 0 /\ r.unit = r.master
    <3>1. r \in PlacedType /\ Reached(r)
      BY <2>2 DEF LayoutInv, TypeOK, WordInv, Indices
    <3>2. r.bits > 0
      BY <2>1, <2>2 DEF ChainInv, Chained
    <3> QED BY <2>1, <2>2, <3>1, <3>2 DEF Snug
  <2>4. r.bitoff \in Nat /\ r.bits \in Nat /\ r.bitoff + r.bits <= 8 * sz
    BY <2>1, <2>3 DEF PlacedType, Reached
  <2>5. Begin(r) = 8 * q + r.bitoff /\ Width(r) = r.bits /\ End(r) = 8 * q + r.bitoff + r.bits
    BY <2>1, <2>4 DEF Begin, Width, End
  <2> HIDE DEF r
  <2>6. ASSUME NEW b \in 0 .. Width(r) - 1 PROVE Begin(r) + b \in m \cup D <=> b \in v
    <3> DEFINE x == Begin(r) + b
    <3>1. /\ b \in Nat /\ b < r.bits /\ x \in Nat /\ 8 * q <= x /\ x < 8 * (q + sz)
          /\ x - 8 * q = r.bitoff + b /\ ~(x < 8 * p)
      BY <1>4, <2>4, <2>5
    <3> HIDE DEF x
    <3>2. x \in D <=> r.bitoff + b \in Pending
      BY <1>3, <3>1
    <3>3. r.bitoff + b \in Pending <=> b \in v
      BY <1>2, <1>6, <3>1 DEF r
    <3>4. x \notin m
      BY <1>4, <3>1
    <3> QED BY <3>2, <3>3, <3>4 DEF x
  <2>7. End(r) <= 8 * (q + sz)
    BY <2>4, <2>5
  <2> QED BY <2>6, <2>7 DEF BitsAre, r
<1>7. ASSUME NEW k \in done \cup emit.group, Width(placed[k]) > 0
      PROVE  BitsAre(placed[k], m \cup D, v) /\ End(placed[k]) <= 8 * (q + sz)
  BY <1>5, <1>6, <1>7 DEF WrittenTo
<1>8. WrittenTo(m \cup D, q + sz, done \cup emit.group, v)
  BY <1>5, <1>7 DEF WrittenTo
<1> QED BY <1>8 DEF D

-----------------------------------------------------------------------------
(* One member of the loop.                                                  *)

Started(v) ==
  LayoutInv /\ WordInv /\ ChainInv /\ prim = "struct" /\ v \in SUBSET Nat /\ Emitting(v)
Ready(v) == Started(v) /\ emit.next \in Indices

\* What the step has to establish; the layout stays as it is.
Advances(v) ==
  /\ Shape(emit')
  /\ Snug /\ NoGapAfterFields => Position(emit') /\ WrittenTo(mem', emit'.pos, Done(emit'), v)

\* Everything has its type.
LEMMA ReadyTypes ==
  ASSUME NEW v, Ready(v), NEW i, i = emit.next
  PROVE  /\ i \in Indices /\ i \in Nat /\ i > 0 /\ Len(placed) \in Nat /\ i <= Len(placed)
         /\ Indices \subseteq Nat /\ Indices = 1 .. Len(placed)
         /\ \A j \in Indices : placed[j] \in PlacedType /\ Reached(placed[j]) /\ Chained(j)
                               /\ Top(placed[j]) \in Nat /\ Top(placed[j]) <= offset
                               /\ placed[j].off \in Nat /\ placed[j].unit \in Nat /\ placed[j].size \in Nat
                               /\ placed[j].group \in Nat /\ placed[j].bits \in Nat
         /\ Shape(emit) /\ emit \in EmitType /\ emit.pos \in Nat /\ emit.end \in Nat /\ emit.first \in Nat
         /\ emit.end <= offset /\ offset \in Nat
         /\ held = [j \in Indices |-> Converted(placed[j], v)] /\ prim = "struct" /\ v \in SUBSET Nat
         /\ emit.group \subseteq Indices /\ Done(emit) \subseteq Indices
<1>1. /\ placed \in Seq(PlacedType) /\ offset \in Nat /\ Len(placed) \in Nat /\ Indices = 1 .. Len(placed)
      /\ \A j \in Indices : placed[j] \in PlacedType /\ Reached(placed[j]) /\ Chained(j) /\ Top(placed[j]) <= offset
  BY DEF Ready, Started, LayoutInv, TypeOK, WordInv, ChainInv, Ordered, Indices
<1>2. ASSUME NEW j \in Indices
      PROVE  /\ Top(placed[j]) \in Nat /\ placed[j].off \in Nat /\ placed[j].unit \in Nat
             /\ placed[j].size \in Nat /\ placed[j].group \in Nat /\ placed[j].bits \in Nat
  <2>1. placed[j] \in PlacedType
    BY <1>1
  <2>2. /\ placed[j].off \in Nat /\ placed[j].unit \in Nat /\ placed[j].size \in Nat
        /\ placed[j].group \in Nat /\ placed[j].bits \in Nat
    BY <2>1, SMTT(30) DEF PlacedType
  <2> QED BY <2>1, <2>2, TopType
<1>3. /\ Shape(emit) /\ emit \in EmitType /\ emit.end <= offset
      /\ held = [j \in Indices |-> Converted(placed[j], v)] /\ prim = "struct" /\ v \in SUBSET Nat
      /\ i \in Indices
  BY DEF Ready, Started, Emitting, Shape
<1>4. emit.pos \in Nat /\ emit.end \in Nat /\ emit.first \in Nat /\ emit.next \in Nat
  BY <1>3 DEF EmitType
<1>5. i \in Nat /\ i > 0 /\ i <= Len(placed) /\ Indices \subseteq Nat
  BY <1>1, <1>3
<1>6. emit.group \subseteq Indices
  <2>1. CASE emit.first = 0
    BY <1>3, <2>1 DEF Shape, Outside
  <2>2. CASE emit.first # 0
    <3>1. emit.group \subseteq emit.first .. emit.next - 1 /\ emit.first \in 1 .. emit.next-1
      BY <1>3, <2>2 DEF Shape, InGroup
    <3>2. emit.first .. emit.next - 1 \subseteq Indices
      BY <1>1, <1>4, <1>5, <3>1
    <3> QED BY <3>1, <3>2
  <2> QED BY <2>1, <2>2
<1>7. Done(emit) \subseteq Indices
  BY <1>1, <1>4, <1>5 DEF Done
<1> QED BY <1>1, <1>2, <1>3, <1>4, <1>5, <1>6, <1>7

\* How the next member lies against where the loop says the last one ended.
LEMMA NextMember ==
  ASSUME NEW v, Ready(v), NEW i, i = emit.next
  PROVE  /\ placed[i].kind # "bits" \/ emit.first = 0 => emit.end <= placed[i].off
         /\ placed[i].kind = "bits" /\ placed[i].group = 0 /\ emit.first = 0 =>
              placed[i].off = emit.end /\ Top(placed[i]) = emit.end
         /\ placed[i].group # 0 /\ placed[i].group # i =>
              /\ emit.first # 0 /\ placed[i].group = emit.first
              /\ placed[i].off = placed[emit.first].off /\ placed[i].unit = placed[emit.first].unit
              /\ placed[i].master = placed[emit.first].master
         /\ placed[i].group = i => placed[i].master = placed[i].size
<1>1. /\ i \in Indices /\ i \in Nat /\ i > 0 /\ Len(placed) \in Nat /\ i <= Len(placed)
      /\ Indices = 1 .. Len(placed)
      /\ \A j \in Indices : Chained(j) /\ Top(placed[j]) \in Nat /\ placed[j].off \in Nat /\ placed[j].group \in Nat
      /\ Shape(emit) /\ emit.end \in Nat /\ emit.first \in Nat
  BY ReadyTypes
<1>2. Ordered
  BY DEF Ready, Started, ChainInv
<1>3. emit.first = 0 => Outside(emit)
  BY <1>1 DEF Shape
<1>4. emit.first # 0 => InGroup(emit)
  BY <1>1 DEF Shape
<1>5. i > 1 => i - 1 \in Indices /\ i - 1 < i
  BY <1>1
<1>6. i > 1 /\ emit.first = 0 => emit.end = Top(placed[i-1]) /\ placed[i-1].group = 0
  <2> SUFFICES ASSUME i > 1, emit.first = 0 PROVE emit.end = Top(placed[i-1]) /\ placed[i-1].group = 0
    OBVIOUS
  <2>1. placed[i-1].group = 0 /\ (emit.end = Top(placed[i-1]) \/ placed[i-1].kind = "flex")
    BY <1>3 DEF Outside
  <2>2. placed[i-1].kind # "flex"
    <3>1. Chained(i-1) /\ i - 1 # Len(placed)
      BY <1>1, <1>5
    <3> QED BY <3>1 DEF Chained
  <2> QED BY <2>1, <2>2
<1>7. i = 1 /\ emit.first = 0 => emit.end = 0
  BY <1>3 DEF Outside
<1>8. ASSUME placed[i].kind # "bits" \/ emit.first = 0 PROVE emit.end <= placed[i].off
  <2>1. CASE emit.first = 0 /\ i = 1
    BY <1>1, <1>7, <2>1
  <2>2. CASE emit.first = 0 /\ i > 1
    BY <1>1, <1>2, <1>5, <1>6, <2>2 DEF Ordered
  <2>3. CASE emit.first # 0
    <3>1. emit.first \in 1 .. i-1 /\ placed[emit.first].group = emit.first /\ emit.end = Top(placed[emit.first])
      BY <1>4, <2>3 DEF InGroup
    <3>2. placed[i].group = 0
      <4>1. Chained(i) /\ placed[i].kind # "bits"
        BY <1>1, <1>8, <2>3
      <4> QED BY <4>1 DEF Chained
    <3>3. emit.first \in Indices /\ emit.first < i
      BY <1>1, <3>1
    <3> QED BY <1>1, <1>2, <2>3, <3>1, <3>2, <3>3 DEF Ordered
  <2> QED BY <1>1, <2>1, <2>2, <2>3
<1>9. ASSUME placed[i].kind = "bits", placed[i].group = 0, emit.first = 0
      PROVE  placed[i].off = emit.end /\ Top(placed[i]) = emit.end
  <2>1. placed[i].unit = 0 /\ (i = 1 => placed[i].off = 0)
        /\ (i > 1 /\ placed[i-1].group = 0 => placed[i].off = Top(placed[i-1]))
    BY <1>1, <1>9 DEF Chained
  <2>2. placed[i].off = emit.end
    BY <1>1, <1>6, <1>7, <1>9, <2>1
  <2> QED BY <1>1, <1>9, <2>1, <2>2 DEF Top
<1>10. ASSUME placed[i].group # 0, placed[i].group # i
       PROVE  /\ emit.first # 0 /\ placed[i].group = emit.first
              /\ placed[i].off = placed[emit.first].off /\ placed[i].unit = placed[emit.first].unit
              /\ placed[i].master = placed[emit.first].master
  <2>1. /\ i - 1 \in Indices /\ placed[i-1].group = placed[i].group
        /\ placed[i-1].off = placed[i].off /\ placed[i-1].unit = placed[i].unit
        /\ placed[i-1].master = placed[i].master
    BY <1>1, <1>10 DEF Chained, Continues
  <2>2. i > 1
    BY <1>1, <2>1
  <2>3. emit.first # 0
    BY <1>6, <1>10, <2>1, <2>2
  <2>4. i - 1 \in emit.first .. emit.next-1
    BY <1>1, <1>4, <2>1, <2>3 DEF InGroup
  <2> QED BY <1>4, <1>10, <2>1, <2>3, <2>4 DEF InGroup
<1>11. ASSUME placed[i].group = i PROVE placed[i].master = placed[i].size
  <2>1. Continues(i)
    BY <1>1, <1>11 DEF Chained
  <2>2. CASE i - 1 \in Indices /\ placed[i-1].group = placed[i].group
    <3>1. Chained(i-1) /\ placed[i-1].group = i
      BY <1>1, <1>11, <2>2
    <3>2. i <= i - 1
      BY <1>1, <3>1 DEF Chained
    <3> QED BY <1>1, <3>2
  <2> QED BY <2>1, <2>2 DEF Continues
<1> QED BY <1>8, <1>9, <1>10, <1>11

\* The loop leaves the group, or was in none.
LEMMA OutsideNext ==
  ASSUME NEW v, Ready(v), NEW i, i = emit.next, NEW x \in Nat, NEW y \in Nat, y <= offset,
         placed[i].group = 0, y = Top(placed[i]) \/ placed[i].kind = "flex"
  PROVE  Shape([next |-> i + 1, pos |-> x, end |-> y, group |-> {}, first |-> 0])
<1> DEFINE e == [next |-> i + 1, pos |-> x, end |-> y, group |-> {}, first |-> 0]
<1>1. i \in Nat /\ i > 0 /\ Len(placed) \in Nat /\ i <= Len(placed)
  BY ReadyTypes
<1>2. /\ e \in EmitType /\ e.next = i + 1 /\ e.end = y /\ e.group = {} /\ e.first = 0
  BY <1>1 DEF EmitType
<1> HIDE DEF e
<1>3. e.next \in 1 .. Len(placed) + 1 /\ e.next # 1 /\ e.next - 1 = i
  BY <1>1, <1>2
<1>4. Outside(e)
  BY <1>2, <1>3 DEF Outside
<1>5. Shape(e)
  BY <1>2, <1>3, <1>4 DEF Shape
<1> QED BY <1>5 DEF e

\* The loop is in the group that f starts.
LEMMA GroupNext ==
  ASSUME NEW v, Ready(v), NEW i, i = emit.next, NEW x \in Nat, NEW f \in 1 .. i, NEW g,
         placed[f].group = f, placed[f].master = placed[f].size,
         g = {k \in f .. i : placed[k].group # 0},
         \A k \in f .. i :
           /\ placed[k].kind = "bits"
           /\ placed[k].group # 0 =>
                /\ placed[k].group = f /\ placed[k].off = placed[f].off
                /\ placed[k].unit = placed[f].unit /\ placed[k].master = placed[f].master
  PROVE  Shape([next |-> i + 1, pos |-> x, end |-> Top(placed[f]), group |-> g, first |-> f])
<1> DEFINE e == [next |-> i + 1, pos |-> x, end |-> Top(placed[f]), group |-> g, first |-> f]
<1>1. i \in Nat /\ i > 0 /\ Len(placed) \in Nat /\ i <= Len(placed) /\ f \in Nat /\ f # 0
      /\ f \in Indices /\ Top(placed[f]) \in Nat /\ Top(placed[f]) <= offset
  <2>1. /\ i \in Nat /\ i > 0 /\ Len(placed) \in Nat /\ i <= Len(placed) /\ Indices = 1 .. Len(placed)
        /\ \A j \in Indices : Top(placed[j]) \in Nat /\ Top(placed[j]) <= offset
    BY ReadyTypes
  <2> QED BY <2>1
<1>2. g \subseteq Nat
  BY <1>1
<1>3. /\ e \in EmitType /\ e.next = i + 1 /\ e.end = Top(placed[f]) /\ e.group = g /\ e.first = f
  BY <1>1, <1>2 DEF EmitType
<1> HIDE DEF e
<1>4. e.next \in 1 .. Len(placed) + 1 /\ e.next - 1 = i
  BY <1>1, <1>3
<1>5. InGroup(e)
  BY <1>3, <1>4 DEF InGroup
<1>6. Shape(e)
  BY <1>1, <1>3, <1>4, <1>5 DEF Shape
<1> QED BY <1>6 DEF e

\* A datum of no bytes.
LEMMA DatumNone ==
  ASSUME NEW p \in Nat, NEW P \in SUBSET Nat
  PROVE  Datum(p, P, 0) = {}
<1>1. Datum(p, P, 0) \in SUBSET Nat /\ \A b \in Nat : b \in Datum(p, P, 0) => 8 * p <= b /\ b < 8 * (p + 0)
  BY DatumBit
<1>2. \A b \in Nat : ~(8 * p <= b /\ b < 8 * (p + 0))
  OBVIOUS
<1> QED BY <1>1, <1>2

\* The pending bits are a value.
LEMMA PendingNat ==
  ASSUME NEW v, Started(v)
  PROVE  Pending \in SUBSET Nat /\ (emit.first = 0 => Pending = {} /\ emit.group = {})
         /\ (emit.first # 0 => emit.first \in emit.group)
<1>1. CASE emit.first = 0
  <2>1. emit.group = {}
    BY <1>1 DEF Started, Emitting, Shape, Outside
  <2> QED BY <1>1, <2>1 DEF Pending
<1>2. CASE emit.first # 0
  <2>1. LayoutInv /\ WordInv /\ ChainInv /\ prim = "struct" /\ Shape(emit) /\ v \in SUBSET Nat
        /\ held = [k \in Indices |-> Converted(placed[k], v)]
    BY DEF Started, Emitting
  <2>2. Pending \in SUBSET Nat
    BY <1>2, <2>1, PendingBit
  <2>3. emit.first \in emit.group
    <3>1. InGroup(emit) /\ emit \in EmitType
      BY <1>2, <2>1 DEF Shape
    <3>2. emit.first \in emit.first .. emit.next - 1
      BY <3>1 DEF InGroup, EmitType
    <3> QED BY <1>2, <3>1, <3>2 DEF InGroup
  <2> QED BY <1>2, <2>2, <2>3
<1> QED BY <1>1, <1>2

\* No padding after a group: what follows it starts where it ends.
LEMMA Follows ==
  ASSUME NEW v, Ready(v), NEW i, i = emit.next, emit.first # 0, NoGapAfterFields,
         placed[i].kind = "bits" => placed[i].group = i
  PROVE  placed[i].off = placed[emit.first].off + placed[emit.first].unit
<1> DEFINE f == emit.first
<1>1. /\ i \in Indices /\ i \in Nat /\ Indices = 1 .. Len(placed) /\ Len(placed) \in Nat /\ i <= Len(placed)
      /\ Shape(emit) /\ f \in Nat /\ \A j \in Indices : Chained(j)
  BY ReadyTypes
<1>2. InGroup(emit)
  BY <1>1 DEF Shape
<1>3. f \in 1 .. i-1 /\ placed[f].group = f /\ f # 0
  BY <1>2 DEF InGroup
<1>4. f \in Indices /\ f < i /\ f \in f .. i-1
  BY <1>1, <1>3
<1>5. placed[f].kind = "bits" /\ placed[f].bits > 0
  BY <1>1, <1>3, <1>4 DEF Chained
<1>6. ASSUME NEW k \in f+1 .. i-1 PROVE placed[k].kind = "bits" /\ ~IsFirstBitfield(k)
  <2>1. k \in f .. i-1 /\ k # f /\ k # 0
    BY <1>1, <1>3
  <2>2. placed[k].kind = "bits" /\ (placed[k].group # 0 => placed[k].group = f)
    BY <1>2, <2>1 DEF InGroup
  <2> QED BY <2>1, <2>2 DEF IsFirstBitfield
<1>7. placed[i].kind = "bits" => IsFirstBitfield(i)
  BY DEF IsFirstBitfield
<1> HIDE DEF f
<1>8. placed[i].off = placed[f].off + placed[f].unit
  BY <1>1, <1>4, <1>5, <1>6, <1>7 DEF NoGapAfterFields
<1> QED BY <1>8 DEF f

\* The first field of a group reserves its whole type.
LEMMA SnugFirst ==
  ASSUME NEW v, Started(v), emit.first # 0, Snug
  PROVE  /\ placed[emit.first].unit = placed[emit.first].size
         /\ Top(placed[emit.first]) = placed[emit.first].off + placed[emit.first].unit
<1> DEFINE f == emit.first
<1>1. /\ emit.next \in 1 .. Len(placed) + 1 /\ Indices = 1 .. Len(placed) /\ Len(placed) \in Nat
      /\ Shape(emit) /\ f \in Nat /\ \A j \in Indices : Chained(j)
  BY DEF Started, Emitting, Shape, EmitType, LayoutInv, TypeOK, ChainInv, Indices
<1>2. InGroup(emit)
  BY <1>1 DEF Shape
<1>3. f \in 1 .. emit.next-1 /\ placed[f].group = f /\ f # 0 /\ placed[f].master = placed[f].size
  BY <1>2 DEF InGroup
<1>4. f \in Indices
  BY <1>1, <1>3
<1>5. placed[f].kind = "bits" /\ placed[f].bits > 0
  BY <1>1, <1>3, <1>4 DEF Chained
<1>6. placed[f].unit = placed[f].size /\ Top(placed[f]) = placed[f].off + placed[f].unit
  BY <1>3, <1>4, <1>5 DEF Snug, Top
<1> QED BY <1>6

\* A field of no bits.
LEMMA AdvanceZero ==
  ASSUME NEW v, Ready(v), NEW i, i = emit.next, placed[i].kind = "bits", placed[i].bits = 0,
         EmitField(i, PadTo(placed[i]))
  PROVE  Advances(v)
<1>1. /\ i \in Indices /\ i \in Nat /\ i > 0 /\ Len(placed) \in Nat /\ i <= Len(placed)
      /\ Indices = 1 .. Len(placed) /\ Chained(i)
      /\ Shape(emit) /\ emit \in EmitType /\ emit.pos \in Nat /\ emit.end \in Nat /\ emit.first \in Nat
      /\ emit.end <= offset /\ emit.group \subseteq Indices /\ Done(emit) \subseteq Indices
  BY ReadyTypes
<1>2. placed[i].group = 0 /\ ~IsFirstBitfield(i) /\ Width(placed[i]) = 0
  BY <1>1 DEF Chained, IsFirstBitfield, Width
<1>3. Pending \in SUBSET Nat /\ (emit.first = 0 => emit.group = {})
  BY PendingNat DEF Ready
<1>4. PadTo(placed[i]) = emit.pos
  <2>1. CASE emit.first = 0
    <3>1. placed[i].off = emit.end
      BY <1>2, <2>1, NextMember
    <3> QED BY <1>1, <3>1 DEF PadTo
  <2>2. CASE emit.first # 0
    BY <1>1, <2>2 DEF PadTo, Pads
  <2> QED BY <2>1, <2>2
<1>5. EndAfter(i) = emit.end
  BY <1>2 DEF EndAfter
<1>6. mem' = mem \cup Datum(emit.pos, Pending, 0) /\ Datum(emit.pos, Pending, 0) = {}
  <2>1. mem' = mem \cup Datum(emit.pos, Pending, 0)
    BY <1>2, <1>4 DEF EmitField
  <2> QED BY <1>1, <1>3, <2>1, DatumNone
<1>7. mem' = mem
  BY <1>6
<1>8. emit' = [next |-> i + 1, pos |-> emit.pos, end |-> emit.end, group |-> emit.group, first |-> emit.first]
  <2>1. emit' = [next |-> i + 1, pos |-> emit.pos + 0, end |-> emit.end, group |-> emit.group, first |-> emit.first]
    BY <1>2, <1>3, <1>4, <1>5 DEF EmitField
  <2> QED BY <1>1, <2>1
<1>9. Shape(emit')
  <2>1. CASE emit.first = 0
    <3>1. emit.end = Top(placed[i]) /\ emit.group = {}
      BY <1>2, <1>3, <2>1, NextMember
    <3> QED BY <1>1, <1>2, <1>8, <2>1, <3>1, OutsideNext
  <2>2. CASE emit.first # 0
    <3> DEFINE f == emit.first
    <3>1. InGroup(emit)
      BY <1>1, <2>2 DEF Shape
    <3>2. /\ f \in 1 .. i-1 /\ placed[f].group = f /\ placed[f].master = placed[f].size
          /\ emit.end = Top(placed[f]) /\ emit.group = {k \in f .. i-1 : placed[k].group # 0}
          /\ \A k \in f .. i-1 :
               /\ placed[k].kind = "bits"
               /\ placed[k].group # 0 =>
                    /\ placed[k].group = f /\ placed[k].off = placed[f].off
                    /\ placed[k].unit = placed[f].unit /\ placed[k].master = placed[f].master
      BY <3>1 DEF InGroup
    <3> HIDE DEF f
    <3>3. f \in 1 .. i /\ \A k \in f .. i : k \in f .. i-1 \/ k = i
      BY <1>1, <3>2
    <3>4. emit.group = {k \in f .. i : placed[k].group # 0}
      <4>1. f .. i-1 \subseteq f .. i
        BY <1>1, <3>2
      <4> QED BY <1>2, <3>2, <3>3, <4>1
    <3>5. \A k \in f .. i :
               /\ placed[k].kind = "bits"
               /\ placed[k].group # 0 =>
                    /\ placed[k].group = f /\ placed[k].off = placed[f].off
                    /\ placed[k].unit = placed[f].unit /\ placed[k].master = placed[f].master
      BY <1>2, <3>2, <3>3
    <3>6. Shape([next |-> i + 1, pos |-> emit.pos, end |-> Top(placed[f]), group |-> emit.group, first |-> f])
      BY <1>1, <3>2, <3>3, <3>4, <3>5, GroupNext
    <3> QED BY <1>8, <3>2, <3>6 DEF f
  <2> QED BY <2>1, <2>2
<1>10. ASSUME Snug, NoGapAfterFields
       PROVE  Position(emit') /\ WrittenTo(mem', emit'.pos, Done(emit'), v)
  <2>1. Position(emit) /\ WrittenTo(mem, emit.pos, Done(emit), v)
    BY <1>10 DEF Ready, Started, Emitting
  <2>2. emit'.pos = emit.pos /\ emit'.end = emit.end /\ emit'.first = emit.first /\ emit'.next = i + 1
        /\ emit'.group = emit.group
    BY <1>8
  <2>3. Position(emit')
    BY <1>1, <2>1, <2>2 DEF Position
  <2>4. Done(emit') \subseteq Done(emit) \cup {i}
    <3>1. (1 .. (i + 1) - 1) \subseteq (1 .. i-1) \cup {i}
      BY <1>1
    <3> QED BY <2>2, <3>1 DEF Done
  <2>5. WrittenTo(mem, emit.pos, Done(emit'), v)
    <3>1. ASSUME NEW k \in Done(emit'), Width(placed[k]) > 0
          PROVE  BitsAre(placed[k], mem, v) /\ End(placed[k]) <= 8 * emit.pos
      <4>1. k \in Done(emit)
        BY <1>2, <2>4, <3>1
      <4> QED BY <2>1, <3>1, <4>1 DEF WrittenTo
    <3> QED BY <2>1, <3>1 DEF WrittenTo
  <2> QED BY <1>7, <2>2, <2>3, <2>5
<1> QED BY <1>9, <1>10 DEF Advances

\* A field that continues the group.
LEMMA AdvanceJoin ==
  ASSUME NEW v, Ready(v), NEW i, i = emit.next, placed[i].kind = "bits", placed[i].bits > 0,
         ~IsFirstBitfield(i), EmitField(i, PadTo(placed[i]))
  PROVE  Advances(v)
<1> DEFINE f == emit.first
<1>1. /\ i \in Indices /\ i \in Nat /\ i > 0 /\ Len(placed) \in Nat /\ i <= Len(placed)
      /\ Indices = 1 .. Len(placed) /\ Chained(i)
      /\ Shape(emit) /\ emit \in EmitType /\ emit.pos \in Nat /\ emit.end \in Nat /\ f \in Nat
      /\ emit.group \subseteq Indices /\ Done(emit) \subseteq Indices /\ placed[i].bits \in Nat
  BY ReadyTypes
<1>2. placed[i].group # 0 /\ placed[i].group # i
  BY <1>1 DEF Chained, IsFirstBitfield
<1>3. /\ f # 0 /\ placed[i].group = f /\ placed[i].off = placed[f].off
      /\ placed[i].unit = placed[f].unit /\ placed[i].master = placed[f].master
  BY <1>2, NextMember
<1>4. Pending \in SUBSET Nat
  BY PendingNat DEF Ready
<1>5. PadTo(placed[i]) = emit.pos /\ EndAfter(i) = emit.end
  BY <1>1, <1>3 DEF PadTo, Pads, EndAfter
<1>6. mem' = mem \cup Datum(emit.pos, Pending, 0) /\ Datum(emit.pos, Pending, 0) = {}
  <2>1. mem' = mem \cup Datum(emit.pos, Pending, 0)
    BY <1>3, <1>5 DEF EmitField
  <2> QED BY <1>1, <1>4, <2>1, DatumNone
<1>7. mem' = mem
  BY <1>6
<1>8. emit' = [next |-> i + 1, pos |-> emit.pos, end |-> emit.end, group |-> emit.group \cup {i}, first |-> f]
  <2>1. emit' = [next |-> i + 1, pos |-> emit.pos + 0, end |-> emit.end, group |-> emit.group \cup {i}, first |-> f]
    <3>1. placed[i].bits # 0
      BY <1>1
    <3>2. ~(emit.first = 0 \/ IsFirstBitfield(i))
      BY <1>3
    <3> QED BY <1>5, <3>1, <3>2, Zenon DEF EmitField
  <2>2. emit.pos + 0 = emit.pos
    BY <1>1
  <2> QED BY <2>1, <2>2, Zenon
<1>9. Shape(emit')
  <2>1. InGroup(emit)
    BY <1>1, <1>3 DEF Shape
  <2>2. /\ f \in 1 .. i-1 /\ placed[f].group = f /\ placed[f].master = placed[f].size
        /\ emit.end = Top(placed[f]) /\ emit.group = {k \in f .. i-1 : placed[k].group # 0}
        /\ \A k \in f .. i-1 :
             /\ placed[k].kind = "bits"
             /\ placed[k].group # 0 =>
                  /\ placed[k].group = f /\ placed[k].off = placed[f].off
                  /\ placed[k].unit = placed[f].unit /\ placed[k].master = placed[f].master
    BY <2>1 DEF InGroup
  <2> HIDE DEF f
  <2>3. f \in 1 .. i /\ i \in f .. i /\ \A k \in f .. i : k \in f .. i-1 \/ k = i
    BY <1>1, <2>2
  <2>4. emit.group \cup {i} = {k \in f .. i : placed[k].group # 0}
    <3>1. f .. i-1 \subseteq f .. i
      BY <1>1, <2>2
    <3> QED BY <1>2, <2>2, <2>3, <3>1
  <2>5. \A k \in f .. i :
             /\ placed[k].kind = "bits"
             /\ placed[k].group # 0 =>
                  /\ placed[k].group = f /\ placed[k].off = placed[f].off
                  /\ placed[k].unit = placed[f].unit /\ placed[k].master = placed[f].master
    BY <1>3, <2>2, <2>3
  <2>6. Shape([next |-> i + 1, pos |-> emit.pos, end |-> Top(placed[f]), group |-> emit.group \cup {i}, first |-> f])
    BY <1>1, <2>2, <2>3, <2>4, <2>5, GroupNext
  <2> QED BY <1>8, <2>2, <2>6
<1>10. ASSUME Snug, NoGapAfterFields
       PROVE  Position(emit') /\ WrittenTo(mem', emit'.pos, Done(emit'), v)
  <2>1. Position(emit) /\ WrittenTo(mem, emit.pos, Done(emit), v)
    BY <1>10 DEF Ready, Started, Emitting
  <2>2. emit'.pos = emit.pos /\ emit'.first = f /\ emit'.next = i + 1 /\ emit'.group = emit.group \cup {i}
    BY <1>8
  <2>3. Position(emit')
    BY <1>3, <2>1, <2>2 DEF Position
  <2>4. Done(emit') \subseteq Done(emit)
    <3>1. (1 .. (i + 1) - 1) \subseteq (1 .. i-1) \cup {i}
      BY <1>1
    <3> QED BY <2>2, <3>1 DEF Done
  <2>5. WrittenTo(mem, emit.pos, Done(emit'), v)
    BY <2>1, <2>4 DEF WrittenTo
  <2> QED BY <1>7, <2>2, <2>3, <2>5
<1> QED BY <1>9, <1>10 DEF Advances

\* The first field of a group; the one before it is written.
LEMMA AdvanceStart ==
  ASSUME NEW v, Ready(v), NEW i, i = emit.next, placed[i].kind = "bits", placed[i].bits > 0,
         IsFirstBitfield(i), EmitField(i, PadTo(placed[i]))
  PROVE  Advances(v)
<1> DEFINE f == emit.first
           sz == IF f # 0 THEN placed[f].size ELSE 0
           pos == IF f # 0 THEN emit.pos ELSE emit.pos + (placed[i].off - emit.end)
<1>1. /\ i \in Indices /\ i \in Nat /\ i > 0 /\ Len(placed) \in Nat /\ i <= Len(placed)
      /\ Indices = 1 .. Len(placed) /\ Chained(i)
      /\ Shape(emit) /\ emit \in EmitType /\ emit.pos \in Nat /\ emit.end \in Nat /\ f \in Nat
      /\ emit.group \subseteq Indices /\ Done(emit) \subseteq Indices
      /\ placed[i].off \in Nat /\ placed[i].unit \in Nat /\ placed[i].bits \in Nat
      /\ \A j \in Indices : placed[j].off \in Nat /\ placed[j].unit \in Nat /\ placed[j].size \in Nat
  BY ReadyTypes
<1>2. placed[i].group = i /\ placed[i].group # 0 /\ placed[i].master = placed[i].size
  <2>1. placed[i].group = i
    BY DEF IsFirstBitfield
  <2> QED BY <1>1, <2>1, NextMember
<1>3. f # 0 => f \in Indices
  BY <1>1, PendingNat DEF Ready
<1>4. f = 0 => emit.end <= placed[i].off
  BY NextMember
<1>5. pos \in Nat /\ sz \in Nat /\ pos >= emit.pos
  BY <1>1, <1>3, <1>4
<1>6. Pending \in SUBSET Nat /\ (f = 0 => Pending = {} /\ emit.group = {})
  BY PendingNat DEF Ready
<1>7. PadTo(placed[i]) = pos /\ EndAfter(i) = Top(placed[i])
  BY <1>1 DEF PadTo, Pads, EndAfter, Top
<1>8. mem' = mem \cup Datum(pos, Pending, sz)
  BY <1>7 DEF EmitField
<1>9. emit' = [next |-> i + 1, pos |-> pos + sz, end |-> Top(placed[i]), group |-> {i}, first |-> i]
  <2>1. emit' = [next |-> i + 1, pos |-> pos + sz, end |-> Top(placed[i]),
                 group |-> (IF f # 0 THEN {} ELSE emit.group) \cup {i}, first |-> i]
    <3>1. placed[i].bits # 0
      BY <1>1
    <3>2. f # 0 \/ f = 0
      OBVIOUS
    <3>3. CASE f # 0
      BY <1>7, <3>1, <3>3, Zenon DEF EmitField
    <3>4. CASE f = 0
      BY <1>7, <3>1, <3>4, Zenon DEF EmitField
    <3> QED BY <3>2, <3>3, <3>4
  <2>2. (IF f # 0 THEN {} ELSE emit.group) \cup {i} = {i}
    BY <1>6
  <2> QED BY <2>1, <2>2
<1> HIDE DEF f, sz, pos
<1>10. Shape(emit')
  <2>1. i .. i = {i} /\ i \in 1 .. i
    BY <1>1
  <2>2. {i} = {k \in i .. i : placed[k].group # 0}
    BY <1>2, <2>1
  <2>3. \A k \in i .. i :
             /\ placed[k].kind = "bits"
             /\ placed[k].group # 0 =>
                  /\ placed[k].group = i /\ placed[k].off = placed[i].off
                  /\ placed[k].unit = placed[i].unit /\ placed[k].master = placed[i].master
    BY <1>2, <2>1
  <2>4. pos + sz \in Nat
    BY <1>5
  <2>5. Shape([next |-> i + 1, pos |-> pos + sz, end |-> Top(placed[i]), group |-> {i}, first |-> i])
    BY <1>2, <2>1, <2>2, <2>3, <2>4, GroupNext
  <2> QED BY <1>9, <2>5
<1>11. ASSUME Snug, NoGapAfterFields
       PROVE  Position(emit') /\ WrittenTo(mem', emit'.pos, Done(emit'), v)
  <2>1. Position(emit) /\ WrittenTo(mem, emit.pos, Done(emit), v)
    BY <1>11 DEF Ready, Started, Emitting
  <2>2. emit'.pos = pos + sz /\ emit'.first = i /\ emit'.next = i + 1 /\ emit'.group = {i}
    BY <1>9
  <2>3. Done(emit') \subseteq Done(emit) \cup emit.group
    <3>1. (1 .. (i + 1) - 1) \subseteq (1 .. i-1) \cup {i}
      BY <1>1
    <3> QED BY <2>2, <3>1 DEF Done
  <2>4. ASSUME WrittenTo(mem', pos + sz, Done(emit) \cup emit.group, v)
        PROVE  WrittenTo(mem', emit'.pos, Done(emit'), v)
    BY <2>2, <2>3, <2>4 DEF WrittenTo
  <2>5. CASE f = 0
    <3>1. emit.pos = emit.end
      BY <1>1, <2>1, <2>5 DEF Position, f
    <3>2. pos = placed[i].off /\ sz = 0 /\ emit.group = {} /\ Pending = {}
      BY <1>1, <1>6, <2>5, <3>1 DEF pos, sz
    <3>3. mem' = mem /\ pos + sz = pos
      <4>1. Datum(pos, Pending, 0) = {}
        BY <1>5, <1>6, DatumNone
      <4> QED BY <1>5, <1>8, <3>2, <4>1
    <3>4. WrittenTo(mem, pos, Done(emit), v)
      <4>1. LayoutInv
        BY DEF Ready, Started
      <4> QED BY <1>1, <1>5, <2>1, <4>1, WrittenOn
    <3>5. Done(emit) \cup emit.group = Done(emit)
      BY <3>2
    <3>6. Position(emit')
      BY <1>1, <2>2, <3>2, <3>3 DEF Position
    <3> QED BY <2>4, <3>3, <3>4, <3>5, <3>6
  <2>6. CASE f # 0
    <3>1. emit.pos = placed[f].off
      BY <2>1, <2>6 DEF Position, f
    <3>2. sz = placed[f].size /\ pos = emit.pos /\ placed[f].unit = placed[f].size
      BY <1>11, <2>6, SnugFirst DEF Ready, sz, pos, f
    <3>3. placed[i].off = placed[f].off + placed[f].unit
      BY <1>2, <1>11, <2>6, Follows DEF f
    <3>4. Position(emit')
      BY <1>1, <2>2, <3>1, <3>2, <3>3 DEF Position
    <3>5. WrittenTo(mem \cup Datum(pos, Pending, sz), pos + sz, Done(emit) \cup emit.group, v)
      <4>1. /\ LayoutInv /\ WordInv /\ ChainInv /\ prim = "struct" /\ Shape(emit) /\ v \in SUBSET Nat
            /\ held = [k \in Indices |-> Converted(placed[k], v)] /\ Done(emit) \in SUBSET Indices
        BY <1>1 DEF Ready, Started, Emitting
      <4>2. pos \in Nat /\ pos = placed[emit.first].off /\ sz \in Nat /\ sz = placed[emit.first].unit
            /\ pos >= emit.pos /\ emit.first # 0
        BY <1>5, <2>6, <3>1, <3>2 DEF f
      <4> QED BY <1>11, <2>1, <4>1, <4>2, WriteGroup
    <3> QED BY <1>8, <2>4, <3>4, <3>5
  <2> QED BY <2>5, <2>6
<1> QED BY <1>10, <1>11 DEF Advances

\* A member that is no bit-field; the group before it is written.
LEMMA AdvanceNormal ==
  ASSUME NEW v, Ready(v), NEW i, i = emit.next, placed[i].kind # "bits", EmitNormal(i, PadTo(placed[i]))
  PROVE  Advances(v)
<1> DEFINE f == emit.first
           sz == IF f # 0 THEN placed[f].unit ELSE 0
           pos == emit.pos + (placed[i].off - emit.end)
           size1 == placed[i].size
<1>1. /\ i \in Indices /\ i \in Nat /\ i > 0 /\ Len(placed) \in Nat /\ i <= Len(placed)
      /\ Indices = 1 .. Len(placed) /\ Chained(i)
      /\ Shape(emit) /\ emit \in EmitType /\ emit.pos \in Nat /\ emit.end \in Nat /\ f \in Nat
      /\ emit.end <= offset /\ offset \in Nat
      /\ emit.group \subseteq Indices /\ Done(emit) \subseteq Indices
      /\ placed[i].off \in Nat /\ size1 \in Nat /\ Top(placed[i]) \in Nat /\ Top(placed[i]) <= offset
      /\ \A j \in Indices : placed[j].off \in Nat /\ placed[j].unit \in Nat
      /\ placed[i] \in PlacedType /\ held = [k \in Indices |-> Converted(placed[k], v)] /\ v \in SUBSET Nat
  BY ReadyTypes
<1>2. /\ LayoutInv /\ WordInv /\ ChainInv /\ prim = "struct"
  BY DEF Ready, Started
<1>3. /\ placed[i].group = 0 /\ placed[i].kind \in {"normal", "flex"}
      /\ placed[i].kind = "flex" => size1 = 0 /\ i = Len(placed)
  BY <1>1 DEF Chained
<1>4. /\ Pending \in SUBSET Nat /\ (f = 0 => Pending = {} /\ emit.group = {})
      /\ (f # 0 => f \in emit.group /\ f \in Indices)
  BY <1>1, PendingNat DEF Ready
<1>5. emit.end <= placed[i].off
  BY NextMember
<1>6. pos \in Nat /\ sz \in Nat /\ pos >= emit.pos
  <2>1. sz \in Nat
    BY <1>1, <1>4
  <2>2. placed[i].off \in Nat /\ emit.end \in Nat /\ emit.pos \in Nat
    BY <1>1
  <2>3. pos \in Nat /\ pos >= emit.pos
    BY <1>5, <2>2
  <2> QED BY <2>1, <2>3
<1>7. PadTo(placed[i]) = pos /\ Top(placed[i]) = placed[i].off + size1
      /\ EndAfter(i) = IF placed[i].kind = "flex" THEN emit.end ELSE Top(placed[i])
  BY <1>1 DEF PadTo, Pads, EndAfter, Top
<1>8. /\ mem' = mem \cup Datum(pos, Pending, sz) \cup Datum(pos + sz, held[i], size1)
      /\ emit' = [next |-> i + 1, pos |-> pos + sz + size1, end |-> EndAfter(i), group |-> {}, first |-> 0]
  <2>1. CASE f = 0
    BY <1>4, <1>7, <2>1, Zenon DEF EmitNormal
  <2>2. CASE f # 0
    <3>1. emit.group # {}
      BY <1>4, <2>2
    <3> QED BY <1>7, <2>2, <3>1, Zenon DEF EmitNormal
  <2> QED BY <2>1, <2>2
<1>9. EndAfter(i) \in Nat /\ EndAfter(i) <= offset /\ (EndAfter(i) = Top(placed[i]) \/ placed[i].kind = "flex")
  BY <1>1, <1>7
<1> HIDE DEF f, sz, pos, size1
<1>10. Shape(emit')
  <2>1. pos + sz + size1 \in Nat
    BY <1>1, <1>6
  <2> QED BY <1>3, <1>8, <1>9, <2>1, OutsideNext
<1>11. ASSUME Snug, NoGapAfterFields
       PROVE  Position(emit') /\ WrittenTo(mem', emit'.pos, Done(emit'), v)
  <2>1. Position(emit) /\ WrittenTo(mem, emit.pos, Done(emit), v)
    BY <1>11 DEF Ready, Started, Emitting
  <2>2. emit'.pos = pos + sz + size1 /\ emit'.first = 0 /\ emit'.next = i + 1 /\ emit'.group = {}
        /\ emit'.end = EndAfter(i)
    BY <1>8
  <2>3. Done(emit') \subseteq (Done(emit) \cup emit.group) \cup {i}
    <3>1. (1 .. (i + 1) - 1) \subseteq (1 .. i-1) \cup {i}
      BY <1>1
    <3> QED BY <2>2, <3>1 DEF Done
  <2>4. ASSUME WrittenTo(mem', pos + sz + size1, (Done(emit) \cup emit.group) \cup {i}, v)
        PROVE  WrittenTo(mem', emit'.pos, Done(emit'), v)
    BY <2>2, <2>3, <2>4 DEF WrittenTo
  <2>5. held[i] = Converted(placed[i], v)
    BY <1>1
  <2>6. CASE f = 0
    <3>1. emit.pos = emit.end
      BY <1>1, <2>1, <2>6 DEF Position, f
    <3>2. pos = placed[i].off /\ sz = 0 /\ emit.group = {} /\ Pending = {}
      BY <1>1, <1>4, <2>6, <3>1 DEF pos, sz
    <3>3. mem' = mem \cup Datum(placed[i].off, held[i], size1) /\ pos + sz = placed[i].off
      <4>1. Datum(pos, Pending, 0) = {}
        BY <1>4, <1>6, DatumNone
      <4>2. pos + sz = placed[i].off
        BY <1>1, <3>2
      <4> QED BY <1>8, <3>2, <4>1, <4>2
    <3>4. placed[i].off >= emit.pos
      BY <1>6, <3>2
    <3>5. WrittenTo(mem \cup Datum(placed[i].off, held[i], placed[i].size), placed[i].off + placed[i].size,
                    Done(emit) \cup {i}, v)
      BY <1>1, <1>2, <2>1, <2>5, <3>4, WriteNormal
    <3>6. (Done(emit) \cup emit.group) \cup {i} = Done(emit) \cup {i}
      BY <3>2
    <3>7. WrittenTo(mem', emit'.pos, Done(emit'), v)
      BY <2>4, <3>3, <3>5, <3>6 DEF size1
    <3>8. Position(emit')
      <4>1. CASE placed[i].kind = "flex"
        <5>1. emit'.pos >= emit'.end /\ emit'.next > Len(placed) /\ placed[Len(placed)].kind = "flex"
          BY <1>1, <1>3, <1>5, <1>7, <2>2, <3>3, <4>1
        <5> QED BY <2>2, <5>1 DEF Position
      <4>2. CASE placed[i].kind # "flex"
        BY <1>7, <2>2, <3>3, <4>2 DEF Position
      <4> QED BY <4>1, <4>2
    <3> QED BY <3>7, <3>8
  <2>7. CASE f # 0
    <3>1. emit.pos = placed[f].off /\ sz = placed[f].unit
      BY <2>1, <2>7 DEF Position, f, sz
    <3>2. emit.end = placed[f].off + placed[f].unit
      <4>1. Top(placed[f]) = placed[f].off + placed[f].unit
        BY <1>11, <2>7, SnugFirst DEF f, Ready
      <4>2. emit.end = Top(placed[f])
        BY <1>1, <2>7 DEF Shape, InGroup, f
      <4> QED BY <4>1, <4>2
    <3>3. placed[i].off = placed[f].off + placed[f].unit
      BY <1>11, <2>7, Follows DEF f
    <3>4. pos = emit.pos /\ pos + sz = placed[i].off /\ pos + sz = emit.end
      BY <1>1, <1>4, <2>7, <3>1, <3>2, <3>3 DEF pos
    <3>5. WrittenTo(mem \cup Datum(pos, Pending, sz), pos + sz, Done(emit) \cup emit.group, v)
      <4>1. pos \in Nat /\ pos = placed[emit.first].off /\ sz \in Nat /\ sz = placed[emit.first].unit
            /\ pos >= emit.pos /\ emit.first # 0
        BY <1>6, <2>7, <3>1, <3>4 DEF f
      <4> QED BY <1>1, <1>2, <1>11, <2>1, <4>1, WriteGroup
    <3> DEFINE m == mem \cup Datum(pos, Pending, sz)
               done == Done(emit) \cup emit.group
    <3>6. mem' = m \cup Datum(placed[i].off, held[i], size1)
      BY <1>8, <3>4
    <3>7. WrittenTo(m, placed[i].off, done, v) /\ done \in SUBSET Indices
      BY <1>1, <3>4, <3>5
    <3> HIDE DEF m, done
    <3>8. placed[i].off >= placed[i].off
      BY <1>1
    <3>9. WrittenTo(m \cup Datum(placed[i].off, held[i], placed[i].size), placed[i].off + placed[i].size,
                    done \cup {i}, v)
      BY <1>1, <1>2, <2>5, <3>7, <3>8, WriteNormal
    <3>10. WrittenTo(mem', emit'.pos, Done(emit'), v)
      BY <2>4, <3>4, <3>6, <3>9 DEF size1, done
    <3>11. Position(emit')
      <4>1. CASE placed[i].kind = "flex"
        <5>1. emit'.pos = emit'.end
          BY <1>1, <1>3, <1>7, <2>2, <3>4, <4>1
        <5> QED BY <2>2, <5>1 DEF Position
      <4>2. CASE placed[i].kind # "flex"
        BY <1>7, <2>2, <3>4, <4>2 DEF Position
      <4> QED BY <4>1, <4>2
    <3> QED BY <3>10, <3>11
  <2> QED BY <2>6, <2>7
<1> QED BY <1>10, <1>11 DEF Advances

\* The padding is never negative, and every member leaves the loop as it
\* should be.
LEMMA MemberStep ==
  ASSUME NEW v, Started(v), EmitMember
  PROVE  phase' = "emit" /\ Emitting(v)'
<1> DEFINE i == emit.next
<1>1. phase = "emit" /\ i \in Indices /\ UNCHANGED <<layoutVars, held, known, stores>>
  BY DEF EmitMember
<1>2. Ready(v)
  BY <1>1 DEF Ready
<1>3. /\ i \in Indices /\ Chained(i) /\ emit.end \in Nat /\ placed[i].off \in Nat /\ placed[i].bits \in Nat
  BY <1>2, ReadyTypes
<1>4. Pads(placed[i]) => emit.end <= placed[i].off
  BY <1>2, NextMember DEF Pads
<1>5. phase' = phase /\ (EmitField(i, PadTo(placed[i])) \/ EmitNormal(i, PadTo(placed[i])))
  <2>1. ~(Pads(placed[i]) /\ placed[i].off < emit.end)
    BY <1>3, <1>4
  <2> QED BY <2>1, Zenon DEF EmitMember
<1> HIDE DEF i
<1>6. ASSUME EmitNormal(i, PadTo(placed[i])) PROVE Advances(v)
  BY <1>2, <1>6, AdvanceNormal DEF i, EmitNormal
<1>7. ASSUME EmitField(i, PadTo(placed[i])) PROVE Advances(v)
  <2>1. placed[i].kind = "bits"
    BY <1>7 DEF EmitField
  <2>2. CASE placed[i].bits = 0
    BY <1>2, <1>7, <2>1, <2>2, AdvanceZero DEF i
  <2>3. CASE placed[i].bits > 0 /\ IsFirstBitfield(i)
    BY <1>2, <1>7, <2>1, <2>3, AdvanceStart DEF i
  <2>4. CASE placed[i].bits > 0 /\ ~IsFirstBitfield(i)
    BY <1>2, <1>7, <2>1, <2>4, AdvanceJoin DEF i
  <2>5. placed[i].bits = 0 \/ placed[i].bits > 0
    BY <1>3
  <2> QED BY <2>2, <2>3, <2>4, <2>5
<1>8. Advances(v)
  BY <1>5, <1>6, <1>7
<1>9. /\ placed' = placed /\ prim' = prim /\ offset' = offset /\ held' = held /\ known' = known
      /\ Indices' = Indices /\ prim = "struct"
  BY <1>1 DEF layoutVars, Indices, Started
<1>10. Snug' = Snug /\ NoGapAfterFields' = NoGapAfterFields
  BY <1>9 DEF Snug, NoGapAfterFields, IsFirstBitfield
<1>11. Shape(emit)'
  BY <1>8, <1>9 DEF Advances, Shape, Outside, InGroup, Top
<1>12. Snug /\ NoGapAfterFields => Position(emit)' /\ WrittenTo(mem, emit.pos, Done(emit), v)'
  BY <1>8, <1>9 DEF Advances, Position, WrittenTo, Done, BitsAre, Begin, End, Width
<1>13. held' = [j \in Indices' |-> Converted(placed'[j], v)] /\ known' = Indices'
  BY <1>9 DEF Started, Emitting
<1> QED BY <1>1, <1>5, <1>9, <1>10, <1>11, <1>12, <1>13 DEF Emitting, Converted, Low, Width

-----------------------------------------------------------------------------
(* The ends of the loop.                                                    *)

\* What is left of ImageMatchesLayout when the image is complete.
LEMMA TailStep ==
  ASSUME NEW v, Started(v), status = "folded", EmitTail
  PROVE  ImageMatchesLayout'
<1> DEFINE f == emit.first
           sz == IF f # 0 THEN placed[f].size ELSE 0
<1>1. /\ Shape(emit) /\ emit \in EmitType /\ emit.end \in Nat /\ emit.pos \in Nat /\ f \in Nat
      /\ emit.next \in 1 .. Len(placed) + 1 /\ emit.end <= offset /\ offset \in Nat /\ size \in Nat
      /\ emit.next > Len(placed) /\ Len(placed) \in Nat /\ Indices = 1 .. Len(placed)
      /\ LayoutInv /\ WordInv /\ ChainInv /\ prim = "struct" /\ v \in SUBSET Nat
      /\ held = [k \in Indices |-> Converted(placed[k], v)] /\ known = Indices
  BY DEF Started, Emitting, Shape, EmitType, EmitTail, LayoutInv, TypeOK, Indices
<1>2. /\ placed' = placed /\ prim' = prim /\ size' = size /\ held' = held /\ known' = known
      /\ Indices' = Indices
  BY DEF EmitTail, layoutVars, Indices
<1>3. offset <= size
  BY <1>1 DEF WordInv, Sized
<1>4. phase' = "image"
  BY <1>1, <1>3 DEF EmitTail
<1>5. /\ Pending \in SUBSET Nat /\ (f = 0 => Pending = {} /\ emit.group = {})
      /\ (f # 0 => f \in emit.group)
  BY PendingNat
<1>6. emit.group \subseteq Indices /\ (f # 0 => f \in Indices)
  <2>1. CASE f = 0
    BY <1>5, <2>1
  <2>2. CASE f # 0
    <3>1. emit.group \subseteq f .. emit.next - 1 /\ f \in 1 .. emit.next-1
      BY <1>1, <2>2 DEF Shape, InGroup
    <3>2. f .. emit.next - 1 \subseteq Indices
      BY <1>1, <3>1
    <3> QED BY <1>5, <3>1, <3>2
  <2> QED BY <2>1, <2>2
<1>7. sz \in Nat
  <2>1. f # 0 => placed[f] \in PlacedType
    BY <1>1, <1>6 DEF LayoutInv, TypeOK
  <2>2. f # 0 => placed[f].size \in Nat
    BY <2>1 DEF PlacedType
  <2> QED BY <2>2
<1>8. mem' = mem \cup Datum(emit.pos, Pending, sz) /\ emit'.pos = emit.pos + sz + size - emit.end
  <2>1. CASE f = 0
    <3>1. emit.group = {} /\ sz = 0
      BY <1>5, <2>1
    <3>2. /\ mem' = mem \cup Datum(emit.pos, Pending, 0)
          /\ emit' = [emit EXCEPT !.pos = @ + 0 + size - emit.end, !.group = {}]
      BY <3>1, Zenon DEF EmitTail
    <3>3. emit'.pos = emit.pos + 0 + size - emit.end
      BY <1>1, <3>2 DEF EmitType
    <3> QED BY <3>1, <3>2, <3>3
  <2>2. CASE f # 0
    <3>1. emit.group # {} /\ sz = placed[f].size
      BY <1>5, <2>2
    <3>2. /\ mem' = mem \cup Datum(emit.pos, Pending, placed[f].size)
          /\ emit' = [emit EXCEPT !.pos = @ + placed[f].size + size - emit.end, !.group = {}]
      BY <3>1, Zenon DEF EmitTail
    <3>3. emit'.pos = emit.pos + placed[f].size + size - emit.end
      BY <1>1, <3>2 DEF EmitType
    <3> QED BY <3>1, <3>2, <3>3
  <2> QED BY <2>1, <2>2
<1>9. ASSUME Snug, NoGapAfterFields
      PROVE  /\ emit'.pos = size \/ (emit'.pos > size /\ placed[Len(placed)].kind = "flex")
             /\ \A i \in Indices : Width(placed[i]) > 0 => BitsAre(placed[i], mem', v)
             /\ mem' \in SUBSET Nat
  <2>1. Position(emit) /\ WrittenTo(mem, emit.pos, Done(emit), v) /\ Done(emit) \in SUBSET Indices
    <3>1. Done(emit) \in SUBSET Indices
      BY <1>1 DEF Done
    <3> QED BY <1>9, <3>1 DEF Started, Emitting
  <2>2. Indices \subseteq Done(emit) \cup emit.group
    BY <1>1 DEF Done
  <2>3. CASE f = 0
    <3>1. mem' = mem /\ emit.group = {} /\ sz = 0
      <4>1. Datum(emit.pos, Pending, 0) = {}
        BY <1>1, <1>5, DatumNone
      <4> QED BY <1>5, <1>8, <2>3, <4>1
    <3>2. emit.pos = emit.end \/ (emit.pos >= emit.end /\ placed[Len(placed)].kind = "flex")
      BY <2>1, <2>3 DEF Position
    <3>3. emit'.pos = emit.pos + size - emit.end
      BY <1>1, <1>8, <3>1
    <3>4. emit'.pos = size \/ (emit'.pos > size /\ placed[Len(placed)].kind = "flex")
      BY <1>1, <3>2, <3>3
    <3> QED BY <2>1, <2>2, <3>1, <3>4 DEF WrittenTo
  <2>4. CASE f # 0
    <3>1. emit.pos = placed[f].off /\ sz = placed[f].size
      BY <2>1, <2>4 DEF Position
    <3>2. placed[f].unit = placed[f].size /\ emit.end = placed[f].off + placed[f].unit
      <4>1. placed[f].unit = placed[f].size /\ Top(placed[f]) = placed[f].off + placed[f].unit
        BY <1>9, <2>4, SnugFirst
      <4>2. emit.end = Top(placed[f])
        BY <1>1, <2>4 DEF Shape, InGroup
      <4> QED BY <4>1, <4>2
    <3>3. emit'.pos = size
      BY <1>1, <1>7, <1>8, <3>1, <3>2
    <3>4. WrittenTo(mem \cup Datum(emit.pos, Pending, sz), emit.pos + sz, Done(emit) \cup emit.group, v)
      <4>1. emit.pos = placed[emit.first].off /\ sz = placed[emit.first].unit /\ emit.pos >= emit.pos
            /\ emit.first # 0
        BY <1>1, <2>4, <3>1, <3>2
      <4> HIDE DEF sz, f
      <4> QED BY <1>1, <1>7, <1>9, <2>1, <4>1, WriteGroup
    <3> QED BY <1>8, <2>2, <3>3, <3>4 DEF WrittenTo
  <2> QED BY <2>3, <2>4
<1>10. ASSUME Snug, NoGapAfterFields, NEW i \in Indices, Width(placed[i]) > 0, ~WholeWord(placed[i])
       PROVE  Agrees(placed[i], out_deref(placed[i], mem'), held[i])
  <2>1. placed[i] \in PlacedType /\ Reached(placed[i])
    BY <1>1 DEF LayoutInv, TypeOK, WordInv
  <2>2. BitsAre(placed[i], mem', v) /\ mem' \in SUBSET Nat /\ held[i] = Converted(placed[i], v)
    BY <1>1, <1>9, <1>10
  <2> QED BY <1>1, <1>10, <2>1, <2>2, AgreesOK
<1>11. Snug' = Snug /\ NoGapAfterFields' = NoGapAfterFields
  BY <1>2 DEF Snug, NoGapAfterFields, IsFirstBitfield
<1>12. ASSUME Snug', NoGapAfterFields'
       PROVE  /\ emit'.pos = size' \/ (emit'.pos > size' /\ placed'[Len(placed')].kind = "flex")
              /\ \A i \in known' : Width(placed[i])' > 0 /\ AtStart(placed[i])' /\ ~WholeWord(placed[i])'
                   => Agrees(placed[i], out_deref(placed[i], mem), held[i])'
  <2>1. Snug /\ NoGapAfterFields
    BY <1>11, <1>12
  <2>2. emit'.pos = size' \/ (emit'.pos > size' /\ placed'[Len(placed')].kind = "flex")
    BY <1>2, <1>9, <2>1
  <2>3. ASSUME NEW i \in known', Width(placed[i])' > 0, ~WholeWord(placed[i])'
        PROVE  Agrees(placed[i], out_deref(placed[i], mem), held[i])'
    <3>1. i \in Indices /\ Width(placed[i]) > 0 /\ ~WholeWord(placed[i])
      BY <1>1, <1>2, <2>3 DEF Width, WholeWord
    <3>2. Agrees(placed[i], out_deref(placed[i], mem'), held[i])
      BY <1>10, <2>1, <3>1
    <3> QED BY <1>2, <3>2 DEF Agrees, out_deref, out_bitfield_to_scalar, LoadWord, WordBits, Width
  <2> QED BY <2>2, <2>3
<1> QED BY <1>4, <1>12 DEF ImageMatchesLayout

\* A union's image is that of the one member.
LEMMA UnionImage ==
  ASSUME LayoutInv, WordInv, ChainInv, NEW v \in SUBSET Nat, Emitting(v), status = "folded",
         NEW i \in Indices, EmitUnion(i)
  PROVE  ImageMatchesLayout'
<1> DEFINE r == placed[i]
           w == IF r.kind = "bits" THEN FieldBits(i, 0) ELSE held[i]
<1>1. /\ placed' = placed /\ prim' = prim /\ size' = size /\ held' = held /\ known' = {i}
      /\ Indices' = Indices /\ prim = "union" /\ Width(r) > 0 /\ mem' = Datum(0, w, r.size)
      /\ emit' = [emit EXCEPT !.pos = r.size + (size - r.size)]
      /\ phase' = IF size >= r.size THEN "image" ELSE "wraps"
  BY DEF EmitUnion, layoutVars, Indices
<1>2. r \in PlacedType /\ Reached(r) /\ size \in Nat /\ sz_max \in Nat /\ r.size \in Nat /\ r.bits \in Nat
  <2>1. r \in PlacedType /\ Reached(r) /\ size \in Nat /\ sz_max \in Nat
    BY DEF LayoutInv, TypeOK, WordInv, Indices
  <2> QED BY <2>1 DEF PlacedType
<1>3. emit = NoEmit /\ held = [k \in Indices |-> Converted(placed[k], v)]
  BY <1>1 DEF Emitting
<1>4. emit'.pos = size
  <2>1. emit'.pos = r.size + (size - r.size)
    BY <1>1, <1>3 DEF NoEmit
  <2> QED BY <1>2, <2>1
<1>5. ~(size >= r.size) => r.kind = "bits"
  <2>1. r.kind # "bits" => r.size <= sz_max /\ sz_max <= size
    BY <1>1 DEF ChainInv, UnionSized
  <2> QED BY <1>2, <2>1
<1>6. held[i] = Converted(r, v) /\ held[i] \in SUBSET Nat
  BY <1>2, <1>3, ConvertedNat
<1>7. Width(r) \in Nat /\ Width(r) <= 8 * r.size
  BY <1>1, <1>2 DEF Width, Reached
<1>8. w \in SUBSET Nat /\ \A b \in Nat : b < Width(r) => (b \in w <=> b \in held[i])
  <2>1. CASE r.kind = "bits"
    <3> DEFINE low == Low(held[i], r.bits)
    <3>1. low \in SUBSET Int /\ \A b \in Int : b \in low <=> 0 <= b /\ b < r.bits /\ b \in held[i]
      BY <1>6, LowBit
    <3>2. w = Shifted(low, 0) /\ Width(r) = r.bits
      BY <2>1 DEF FieldBits, Width
    <3> HIDE DEF low, w
    <3>3. Shifted(low, 0) \in SUBSET Int /\ \A b \in Int : b \in Shifted(low, 0) <=> b - 0 \in low
      BY <3>1, ShiftedBit
    <3>4. \A b \in Int : b \in w <=> 0 <= b /\ b < r.bits /\ b \in held[i]
      BY <3>1, <3>2, <3>3
    <3>5. ASSUME NEW b \in w PROVE b \in Nat
      <4>1. b \in Int
        BY <3>2, <3>3
      <4> QED BY <3>4, <4>1
    <3> QED BY <3>2, <3>4, <3>5
  <2>2. CASE r.kind # "bits"
    BY <1>6, <2>2
  <2> QED BY <2>1, <2>2
<1> HIDE DEF w
<1>9. /\ mem' \in SUBSET Nat
      /\ \A b \in Nat : b \in mem' <=> 8 * 0 <= b /\ b < 8 * (0 + r.size) /\ b - 8 * 0 \in w
  BY <1>1, <1>2, <1>8, DatumBit
<1>10. ASSUME r.off = 0, r.bitoff = 0, ~WholeWord(r) PROVE Agrees(r, out_deref(r, mem'), held[i])
  <2>1. Begin(r) = 0
    BY <1>10 DEF Begin
  <2>2. ASSUME NEW b \in 0 .. Width(r) - 1 PROVE Begin(r) + b \in mem' <=> b \in v
    <3>1. b \in Nat /\ b < Width(r) /\ Begin(r) + b = b /\ 8 * 0 <= b /\ b < 8 * (0 + r.size) /\ b - 8 * 0 = b
      BY <1>2, <1>7, <2>1
    <3>2. b \in mem' <=> b \in held[i]
      BY <1>8, <1>9, <3>1
    <3>3. b \in held[i] <=> b \in v
      <4>1. ~(Width(r) <= b)
        BY <1>7, <3>1
      <4> QED BY <1>1, <1>2, <1>6, <3>1, <4>1, ConvertedBit
    <3> QED BY <3>1, <3>2, <3>3
  <2>3. BitsAre(r, mem', v)
    BY <2>2 DEF BitsAre
  <2> QED BY <1>1, <1>2, <1>6, <1>9, <1>10, <2>3, AgreesOK
<1>11. ASSUME NEW k \in known', AtStart(placed[k])', ~WholeWord(placed[k])'
       PROVE  Agrees(placed[k], out_deref(placed[k], mem), held[k])'
  <2>1. k = i /\ r.off = 0 /\ r.bitoff = 0 /\ ~WholeWord(r)
    BY <1>1, <1>11 DEF AtStart, WholeWord
  <2>2. Agrees(r, out_deref(r, mem'), held[i])
    BY <1>10, <2>1
  <2>3. placed'[k] = r /\ held'[k] = held[i]
    BY <1>1, <2>1
  <2> HIDE DEF r
  <2> QED BY <2>2, <2>3 DEF Agrees, out_deref, out_bitfield_to_scalar, LoadWord, WordBits, Width
<1>12. phase' # "ICE"
  BY <1>1
<1>13. phase' = "wraps" => prim' = "union" /\ \A k \in known' : placed'[k].kind = "bits"
  BY <1>1, <1>5
<1> QED BY <1>1, <1>4, <1>11, <1>12, <1>13 DEF ImageMatchesLayout

\* The loop starts outside every group, with nothing written.
LEMMA StartStep ==
  ASSUME LayoutInv, ImageInv, NEW v \in Values, StartImage(v)
  PROVE  v \in SUBSET Nat /\ Emitting(v)'
<1>1. /\ placed' = placed /\ prim' = prim /\ offset' = offset /\ mem' = {} /\ emit' = NoEmit
      /\ held' = [i \in Indices |-> Converted(placed[i], v)] /\ known' = Indices /\ Indices' = Indices
      /\ v \in SUBSET Nat
  BY ObjectAssumption DEF StartImage, layoutVars, ImageInv, Indices
<1>2. Len(placed) \in Nat /\ offset \in Nat
  BY DEF LayoutInv, TypeOK
<1>3. /\ NoEmit \in EmitType /\ NoEmit.next = 1 /\ NoEmit.pos = 0 /\ NoEmit.end = 0 /\ NoEmit.group = {}
      /\ NoEmit.first = 0
  BY DEF NoEmit, EmitType
<1>4. Shape(NoEmit) /\ Position(NoEmit) /\ Done(NoEmit) = {}
  BY <1>2, <1>3 DEF Shape, Outside, Position, Done
<1>5. WrittenTo({}, 0, {}, v)
  BY DEF WrittenTo
<1>6. Shape(emit)' /\ Position(emit)' /\ WrittenTo(mem, emit.pos, Done(emit), v)'
  <2>1. Shape(emit)'
    BY <1>1, <1>4 DEF Shape, Outside, InGroup, Top
  <2>2. Position(emit)'
    BY <1>1, <1>4 DEF Position
  <2>3. mem' = {} /\ emit'.pos = 0 /\ Done(emit)' = {}
    BY <1>1, <1>3, <1>4 DEF Done
  <2>4. WrittenTo(mem, emit.pos, Done(emit), v)'
    BY <2>3 DEF WrittenTo
  <2> QED BY <2>1, <2>2, <2>4
<1>7. held' = [i \in Indices' |-> Converted(placed'[i], v)]
  BY <1>1
<1> QED BY <1>1, <1>6, <1>7 DEF Emitting, Converted, Low, Width

LEMMA ImageStep ==
  ASSUME LayoutInv, WordInv, ChainInv, ObjectInv, ImageInv, [ObjectNext]_vars
  PROVE  ImageInv'
<1>1. CASE Next /\ UNCHANGED objectVars
  <2>1. status \in {"folding", "last"}
    BY <1>1 DEF Next, AddMember, ZeroWidth, StartGroup, JoinGroup, Normal, Flexible, Refuse, Ignore, More, Finish
  <2>2. phase = "none" /\ phase' = phase /\ mem' = mem /\ emit' = emit
    BY <1>1, <2>1 DEF ObjectInv, objectVars
  <2> QED BY <2>2 DEF ImageInv, ImageMatchesLayout
<1>2. ASSUME (\E fill \in BOOLEAN : Allocate(fill)) \/ (\E i \in Indices, v \in Values : Store(i, v)) PROVE ImageInv'
  <2>1. phase' = "live"
    BY <1>2 DEF Allocate, Store
  <2> QED BY <2>1 DEF ImageInv, ImageMatchesLayout
<1>3. ASSUME NEW v \in Values, StartImage(v) PROVE ImageInv'
  <2>1. v \in SUBSET Nat /\ Emitting(v)' /\ phase' = "emit"
    BY <1>3, StartStep DEF StartImage
  <2> QED BY <2>1 DEF ImageInv, ImageMatchesLayout
<1>4. ASSUME EmitMember \/ EmitTail \/ \E i \in Indices : EmitUnion(i) PROVE ImageInv'
  <2>1. phase = "emit" /\ status = "folded"
    BY <1>4 DEF EmitMember, EmitTail, EmitUnion, ObjectInv
  <2>2. PICK v \in SUBSET Nat : Emitting(v)
    BY <2>1 DEF ImageInv
  <2>3. CASE EmitMember
    <3>1. Started(v)
      BY <2>2, <2>3 DEF Started, EmitMember
    <3>2. phase' = "emit" /\ Emitting(v)'
      BY <2>3, <3>1, MemberStep
    <3> QED BY <3>2 DEF ImageInv, ImageMatchesLayout
  <2>4. CASE EmitTail
    <3>1. Started(v)
      BY <2>2, <2>4 DEF Started, EmitTail
    <3>2. ImageMatchesLayout' /\ phase' \in {"image", "wraps"}
      BY <2>1, <2>4, <3>1, TailStep DEF EmitTail
    <3> QED BY <3>2 DEF ImageInv
  <2>5. ASSUME NEW i \in Indices, EmitUnion(i) PROVE ImageInv'
    <3>1. ImageMatchesLayout' /\ phase' \in {"image", "wraps"}
      BY <2>1, <2>2, <2>5, UnionImage DEF EmitUnion
    <3> QED BY <3>1 DEF ImageInv
  <2> QED BY <1>4, <2>3, <2>4, <2>5
<1>5. CASE UNCHANGED vars
  <2>1. /\ placed' = placed /\ size' = size /\ prim' = prim /\ offset' = offset
        /\ phase' = phase /\ mem' = mem /\ held' = held /\ known' = known /\ emit' = emit
    BY <1>5 DEF vars, layoutVars, objectVars
  <2>2. Indices' = Indices /\ Snug' = Snug /\ NoGapAfterFields' = NoGapAfterFields
    BY <2>1 DEF Indices, Snug, NoGapAfterFields, IsFirstBitfield
  <2>3. ImageMatchesLayout'
    <3>1. ASSUME NEW i
          PROVE  /\ Width(placed[i])' = Width(placed[i]) /\ AtStart(placed[i])' = AtStart(placed[i])
                 /\ WholeWord(placed[i])' = WholeWord(placed[i])
                 /\ Agrees(placed[i], out_deref(placed[i], mem), held[i])'
                      = Agrees(placed[i], out_deref(placed[i], mem), held[i])
      BY <2>1 DEF Agrees, AtStart, WholeWord, out_deref, out_bitfield_to_scalar, LoadWord, WordBits, Width
    <3>2. ImageMatchesLayout
      BY DEF ImageInv
    <3> QED BY <2>1, <2>2, <3>1, <3>2, Zenon DEF ImageMatchesLayout
  <2>4. ASSUME NEW v, Emitting(v) PROVE Emitting(v)'
    <3>1. Shape(emit)' = Shape(emit) /\ Position(emit)' = Position(emit)
      BY <2>1 DEF Shape, Outside, InGroup, Top, Position
    <3>2. WrittenTo(mem, emit.pos, Done(emit), v)' = WrittenTo(mem, emit.pos, Done(emit), v)
      BY <2>1 DEF WrittenTo, Done, BitsAre, Begin, End, Width
    <3> QED BY <2>1, <2>2, <2>4, <3>1, <3>2 DEF Emitting, Converted, Low, Width
  <2> QED BY <2>1, <2>3, <2>4 DEF ImageInv
<1> QED BY <1>1, <1>2, <1>3, <1>4, <1>5 DEF ObjectNext

\* For every record and every value its members are initialised with: the
\* assertion "negative struct pad" never fails and no padding wraps round,
\* but for a union's bit-field; and if the record's groups reserve their
\* whole type and are not followed by padding, the data written is as large
\* as the record and every member reads as its initialiser, but for a
\* bit-field as wide as a 64-bit word.
THEOREM ImagesMatch == ObjectSpec => []ImageMatchesLayout
<1>1. ObjectInit => WordInv /\ ObjectInv /\ ChainInv /\ ImageInv
  BY InitWord, InitChain DEF ObjectInit, ObjectInv, ImageInv, ImageMatchesLayout
<1>2. LayoutInv /\ LayoutInv' /\ WordInv /\ ObjectInv /\ ChainInv /\ ImageInv /\ [ObjectNext]_vars
        => WordInv' /\ ObjectInv' /\ ChainInv' /\ ImageInv'
  <2> SUFFICES ASSUME LayoutInv, LayoutInv', WordInv, ObjectInv, ChainInv, ImageInv, [ObjectNext]_vars
               PROVE  WordInv' /\ ObjectInv' /\ ChainInv' /\ ImageInv'
    OBVIOUS
  <2>1. [Next]_layoutVars
    BY DEF ObjectNext, vars, Allocate, Store, StartImage, EmitMember, EmitTail, EmitUnion
  <2> QED BY <2>1, WordStep, ObjectStep, ChainStep, ImageStep
<1>3. ImageInv => ImageMatchesLayout
  BY DEF ImageInv
<1>4. ObjectSpec => []LayoutInv
  BY ObjectsImplementLayout, LayoutInductive, PTL
<1> QED BY <1>1, <1>2, <1>3, <1>4, PTL DEF ObjectSpec

=============================================================================

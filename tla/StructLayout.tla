---------------------------- MODULE StructLayout ----------------------------
(***************************************************************************)
(* Where fold_sue() (cc1/fold_sue.c) puts the members of a struct or union *)
(* and how large and how aligned it makes the record.  Each step of the    *)
(* loop over the members is one action; the members are drawn one at a     *)
(* time from Members, so every list of at most MaxMembers is folded.       *)
(*                                                                         *)
(* A member is what the loop looks at: its kind, the size and alignment of *)
(* its type, for a bit-field its width and signedness, and whether it      *)
(* carries __attribute((packed)).  A nested record has been folded before  *)
(* (fold_sue_calc_substrut) and is an ordinary member of its own size and  *)
(* alignment.                                                              *)
(***************************************************************************)
EXTENDS Integers, Sequences, FiniteSets

CONSTANTS
  Prims,       \* a subset of {"struct", "union"}
  Members,     \* the members that may be declared
  MaxMembers,  \* bound: members of one record
  AlignAttrs   \* values of the record's aligned attribute, 1 for none

VARIABLES
  prim, packed, attr,  \* the record: sue->primitive and its attributes
  placed,      \* the members folded so far, with their offsets
  offset,      \* the running byte offset
  bitfield,    \* struct bitfield_state: the open group
  realign_next,
  align_max, sz_max,
  status,      \* "folding", "last" (only the end may follow), "folded", "error"
  size, align  \* sue->size and sue->align

layoutVars == <<prim, packed, attr, placed, offset, bitfield, realign_next,
                align_max, sz_max, status, size, align>>

Powers == {1, 2, 4, 8, 16}
Kinds == {"normal", "bits", "flex", "ignored", "refused"}

\* fold_decl_var_fieldwidth() has refused bit-fields wider than their type
\* and fold_decl_maybe_member() alignments below the type's.
ASSUME LayoutAssumption ==
  /\ Prims \subseteq {"struct", "union"}
  /\ MaxMembers \in Nat
  /\ AlignAttrs \subseteq Powers
  /\ \A m \in Members :
       /\ m.kind \in Kinds
       /\ m.size \in Nat /\ m.align \in Powers /\ m.bits \in Nat
       /\ m.signed \in BOOLEAN /\ m.packed \in BOOLEAN
       /\ m.kind = "bits" => m.size \in {1, 2, 4, 8} /\ m.bits <= 8 * m.size
       /\ m.kind = "flex" => m.size = 0

-----------------------------------------------------------------------------
(* pack.c and the sizes it is given.                                       *)

pack_to_align(sz, al) == IF sz % al = 0 THEN sz ELSE sz + (al - (sz % al))

Larger(a, b) == IF a >= b THEN a ELSE b

\* type_nav_MAX_FOR(): the largest integer no larger than that many bytes.
type_nav_MAX_FOR(bytes) ==
  IF bytes >= 8 THEN 8 ELSE IF bytes >= 4 THEN 4 ELSE IF bytes >= 2 THEN 2 ELSE 1

\* The bytes a bit-field that starts a group reserves, for the whole group.
decl_type_for_bitfield(bits) == type_nav_MAX_FOR((bits + 7) \div 8)

\* Past the storage the open group's type would fill; master = 0 is no group.
struct_pack_finish_bitfield(off, bf) ==
  IF bf.master = 0 THEN off ELSE pack_to_align(off, bf.master)

NoBitfield == [master |-> 0, signed |-> FALSE, cur |-> 0, first |-> 0, limit |-> 0, unit |-> 0,
               group |-> 0]

-----------------------------------------------------------------------------
Init ==
  /\ prim \in Prims /\ packed \in BOOLEAN /\ attr \in AlignAttrs
  /\ placed = <<>> /\ offset = 0 /\ bitfield = NoBitfield /\ realign_next = FALSE
  /\ align_max = 1 /\ sz_max = 0
  /\ status = "folding" /\ size = 0 /\ align = 1

More == status = "folding" /\ Len(placed) < MaxMembers


\* What the end of the loop body does with the member's size and alignment.
Grow(m, sz, al) ==
  /\ align_max' = Larger(align_max, IF packed \/ m.packed THEN 1 ELSE al)
  /\ sz_max' = Larger(sz_max, sz)

\* A member with the offsets it was given; rec.bf is the group it is in.
Placed(m, rec) ==
  [kind |-> m.kind, size |-> m.size, signed |-> m.signed, bits |-> m.bits,
   align |-> IF packed \/ m.packed THEN 1 ELSE m.align,
   off |-> rec.off, bitoff |-> rec.bitoff,
   master |-> rec.bf.master, msigned |-> rec.bf.signed, unit |-> rec.bf.unit,
   group |-> rec.bf.group]
Put(m, rec) == placed' = Append(placed, Placed(m, rec))

\* A possible bug: assigns the position in the group instead of advancing it.
TakeBits_Assign(bits, bf, off) ==
  LET full == bits = bf.limit
  IN /\ bitfield' = [bf EXCEPT !.cur = IF full THEN 0 ELSE bits]
     /\ offset' = IF full THEN struct_pack_finish_bitfield(off, bf) ELSE off

\* The bits are taken from the group; reaching its limit closes it.
TakeBits(bits, bf, off) ==
  LET cur == bf.cur + bits
      full == cur = bf.limit
  IN /\ bitfield' = [bf EXCEPT !.cur = IF full THEN 0 ELSE cur]
     /\ offset' = IF full THEN struct_pack_finish_bitfield(off, bf) ELSE off


NeedsGroup(m) ==
  realign_next \/ bitfield.cur = 0 \/ bitfield.cur + m.bits > bitfield.limit

\* The offset a new group is packed from: the interrupted one is padded out.
GroupFrom ==
  IF realign_next \/ bitfield.cur # 0
  THEN struct_pack_finish_bitfield(offset, bitfield) ELSE offset

NewGroup(m, first) ==
  [master |-> m.size, signed |-> m.signed, cur |-> 0, limit |-> 8 * m.size,
   first |-> first, unit |-> decl_type_for_bitfield(m.bits), group |-> Len(placed) + 1]

\* A zero-width field takes no space and ends the group.
ZeroWidth(m) ==
  /\ More /\ m.kind = "bits" /\ m.bits = 0
  /\ realign_next' = TRUE
  /\ Put(m, [off |-> offset, bitoff |-> bitfield.cur, bf |-> NoBitfield])
  /\ TakeBits(0, bitfield, offset)
  /\ Grow(m, 0, 0)
  /\ UNCHANGED <<prim, packed, attr, status, size, align>>

StartGroup(m, from) ==
  LET unit == decl_type_for_bitfield(m.bits)
      first == pack_to_align(from, unit)
      bf == NewGroup(m, first)
  IN /\ More /\ m.kind = "bits" /\ m.bits > 0 /\ NeedsGroup(m)
     /\ realign_next' = FALSE
     /\ Put(m, [off |-> first, bitoff |-> 0, bf |-> bf])
     /\ TakeBits(m.bits, bf, first + unit)
     /\ Grow(m, unit, m.align)
     /\ UNCHANGED <<prim, packed, attr, status, size, align>>

JoinGroup(m) ==
  /\ More /\ m.kind = "bits" /\ m.bits > 0 /\ ~NeedsGroup(m)
  /\ Put(m, [off |-> bitfield.first, bitoff |-> bitfield.cur, bf |-> bitfield])
  /\ TakeBits(m.bits, bitfield, offset)
  /\ Grow(m, 0, 0)
  /\ UNCHANGED <<prim, packed, attr, realign_next, status, size, align>>


\* A possible bug: the padding before the member is not counted.
PlaceAt_NoPad(m, sz, al) ==
  /\ Put(m, [off |-> IF prim = "struct" THEN pack_to_align(offset, al) ELSE 0, bitoff |-> 0,
             bf |-> NoBitfield])
  /\ offset' = IF prim = "struct" THEN offset + sz ELSE offset
  /\ bitfield' = [bitfield EXCEPT !.cur = 0]

\* struct_pack(), for structs; a union's members keep offset 0.
PlaceAt(m, sz, al) ==
  IF prim = "struct"
  THEN LET start == pack_to_align(offset, al)
       IN /\ Put(m, [off |-> start, bitoff |-> 0, bf |-> NoBitfield])
          /\ offset' = start + sz
          /\ bitfield' = [bitfield EXCEPT !.cur = 0]
  ELSE /\ Put(m, [off |-> 0, bitoff |-> 0, bf |-> NoBitfield])
       /\ UNCHANGED <<offset, bitfield>>

Normal(m) ==
  /\ More /\ m.kind = "normal"
  /\ PlaceAt(m, m.size, IF packed \/ m.packed THEN 1 ELSE m.align)
  /\ Grow(m, m.size, m.align)
  /\ UNCHANGED <<prim, packed, attr, realign_next, status, size, align>>

\* A flexible array member: only at the end of a struct, and of no size.
Flexible(m) ==
  /\ More /\ m.kind = "flex" /\ prim = "struct"
  /\ PlaceAt(m, 0, IF packed \/ m.packed THEN 1 ELSE m.align)
  /\ Grow(m, 0, m.align)
  /\ status' = "last"
  /\ UNCHANGED <<prim, packed, attr, realign_next, size, align>>

\* ... in a union, or with another member after it, it stops the compiler,
\* as a variably modified or incomplete member does at the end of the fold.
Refuse(m) ==
  /\ More /\ m.kind \in {"flex", "refused"}
  /\ status' = "error"
  /\ UNCHANGED <<prim, packed, attr, placed, offset, bitfield, realign_next,
                 align_max, sz_max, size, align>>

\* An unnamed member that declares nothing is dropped from the record.
Ignore(m) == More /\ m.kind = "ignored" /\ UNCHANGED layoutVars


\* A possible bug: no padding for the aligned attribute.
Finish_NoTail ==
  /\ status \in {"folding", "last"}
  /\ status' = "folded"
  /\ align' = Larger(attr, align_max)
  /\ size' = pack_to_align(IF prim = "struct" THEN offset ELSE sz_max, align_max)
  /\ UNCHANGED <<prim, packed, attr, placed, offset, bitfield, realign_next, align_max, sz_max>>


Finish ==
  /\ status \in {"folding", "last"}
  /\ status' = "folded"
  /\ align' = Larger(attr, align_max)
  /\ size' = pack_to_align(
               pack_to_align(IF prim = "struct" THEN offset ELSE sz_max, align_max), align')
  /\ UNCHANGED <<prim, packed, attr, placed, offset, bitfield, realign_next, align_max, sz_max>>

AddMember(m) ==
  \/ ZeroWidth(m) \/ StartGroup(m, GroupFrom) \/ JoinGroup(m)
  \/ Normal(m) \/ Flexible(m) \/ Refuse(m) \/ Ignore(m)

Next == (\E m \in Members : AddMember(m)) \/ Finish

Spec == Init /\ [][Next]_layoutVars

-----------------------------------------------------------------------------
(* Properties.                                                             *)

\* The bits a placed member occupies: first of them, number, first after.
Width(r) == IF r.kind = "bits" THEN r.bits ELSE 8 * r.size
Begin(r) == 8 * r.off + r.bitoff
End(r) == Begin(r) + Width(r)

\* The group's fields hold more bits than its first field reserved.
Overruns(r) == r.kind = "bits" /\ r.bitoff + r.bits > 8 * r.unit

PlacedType ==
  [kind: Kinds, size: Nat, signed: BOOLEAN, bits: Nat, align: Powers, off: Nat, bitoff: Nat,
   master: {0, 1, 2, 4, 8}, msigned: BOOLEAN, unit: {0, 1, 2, 4, 8}, group: Nat]
GroupType ==
  [master: {0, 1, 2, 4, 8}, signed: BOOLEAN, cur: Nat, first: Nat, limit: Nat,
   unit: {0, 1, 2, 4, 8}, group: Nat]

\* Every variable of the fold keeps its type; in particular alignments stay
\* powers of two, which pack_to_align()'s mask needs.
TypeOK ==
  /\ prim \in Prims /\ packed \in BOOLEAN /\ attr \in AlignAttrs
  /\ placed \in Seq(PlacedType) /\ offset \in Nat
  /\ bitfield \in GroupType /\ realign_next \in BOOLEAN
  /\ align_max \in Powers /\ sz_max \in Nat
  /\ status \in {"folding", "last", "folded", "error"}
  /\ size \in Nat /\ align \in Powers

\* fold_sue(): the members of a struct lie one after the other and share no
\* bit, whatever mixture of bit-fields, zero-width fields and plain members
\* is declared.  The one exception is a group of bit-fields that outgrew the
\* unit its first field reserved: what follows it may lie on top of it.
MembersApart ==
  prim = "struct" =>
    \A i, j \in 1..Len(placed) :
      i < j /\ Width(placed[i]) > 0 /\ ~Overruns(placed[i]) => End(placed[i]) <= Begin(placed[j])

\* Of one group even overrunning fields share no bit.
FieldsApart ==
  \A i, j \in 1..Len(placed) :
    i < j /\ placed[i].group = placed[j].group /\ placed[i].group # 0
      => placed[i].bitoff + placed[i].bits <= placed[j].bitoff

\* fold_sue(): in an array every element has the record's alignment, the
\* aligned attribute included, every member of every element that of its
\* type, the units bit-fields reserve too, and no member reaches into the
\* next element, the trailing padding included.  Left out of the last: groups
\* that outgrew their unit, and the second and later bit-fields of a union,
\* which are placed as a struct's.
ElementsFit ==
  status = "folded" =>
    /\ size % align = 0
    /\ \A i \in 1..Len(placed), elem \in 0..1 :
         LET r == placed[i]
             demand == IF r.kind = "bits" /\ r.align > 1 THEN r.unit ELSE r.align
             first == \A k \in 1..i-1 : placed[k].kind # "bits"
         IN /\ (r.kind = "bits" => r.bits > 0 /\ prim = "struct" /\ r.group = i)
                 => (elem * size + r.off) % demand = 0
            /\ ~Overruns(r) /\ (prim = "union" /\ r.kind = "bits" => first)
                 => End(r) <= 8 * size

=============================================================================

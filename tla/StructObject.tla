---------------------------- MODULE StructObject ----------------------------
(***************************************************************************)
(* Objects of the records that StructLayout lays out: how their members    *)
(* are read and written (gen_expr_struct, out_deref and out_store with     *)
(* out/bitfield.c), and the image of a statically initialised one that     *)
(* asm_declare_init() (out/asm.c) writes as assembler data.                *)
(*                                                                         *)
(* Memory is the set of the bits that are 1, counted from the record's     *)
(* first; a value is the set of its 1 bits.  The assembler, which is not   *)
(* part of the repository, cuts a datum down to its directive's size.      *)
(***************************************************************************)
EXTENDS StructLayout

CONSTANTS
  Values,      \* the values that are stored, sets of bits
  MaxStores,   \* bound: stores to one object
  ShiftedOut   \* -1UL << 64, which C does not define: 0, or all 64 bits where
               \* the machine takes the count modulo 64, as x86 does

ASSUME ObjectAssumption == Values \subseteq SUBSET Nat /\ MaxStores \in Nat /\ ShiftedOut \subseteq 0 .. 63

VARIABLES
  phase,       \* "none", "live": an object; "emit", "image": a static one;
               \* "ICE", "wraps": an assertion, a negative padding
  mem,         \* its bits
  held,        \* the value each member was given, in C's terms
  known,       \* the members whose value is known: all, or a union's last
  stores,
  emit         \* asm_declare_init()'s loop over the members

objectVars == <<phase, mem, held, known, stores, emit>>
vars == <<layoutVars, objectVars>>

Indices == 1..Len(placed)
Shifted(v, n) == {b + n : b \in v}

\* The lowest n bits of v.
Low(v, n) == {b \in v : b < n}

\* Bit b of -1UL << n.
Ones(n, b) == IF n < 64 THEN b >= n ELSE b \in ShiftedOut

\* Arithmetic shifts within w bits.
ShiftRight(v, n, w, signed) ==
  {b - n : b \in {x \in v : x >= n}} \cup (IF signed /\ w - 1 \in v THEN w - n .. w - 1 ELSE {})

-----------------------------------------------------------------------------
(* Reading and writing members.                                            *)

\* A bit-field is reached through a word of its group's type.
WordBits(r) == IF r.kind = "bits" THEN 8 * r.master ELSE 8 * r.size
LoadWord(r, m) == {b \in 0 .. WordBits(r) - 1 : 8 * r.off + b \in m}

\* Shift right and mask; signed fields go up and down again.
out_bitfield_to_scalar(r, word) ==
  LET w == WordBits(r)
      scalar == {b \in ShiftRight(word, r.bitoff, w, r.msigned) : ~Ones(r.bits, b)}
  IN IF r.msigned
     THEN ShiftRight(Shifted(scalar, w - r.bits), w - r.bits, w, TRUE)
     ELSE scalar


\* A possible bug: the old bits are not masked out.
out_bitfield_scalar_merge_NoMask(r, word, value) == word \cup Shifted(Low(value, r.bits), r.bitoff)

\* The word with the field's bits masked out and the value's put in.
out_bitfield_scalar_merge(r, word, value) ==
  {b \in word : Ones(r.bitoff + r.bits, b) \/ ~Ones(r.bitoff, b)}
  \cup Shifted({b \in Low(value, WordBits(r)) : ~Ones(r.bits, b)}, r.bitoff)

out_deref(r, m) ==
  IF r.kind = "bits" THEN out_bitfield_to_scalar(r, LoadWord(r, m)) ELSE LoadWord(r, m)

Written(r, m, value) ==
  IF r.kind = "bits" THEN out_bitfield_scalar_merge(r, LoadWord(r, m), value)
  ELSE Low(value, 8 * r.size)

out_store(r, m, value) ==
  (m \ Shifted(0 .. WordBits(r) - 1, 8 * r.off)) \cup Shifted(Written(r, m, value), 8 * r.off)

\* The value C gives a member that v is assigned to.
Converted(r, v) ==
  LET t == Low(v, Width(r))
  IN IF r.kind = "bits" /\ r.signed /\ Width(r) - 1 \in t
     THEN t \cup (Width(r) .. 8 * r.size - 1) ELSE t

\* An object with every bit, and the bytes after it, the same.  The later
\* bit-fields of a union may lie outside it: they have no value yet.
Allocate(fill) ==
  /\ status = "folded" /\ phase = "none" /\ MaxStores > 0
  /\ phase' = "live"
  /\ mem' = IF fill THEN 0 .. 8 * size + 63 ELSE {}
  /\ held' = [i \in Indices |-> Converted(placed[i], IF fill THEN 0 .. 8 * placed[i].size - 1 ELSE {})]
  /\ known' = {i \in Indices : End(placed[i]) <= 8 * size}
  /\ UNCHANGED <<layoutVars, stores, emit>>

Store(i, v) ==
  /\ phase = "live" /\ stores < MaxStores /\ Width(placed[i]) > 0
  /\ stores' = stores + 1
  /\ mem' = out_store(placed[i], mem, v)
  /\ held' = [held EXCEPT ![i] = Converted(placed[i], v)]
  /\ known' = IF prim = "union" THEN {i} ELSE known
  /\ UNCHANGED <<layoutVars, phase, emit>>

-----------------------------------------------------------------------------
(* The image of a static object: where the assembler is, where the last    *)
(* member ended, the group being collected and its first field.            *)

NoEmit == [next |-> 1, pos |-> 0, end |-> 0, group |-> {}, first |-> 0]

\* The bytes of a datum of sz bytes written at pos.
Datum(pos, v, sz) == Shifted(Low(v, 8 * sz), 8 * pos)
FieldBits(i, shift) == Shifted(Low(held[i], placed[i].bits), shift)
Pending == UNION {FieldBits(i, placed[i].bitoff) : i \in emit.group}

StartImage(v) ==
  /\ status = "folded" /\ phase = "none"
  /\ phase' = "emit"
  /\ held' = [i \in Indices |-> Converted(placed[i], v)]
  /\ known' = Indices
  /\ UNCHANGED <<layoutVars, mem, stores, emit>>

\* Padding comes before anything else, and only outside a group.
Pads(r) == r.kind # "bits" \/ emit.first = 0
PadTo(r) == emit.pos + (IF Pads(r) THEN r.off - emit.end ELSE 0)

IsFirstBitfield(i) == placed[i].group = i

EndAfter(i) ==
  LET r == placed[i]
  IN IF r.kind = "flex" THEN emit.end
     ELSE IF r.kind # "bits" THEN r.off + r.size
     ELSE IF IsFirstBitfield(i) THEN r.off + r.unit ELSE emit.end

EmitField(i, pos) ==
  LET zero == placed[i].bits = 0
      starts == emit.first = 0 \/ IsFirstBitfield(i)
      flushes == starts /\ emit.first # 0
      sz == IF flushes THEN placed[emit.first].size ELSE 0
      keep == IF flushes THEN {} ELSE emit.group
  IN /\ placed[i].kind = "bits"
     /\ mem' = mem \cup Datum(pos, Pending, sz)
     /\ emit' = [next |-> i + 1, pos |-> pos + sz, end |-> EndAfter(i),
                 group |-> IF zero THEN keep ELSE keep \cup {i},
                 first |-> IF ~starts THEN emit.first ELSE IF zero THEN 0 ELSE i]

EmitNormal(i, pos) ==
  LET sz == IF emit.group = {} THEN 0 ELSE placed[emit.first].unit
  IN /\ placed[i].kind # "bits"
     /\ mem' = mem \cup Datum(pos, Pending, sz) \cup Datum(pos + sz, held[i], placed[i].size)
     /\ emit' = [next |-> i + 1, pos |-> pos + sz + placed[i].size, end |-> EndAfter(i),
                 group |-> {}, first |-> IF emit.group = {} THEN emit.first ELSE 0]

EmitMember ==
  /\ phase = "emit" /\ prim = "struct" /\ emit.next \in Indices
  /\ IF Pads(placed[emit.next]) /\ placed[emit.next].off < emit.end
     THEN phase' = "ICE" /\ UNCHANGED <<mem, emit>>
     ELSE /\ EmitField(emit.next, PadTo(placed[emit.next])) \/ EmitNormal(emit.next, PadTo(placed[emit.next]))
          /\ phase' = phase
  /\ UNCHANGED <<layoutVars, held, known, stores>>


\* A possible bug: the last group is not written.
EmitTail_NoFlush ==
  /\ phase = "emit" /\ prim = "struct" /\ emit.next > Len(placed)
  /\ emit' = [emit EXCEPT !.pos = @ + size - emit.end, !.group = {}]
  /\ phase' = "image"
  /\ UNCHANGED <<layoutVars, mem, held, known, stores>>

\* The last group, then the padding up to the record's size.
EmitTail ==
  LET sz == IF emit.group = {} THEN 0 ELSE placed[emit.first].size
  IN /\ phase = "emit" /\ prim = "struct" /\ emit.next > Len(placed)
     /\ mem' = mem \cup Datum(emit.pos, Pending, sz)
     /\ emit' = [emit EXCEPT !.pos = @ + sz + size - emit.end, !.group = {}]
     /\ phase' = IF size >= emit.end THEN "image" ELSE "wraps"
     /\ UNCHANGED <<layoutVars, held, known, stores>>

\* Of a union one member is initialised, a bit-field always at bit 0.
EmitUnion(i) ==
  LET r == placed[i]
      v == IF r.kind = "bits" THEN FieldBits(i, 0) ELSE held[i]
  IN /\ phase = "emit" /\ prim = "union" /\ Width(r) > 0
     /\ mem' = Datum(0, v, r.size)
     /\ emit' = [emit EXCEPT !.pos = r.size + (size - r.size)]
     /\ known' = {i}
     /\ phase' = IF size >= r.size THEN "image" ELSE "wraps"
     /\ UNCHANGED <<layoutVars, held, stores>>

-----------------------------------------------------------------------------
ObjectInit ==
  /\ Init
  /\ phase = "none" /\ mem = {} /\ held = <<>> /\ known = {} /\ stores = 0 /\ emit = NoEmit

ObjectNext ==
  \/ Next /\ UNCHANGED objectVars
  \/ \E fill \in BOOLEAN : Allocate(fill)
  \/ \E i \in Indices, v \in Values : Store(i, v)
  \/ \E v \in Values : StartImage(v)
  \/ EmitMember
  \/ EmitTail
  \/ \E i \in Indices : EmitUnion(i)

ObjectSpec == ObjectInit /\ [][ObjectNext]_vars

-----------------------------------------------------------------------------
(* Properties.                                                             *)

\* Every group reserves the whole of its type.
Snug == \A i \in Indices : placed[i].kind = "bits" /\ placed[i].bits > 0 => placed[i].unit = placed[i].master

\* In a union only its first bit-field lies at bit 0.
AtStart(r) == prim = "union" => r.off = 0 /\ r.bitoff = 0

\* The masks of these fields shift by 64: the whole of a 64-bit word when it is
\* read, one that ends a 64-bit word when it is written.
WholeWord(r) == r.kind = "bits" /\ r.bits = 64
EndsWord(r) == r.kind = "bits" /\ r.bitoff + r.bits = 64

\* Whether v, read from r, is the value given to it.  A field that shares a
\* word with one of other signedness is read with that one's, so only its own
\* bits count.
Agrees(r, v, given) ==
  LET n == IF r.kind = "bits" /\ r.msigned = r.signed THEN 8 * (IF r.master < r.size THEN r.master ELSE r.size)
           ELSE Width(r)
  IN Low(v, n) = Low(given, n)

\* gen_expr_struct(), out_bitfield_scalar_merge(): a member holds what was
\* last stored to it, whatever is stored to the others, and a store to a
\* struct leaves the bytes behind it alone.  (Not where a group of bit-fields
\* outgrew its unit, see MembersApart; and of a field that ends a 64-bit word
\* only that storing to it leaves the others alone.)
HoldsWhatWasStored ==
  phase = "live" /\ (\A k \in Indices : ~Overruns(placed[k])) =>
    /\ \A i \in known : Width(placed[i]) > 0 /\ ~EndsWord(placed[i])
                          => Agrees(placed[i], out_deref(placed[i], mem), held[i])
    /\ prim = "struct" => {b \in mem : b >= 8 * size} \in {{}, 8 * size .. 8 * size + 63}

\* No padding directly after a group of bit-fields.
NoGapAfterFields ==
  \A i, j \in Indices :
    i < j /\ placed[i].kind = "bits" /\ placed[i].bits > 0
    /\ (placed[j].kind = "bits" => IsFirstBitfield(j))
    /\ (\A k \in i+1 .. j-1 : placed[k].kind = "bits" /\ ~IsFirstBitfield(k))
      => placed[j].off = placed[i].off + placed[i].unit

\* asm_declare_init(): the data written for an initialised record is as large
\* as the record, and every member reads as its initialiser from where the
\* layout put it, but for a field as wide as a 64-bit word.  Stated for
\* records whose groups reserve their whole type and are not followed by
\* padding.  (The padding before a flexible array member is written a second
\* time at the end.)  For every record, the
\* assertion "negative struct pad" never fails, and no padding wraps round as
\* an unsigned number, other than after the bit-field of a union, which is
\* written as its whole type.
ImageMatchesLayout ==
  /\ phase = "image" /\ Snug /\ NoGapAfterFields =>
       /\ emit.pos = size \/ (emit.pos > size /\ placed[Len(placed)].kind = "flex")
       /\ \A i \in known : Width(placed[i]) > 0 /\ AtStart(placed[i]) /\ ~WholeWord(placed[i])
                             => Agrees(placed[i], out_deref(placed[i], mem), held[i])
  /\ phase # "ICE"
  /\ phase = "wraps" => prim = "union" /\ \A i \in known : placed[i].kind = "bits"

=============================================================================

-------------------------------- MODULE Header --------------------------------
(***************************************************************************)
(* HeapObjectHeader of src/api.rs and the BitFieldTrait<SHIFT, SIZE>       *)
(* accessors of crates/comet/src/utils.rs it is built from.  The u64       *)
(* `value` and the u32 `padding` are modelled as the sets of their set     *)
(* bits.  A field's MASK is the bits SHIFT .. SHIFT + SIZE - 1; encode     *)
(* shifts a value left (wrapping_shl) without masking it, update clears    *)
(* the MASK bits and ors in the encoded value, decode masks and shifts     *)
(* back.  The state is one header; the actions are its setters.            *)
(***************************************************************************)
EXTENDS Integers, FiniteSetsExt

CONSTANTS
  VTables,    \* vtable pointers the allocator stores (numbers below 2^31)
  Pointers,   \* forwarding addresses (numbers below 2^31)
  Sizes       \* allocation sizes in bytes, multiples of MIN_ALLOCATION

MIN_ALLOCATION == 16

\* The bits of a number below 2^31, and back.
BitsOf(n) == {b \in 0 .. 30 : (n \div 2 ^ b) % 2 = 1}
NumOf(S) == SumSet({2 ^ b : b \in S})

\* BitFieldTrait<SHIFT, SIZE> on a u64 (width 64) or on a u32 cast to u64.
Mask(shift, size) == shift .. shift + size - 1
Encode(v, shift) == {b + shift : b \in v} \cap 0 .. 63
Update(prev, v, shift, size) == (prev \ Mask(shift, size)) \cup Encode(v, shift)
Decode(x, shift, size) == {b - shift : b \in x \cap Mask(shift, size)}

\* The fields, as <<SHIFT, SIZE>>.
VTableBitField == <<0, 58>>
SizeBitField   == <<0, 13>>
ForwardedBit   == <<3, 1>>
MarkedBitField == <<48, 1>>
MarkBit        == <<14, 1>>
ColourBit      == <<0, 2>>

FUpdate(prev, v, f) == Update(prev, v, f[1], f[2])
FDecode(x, f) == Decode(x, f[1], f[2])

\* `as u32`: truncation to the low 32 bits.
AsU32(x) == x \cap 0 .. 31

-----------------------------------------------------------------------------
(* The readers.                                                            *)
Size(value) == NumOf(FDecode(value, SizeBitField)) * MIN_ALLOCATION
IsPrecise(value) == FDecode(value, SizeBitField) = {}
VTable(value) == FDecode(value, VTableBitField)
IsAllocated(value) == VTable(value) # {}
IsForwarded(value) == FDecode(value, ForwardedBit) # {}
MarkedBit(padding) == FDecode(padding, MarkBit) # {}

-----------------------------------------------------------------------------
VARIABLES value, padding

vars == <<value, padding>>

\* A header as the allocator finds it: a zero value word; the padding may
\* carry a colour (ColourBit, written by set_color outside this file) and
\* the mark bit of an earlier cycle.
Init == /\ value = {}
        /\ padding \in SUBSET (Mask(ColourBit[1], ColourBit[2]) \cup Mask(MarkBit[1], MarkBit[2]))

\* The words the setters leave.
\* set_forwarded(fwdptr): the vtable field takes the address, then the
\* forwarded bit is set.
ForwardUpdate(val, p) == FUpdate(FUpdate(val, BitsOf(p), VTableBitField), {0}, ForwardedBit)

\* set_size(size): the size field takes size / MIN_ALLOCATION.
SizeUpdate(val, s) == FUpdate(val, BitsOf(s \div MIN_ALLOCATION), SizeBitField)

\* set_vtable(vtable): VTableBitField::encode(vtable), a store of the whole
\* word.
VTableStore(v) == Encode(BitsOf(v), VTableBitField[1])

\* set_marked_bit(): MarkedBitField::update(padding as u64, 1) as u32.
MarkedUpdate(pad) == AsU32(FUpdate(pad, {0}, MarkedBitField))

\* unmark(): MarkBit::update(padding as u64, 0) as u32.
UnmarkUpdate(pad) == AsU32(FUpdate(pad, {}, MarkBit))

SetForwarded(p) == value' = ForwardUpdate(value, p) /\ UNCHANGED padding

\* set_size asserts size != 0 first.
SetSize(s) == s # 0 /\ value' = SizeUpdate(value, s) /\ UNCHANGED padding

\* set_large(): the size field takes 0.
SetLarge == value' = FUpdate(value, {}, SizeBitField) /\ UNCHANGED padding

SetVTable(v) == value' = VTableStore(v) /\ UNCHANGED padding

Unmark == padding' = UnmarkUpdate(padding) /\ UNCHANGED value

SetMarkedBit == padding' = MarkedUpdate(padding) /\ UNCHANGED value

Next ==
  \/ \E p \in Pointers : SetForwarded(p)
  \/ \E s \in Sizes : SetSize(s)
  \/ SetLarge
  \/ \E v \in VTables : SetVTable(v)
  \/ Unmark
  \/ SetMarkedBit

Spec == Init /\ [][Next]_vars

-----------------------------------------------------------------------------
\* spec.md S5: after set_forwarded(addr), is_forwarded() is true and
\* vtable() returns addr.
ForwardRoundTrip ==
  \A p \in Pointers : IsForwarded(ForwardUpdate(value, p)) /\ VTable(ForwardUpdate(value, p)) = BitsOf(p)

=============================================================================

----------------------------- MODULE SpaceBitmap -----------------------------
(***************************************************************************)
(* SpaceBitmap<ALIGN> of crates/comet/src/bitmap.rs: one bit per ALIGN    *)
(* bytes of [heap_begin, heap_limit), kept in NWords words of W bits.  A   *)
(* word is modelled as the set of its set bit positions, so `w & mask` is  *)
(* an intersection and the trailing_zeros loops enumerate a set in         *)
(* ascending order.  The state is the bitmap of one space; the point       *)
(* operations and clear_range change it, and the read-only walks are     *)
(* operators checked against reference definitions in every state.        *)
(***************************************************************************)
EXTENDS Naturals, Sequences, SequencesExt, FiniteSets

CONSTANTS
  W,              \* BITS_PER_INTPTR (64 in the code; a power of two)
  ALIGN,          \* the const generic ALIGN, in bytes
  MIN_ALLOCATION, \* api::MIN_ALLOCATION, used by find_header
  NWords,         \* bitmap_size / size_of::<usize>()
  HeapBegin,      \* heap_begin
  OverflowChecks, \* TRUE for a debug build: a shift by W panics
  Panic, Wild     \* results of find_header that are no address (below)

ASSUME /\ W \in {2, 4, 8} /\ ALIGN \in Nat \ {0} /\ MIN_ALLOCATION \in Nat \ {0}
       /\ NWords \in Nat \ {0} /\ HeapBegin \in Nat /\ OverflowChecks \in BOOLEAN

Bits == 0 .. W - 1
Word == SUBSET Bits
Bitmap == [0 .. NWords - 1 -> Word]
EmptyBitmap == [i \in 0 .. NWords - 1 |-> {}]

\* find_header yields Panic when a debug build panics on an overflowing
\* shift or subtraction, and Wild when a release build wraps the
\* subtraction into an address outside the heap.

\* The mask (1 << k) - 1 as a set of bits, for k < W.
LowBits(k) == 0 .. k - 1

-----------------------------------------------------------------------------
(* Address arithmetic: offset_to_index, offset_bit_index, index_to_offset. *)

OffsetToIndex(o)  == (o \div ALIGN) \div W
OffsetBitIndex(o) == (o \div ALIGN) % W
IndexToOffset(i)  == i * ALIGN * W

\* The address of bit b of word i: ptr_base + shift * ALIGN.
SlotAddr(i, b) == HeapBegin + IndexToOffset(i) + b * ALIGN

HeapSize == IndexToOffset(NWords)

\* Every ALIGN-aligned address of the heap, and its end.
Addrs == {HeapBegin + k * ALIGN : k \in 0 .. NWords * W - 1}
Bounds == Addrs \cup {HeapBegin + HeapSize}

\* has_address: offset = addr.wrapping_sub(heap_begin), so an address
\* below heap_begin wraps to a huge offset and is outside.
HasAddress(a) == a >= HeapBegin /\ OffsetToIndex(a - HeapBegin) < NWords

\* test(obj)
Test(bm, a) == OffsetBitIndex(a - HeapBegin) \in bm[OffsetToIndex(a - HeapBegin)]

\* Mutant: the mask is 1 << (offset_bit_index + 1).
ModifyNextBit(bm, a, setBit) ==
  LET o == a - HeapBegin IN
  [bm EXCEPT ![OffsetToIndex(o)] =
     IF setBit THEN @ \cup {OffsetBitIndex(o) + 1} ELSE @ \ {OffsetBitIndex(o) + 1}]

\* modify::<SET_BIT>(obj): the word with the bit set or cleared.  set skips
\* the store when the bit is already set; the bitmap is the same.
Modify(bm, a, setBit) ==
  LET o == a - HeapBegin IN
  [bm EXCEPT ![OffsetToIndex(o)] =
     IF setBit THEN @ \cup {OffsetBitIndex(o)} ELSE @ \ {OffsetBitIndex(o)}]

\* modify_sync::<SET_BIT>(obj): a plain load of the word and a plain store;
\* set stores only when the bit is clear (a read-only image bitmap is never
\* written), clear always stores.
ModifySync(bm, a, setBit) ==
  LET o == a - HeapBegin
      i == OffsetToIndex(o)
      b == OffsetBitIndex(o)
  IN CASE setBit /\ b \in bm[i] -> bm
       [] setBit                -> [bm EXCEPT ![i] = @ \cup {b}]
       [] OTHER                 -> [bm EXCEPT ![i] = @ \ {b}]

\* A raw read of word i; the word just past the bitmap holds whatever the
\* memory there holds, here every bit set.
Read(bm, i) == IF i < NWords THEN bm[i] ELSE Bits

\* A finite set of numbers as an ascending sequence.
SortedSeq(S) ==
  [k \in 1 .. Cardinality(S) |-> CHOOSE x \in S : Cardinality({y \in S : y < x}) = k - 1]

\* Visiting the set bits of a word in ascending order (trailing_zeros loop).
Ascending(i, w) == SortedSeq({SlotAddr(i, b) : b \in w})

-----------------------------------------------------------------------------
(* visit_marked_range(visit_begin, visit_end, visitor): the sequence of   *)
(* addresses handed to the visitor, left edge | middle words | right edge. *)
\* Mutant: the middle loop starts at index_start and visits the left word
\* again, unmasked.
VisitMarkedRangeMiddleFromStart(bm, vb, ve) ==
  LET is == OffsetToIndex(vb - HeapBegin)
      ie == OffsetToIndex(ve - HeapBegin)
      bs == OffsetBitIndex(vb - HeapBegin)
      be == OffsetBitIndex(ve - HeapBegin)
      left == Read(bm, is) \ LowBits(bs)
      middle == FlattenSeq([k \in 1 .. ie - is |-> Ascending(is + k - 1, bm[is + k - 1])])
      right == IF be = 0 THEN {} ELSE Read(bm, ie)
  IN IF is < ie
       THEN Ascending(is, left) \o middle \o Ascending(ie, right \cap LowBits(be))
       ELSE Ascending(ie, left \cap LowBits(be))

VisitMarkedRange(bm, vb, ve) ==
  LET os == vb - HeapBegin
      oe == ve - HeapBegin
      is == OffsetToIndex(os)
      ie == OffsetToIndex(oe)
      bs == OffsetBitIndex(os)
      be == OffsetBitIndex(oe)
      left == Read(bm, is) \ LowBits(bs)
      middle == FlattenSeq([k \in 1 .. ie - is - 1 |-> Ascending(is + k, bm[is + k])])
      right == IF be = 0 THEN {} ELSE Read(bm, ie)
  IN IF is < ie
       THEN Ascending(is, left) \o middle \o Ascending(ie, right \cap LowBits(be))
       ELSE Ascending(ie, left \cap LowBits(be))

\* What spec.md 8.3 says it visits: the set addresses of [vb, ve), ascending.
MarkedIn(bm, vb, ve) ==
  SortedSeq({a \in Addrs : vb <= a /\ a < ve /\ Test(bm, a)})

-----------------------------------------------------------------------------
(* clear_range(begin, end): clears bit by bit from the left until begin is *)
(* word aligned, then from the right until end is.                         *)
RECURSIVE ClearLeft(_, _, _), ClearRight(_, _, _), ClearRightUnguarded(_, _, _)
\* Mutant: the right loop without its begin_offset < end_offset guard.
ClearRightUnguarded(bm, bo, eo) ==
  IF OffsetBitIndex(eo) # 0
    THEN ClearRightUnguarded(Modify(bm, HeapBegin + eo - ALIGN, FALSE), bo, eo - ALIGN)
    ELSE bm

ClearLeft(bm, bo, eo) ==
  IF bo < eo /\ OffsetBitIndex(bo) # 0
    THEN ClearLeft(Modify(bm, HeapBegin + bo, FALSE), bo + ALIGN, eo)
    ELSE <<bm, bo>>
ClearRight(bm, bo, eo) ==
  IF bo < eo /\ OffsetBitIndex(eo) # 0
    THEN ClearRight(Modify(bm, HeapBegin + eo - ALIGN, FALSE), bo, eo - ALIGN)
    ELSE bm

ClearRangeResult(bm, b, e) ==
  LET l == ClearLeft(bm, b - HeapBegin, e - HeapBegin)
  IN ClearRight(l[1], l[2], e - HeapBegin)

-----------------------------------------------------------------------------
(* find_header(addr): scan back from the bit of addr to the nearest set    *)
(* bit.  The mask (1 << (bit + 1)) - 1 shifts by W when bit = W - 1: a     *)
(* debug build panics, a release build shifts by (bit + 1) % W = 0 and the *)
(* mask is 0.  With no set bit at all, cell_index * W + W - 1 - W          *)
(* underflows at cell 0 (a panic, or a wrapped address).                  *)
RECURSIVE ScanBack(_, _, _)
ScanBack(bm, cell, w) ==
  IF w = {} /\ cell # 0 THEN ScanBack(bm, cell - 1, bm[cell - 1]) ELSE <<cell, w>>

\* Mutant: the start number drops the - 1 after BITS_PER_INTPTR.
FindHeaderNoMinusOne(bm, a) ==
  LET osn  == (a - HeapBegin) \div ALIGN
      cell == osn \div W
      bit  == osn % W
      found == ScanBack(bm, cell, bm[cell] \cap LowBits((bit + 1) % W))
      w == found[2]
  IN CASE bit + 1 = W /\ OverflowChecks -> Panic
       []   w = {} -> IF OverflowChecks THEN Panic ELSE Wild
       []   OTHER -> (found[1] * W + Max(w) + 1) * MIN_ALLOCATION + HeapBegin

FindHeader(bm, a) ==
  LET osn  == (a - HeapBegin) \div ALIGN
      cell == osn \div W
      bit  == osn % W
      overflow == bit + 1 = W
      found == ScanBack(bm, cell, bm[cell] \cap LowBits((bit + 1) % W))
      w == found[2]
  IN CASE overflow /\ OverflowChecks -> Panic
       []   w = {} -> IF OverflowChecks THEN Panic ELSE Wild
       []   OTHER -> (found[1] * W + Max(w)) * MIN_ALLOCATION + HeapBegin

\* spec.md 8.4: the greatest set address at or before addr.
NearestStart(bm, a) ==
  Max({h \in Addrs : h <= a /\ Test(bm, h)})

-----------------------------------------------------------------------------
(* The bitmap of one space and the operations that change it.             *)
VARIABLE bits

vars == <<bits>>

\* SpaceBitmap::create_from_memmap maps fresh, zeroed memory.
Init == bits = EmptyBitmap

\* set(obj) == modify::<true>(obj)
Set(a) == bits' = Modify(bits, a, TRUE)

\* clear(obj) == modify::<false>(obj)
Clear(a) == bits' = Modify(bits, a, FALSE)

\* set_sync(obj): modify_sync::<true>(obj); nothing calls ::<false>.
SetSync(a) == bits' = ModifySync(bits, a, TRUE)

\* clear_all(): dontneed_and_zero over the whole mapping.
ClearAll == bits' = EmptyBitmap

\* clear_range(begin, end), begin <= end, both in the heap or at its end.
ClearRange(b, e) == bits' = ClearRangeResult(bits, b, e)

Next ==
  \/ \E a \in Addrs : Set(a) \/ Clear(a) \/ SetSync(a)
  \/ ClearAll
  \/ \E b, e \in Bounds : b <= e /\ ClearRange(b, e)

Spec == Init /\ [][Next]_vars

-----------------------------------------------------------------------------
TypeOK == bits \in Bitmap

\* Ranges [vb, ve) of aligned bounds.
Ranges == {r \in Bounds \X Bounds : r[1] <= r[2]}

\* visit_marked_range hands the visitor exactly the marked addresses of
\* [visit_begin, visit_end), in ascending order, once each: the left-edge
\* mask, the middle loop and the bit_end = 0 / single-word cases together
\* cover every range of every bitmap.
VisitMarkedRangeExact ==
  \A r \in Ranges : VisitMarkedRange(bits, r[1], r[2]) = MarkedIn(bits, r[1], r[2])

\* The addresses of [b, e) whose word is not wholly inside [b, e).
PartialWordAddrs(b, e) ==
  {a \in Addrs : /\ b <= a /\ a < e
                 /\ LET ws == HeapBegin + IndexToOffset(OffsetToIndex(a - HeapBegin))
                    IN ~(b <= ws /\ ws + ALIGN * W <= e)}

\* clear_range clears the bits of [begin, end) that lie in partially covered
\* words and leaves every other bit as it was: its two edge loops never step
\* past begin or end, however close they are.  The whole words between the
\* edges keep their bits: spec.md 4.2 has clear_range clear all of
\* [begin, end), and the code leaves the middle as a TODO.
ClearRangeEdges ==
  \A r \in Ranges :
    \A a \in Addrs :
      Test(ClearRangeResult(bits, r[1], r[2]), a)
        = (Test(bits, a) /\ a \notin PartialWordAddrs(r[1], r[2]))

\* find_header never invents a header: whenever it returns an address, that
\* address is at or before the interior pointer and its bit is set.
FindHeaderSound ==
  \A a \in Addrs :
    LET h == FindHeader(bits, a)
    IN h \notin {Panic, Wild} => h <= a /\ Test(bits, h)

\* spec.md 8.4: find_header(addr) returns the greatest object start at or
\* before addr whenever there is one.
FindHeaderIsNearestStart ==
  \A a \in Addrs :
    (\E h \in Addrs : h <= a /\ Test(bits, h)) => FindHeader(bits, a) = NearestStart(bits, a)

=============================================================================

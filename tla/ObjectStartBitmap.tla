--------------------------- MODULE ObjectStartBitmap ---------------------------
(***************************************************************************)
(* ObjectStartBitmap of crates/comet/src/bitmap.rs: one bit per            *)
(* MIN_ALLOCATION slot, eight to a byte cell, set where an object header  *)
(* starts.  A cell is the set of its set bits.  The allocator sets and     *)
(* clears bits; find_header recovers the header of an interior pointer by *)
(* scanning back to the nearest set bit.                                  *)
(***************************************************************************)
EXTENDS Naturals, FiniteSetsExt

CONSTANTS
  HeapBegin,      \* offset: the heap_begin the bitmap was created for
  HeapSize,       \* the size passed to ObjectStartBitmap::new
  GuardBytes,     \* the +4096 of allocation_size
  OverflowChecks, \* TRUE for a debug build
  Panic, Wild     \* find_header results that are no address

MIN_ALLOCATION == 16
BITS_PER_CELL == 8
CellBits == 0 .. BITS_PER_CELL - 1

\* allocation_size(heap_size): bytes of the bitmap.
AllocationSize(hs) ==
  ((hs + GuardBytes) + ((BITS_PER_CELL * MIN_ALLOCATION) - 1)) \div (BITS_PER_CELL * MIN_ALLOCATION)

Cells == 0 .. AllocationSize(HeapSize) - 1

\* The slot addresses of the heap.
Addrs == {HeapBegin + k * MIN_ALLOCATION : k \in 0 .. HeapSize \div MIN_ALLOCATION - 1}

\* object_start_index_and_bit(addr): <<cell_index, bit>>.
ObjectStartIndexAndBit(a) ==
  LET n == (a - HeapBegin) \div MIN_ALLOCATION IN <<n \div BITS_PER_CELL, n % BITS_PER_CELL>>

\* check_bit(addr)
CheckBit(bm, a) == LET ib == ObjectStartIndexAndBit(a) IN ib[2] \in bm[ib[1]]

\* The mask (1u8 << k) - 1 as a set of bits, for k < 8.
LowBits(k) == 0 .. k - 1

\* The scan back over zero cells: while byte == 0 && cell_index != 0.
RECURSIVE ScanBack(_, _, _)
ScanBack(bm, cell, byte) ==
  IF byte = {} /\ cell # 0 THEN ScanBack(bm, cell - 1, bm[cell - 1]) ELSE <<cell, byte>>

\* Mutant: the start number drops the - 1 after BITS_PER_CELL.
FindHeaderNoMinusOne(bm, a) ==
  LET ib == ObjectStartIndexAndBit(a)
      found == ScanBack(bm, ib[1], bm[ib[1]] \cap LowBits((ib[2] + 1) % BITS_PER_CELL))
  IN CASE ib[2] = BITS_PER_CELL - 1 /\ OverflowChecks -> Panic
       []   found[2] = {} -> IF OverflowChecks THEN Panic ELSE Wild
       []   OTHER -> (found[1] * BITS_PER_CELL + Max(found[2]) + 1) * MIN_ALLOCATION + HeapBegin

\* find_header(addr_in_middle): the mask (1 << (bit + 1)) - 1 is on u8, so
\* at bit 7 the shift is by 8: a debug build panics, a release build shifts
\* by 0 and the mask is 0.  With no set bit down to cell 0, the start
\* number 0 + 7 - 8 underflows (panic, or a wrapped address).  For a
\* non-zero byte, 7 - leading_zeros is its highest set bit.
FindHeader(bm, a) ==
  LET ib == ObjectStartIndexAndBit(a)
      found == ScanBack(bm, ib[1], bm[ib[1]] \cap LowBits((ib[2] + 1) % BITS_PER_CELL))
  IN CASE ib[2] = BITS_PER_CELL - 1 /\ OverflowChecks -> Panic
       []   found[2] = {} -> IF OverflowChecks THEN Panic ELSE Wild
       []   OTHER -> (found[1] * BITS_PER_CELL + Max(found[2])) * MIN_ALLOCATION + HeapBegin

-----------------------------------------------------------------------------
VARIABLE bitmap

vars == <<bitmap>>

\* new(heap_begin, size): a zeroed mapping of allocation_size(size) bytes.
Init == bitmap = [c \in Cells |-> {}]

\* Mutant: the mask is 1 << (bit + 1).
SetBitNextBit(a) ==
  LET ib == ObjectStartIndexAndBit(a) IN
  bitmap' = [bitmap EXCEPT ![ib[1]] = @ \cup {ib[2] + 1}]

\* set_bit(addr): store(cell, load(cell) | 1 << bit).
SetBit(a) ==
  LET ib == ObjectStartIndexAndBit(a) IN
  bitmap' = [bitmap EXCEPT ![ib[1]] = @ \cup {ib[2]}]

\* clear_bit(addr): store(cell, load(cell) & !(1 << bit)).
ClearBit(a) ==
  LET ib == ObjectStartIndexAndBit(a) IN
  bitmap' = [bitmap EXCEPT ![ib[1]] = @ \ {ib[2]}]

\* clear(): memset of the whole mapping.
Clear == bitmap' = [c \in Cells |-> {}]

Next == (\E a \in Addrs : SetBit(a) \/ ClearBit(a)) \/ Clear

Spec == Init /\ [][Next]_vars

-----------------------------------------------------------------------------
TypeOK == bitmap \in [Cells -> SUBSET CellBits]

\* find_header never invents a header: whenever it returns an address, that
\* address is at or before the interior pointer and its bit is set.
FindHeaderSound ==
  \A a \in Addrs :
    LET h == FindHeader(bitmap, a)
    IN h \notin {Panic, Wild} => h <= a /\ CheckBit(bitmap, h)

=============================================================================

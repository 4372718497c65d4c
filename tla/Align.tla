-------------------------------- MODULE Align --------------------------------
(***************************************************************************)
(* The integer helpers behind bitmap sizing and address alignment:        *)
(* round_down and round_up of crates/comet/src/bitmap.rs, the bitmap     *)
(* geometry of SpaceBitmap (compute_bitmap_size, compute_heap_size,       *)
(* offset_to_index, has_address), and align_down, align_up, is_aligned,  *)
(* align_usize, which_power_of_two and the u32 power-of-two roundings of *)
(* crates/comet/src/utils.rs.  usize and u64 are Wd-bit words and u32 is *)
(* a U32-bit word; wrapping_* is arithmetic modulo the width.  A shift   *)
(* that overflows panics in a debug build and is masked to the width in  *)
(* a release build.  Each action is one call of a helper on inputs from  *)
(* small sets; `call` records the call and what it returned.             *)
(***************************************************************************)
EXTENDS Naturals, Bitwise

CONSTANTS
  Wd,              \* bits of usize and u64
  U32,             \* bits of u32
  ALIGN,           \* the SpaceBitmap's ALIGN
  LINE_ALIGN,      \* the LineMarkTable's ALIGN (IMMIX_LINE_SIZE)
  CAPACITY,        \* the LineMarkTable's CAPACITY (CHUNK_SIZE)
  Aligns,          \* align arguments of the usize helpers
  OverflowChecks,  \* TRUE for a debug build
  Panic            \* the result of a call that panics

ASSUME Wd % 8 = 0 /\ U32 \in Nat \ {0} /\ Aligns \subseteq Nat \ {0}

Mod == 2 ^ Wd
Words == 0 .. Mod - 1
Wrap(x) == x % Mod
BitNot(x) == Mod - 1 - x
WordBytes == Wd \div 8            \* size_of::<usize>()
BITS_PER_INTPTR == Wd
Pow2 == {2 ^ k : k \in 0 .. Wd - 1}

\* The index of the highest set bit plus one: the bits of x that are used.
RECURSIVE BitLength(_)
BitLength(x) == IF x = 0 THEN 0 ELSE 1 + BitLength(x \div 2)

LeadingZeros(x, w) == w - BitLength(x)

RECURSIVE TrailingZerosOf(_, _)
TrailingZerosOf(x, w) ==
  IF w = 0 \/ x % 2 = 1 THEN 0 ELSE 1 + TrailingZerosOf(x \div 2, w - 1)

-----------------------------------------------------------------------------
\* round_down(x, n): (x as i64 & -(n as i64)) as u64.
RoundDown(x, n) == x & Wrap(Mod - n)

\* Mutant: the rounding adds n and forgets the - 1.
RoundUpNoMinusOne(x, n) == RoundDown(Wrap(x + n), n)

\* round_up(x, n): round_down(x.wrapping_add(n).wrapping_sub(1), n).
RoundUp(x, n) == RoundDown(Wrap(x + n - 1), n)

BytesCoveredPerWord == ALIGN * BITS_PER_INTPTR

\* Mutant: the capacity is divided without rounding up.
ComputeBitmapSizeTruncating(capacity) ==
  Wrap((capacity \div BytesCoveredPerWord) * WordBytes)

\* SpaceBitmap::compute_bitmap_size(capacity), in bytes.
ComputeBitmapSize(capacity) ==
  Wrap((RoundUp(capacity, BytesCoveredPerWord) \div BytesCoveredPerWord) * WordBytes)

\* SpaceBitmap::compute_heap_size(bitmap_bytes).
ComputeHeapSize(bitmapBytes) == Wrap(bitmapBytes * 8 * ALIGN)

OffsetToIndex(offset) == (offset \div ALIGN) \div BITS_PER_INTPTR

\* has_address for a bitmap of bitmapSize bytes, at an offset already
\* taken with wrapping_sub from heap_begin.
HasAddress(bitmapSize, offset) == OffsetToIndex(offset) < bitmapSize \div WordBytes

IndexToOffset(index) == Wrap(index * ALIGN * BITS_PER_INTPTR)

\* heap_size() of a bitmap of bitmapSize bytes.
HeapSize(bitmapSize) == IndexToOffset(bitmapSize \div WordBytes)

\* Mutant: the assert_eq! is left out.
SetHeapSizeUnchecked(bytes) == OffsetToIndex(bytes) * WordBytes

\* set_heap_size(bytes): the new bitmap_size, or a panic of the assert_eq!
\* that heap_size() gives bytes back.
SetHeapSize(bytes) ==
  LET size == OffsetToIndex(bytes) * WordBytes
  IN IF HeapSize(size) = bytes THEN size ELSE Panic

\* The LineMarkTable of gen_const_bitmap!: its BITMAP_SIZE constant, the
\* length of the storage array empty() gives it, and offset_to_index, each
\* written out separately in the macro.
LineBytesPerWord == LINE_ALIGN * BITS_PER_INTPTR

\* Mutant: the constant is computed without rounding the capacity up.
BITMAP_SIZE_Truncating == (CAPACITY \div LineBytesPerWord) * WordBytes

BITMAP_SIZE == (RoundUp(CAPACITY, LineBytesPerWord) \div LineBytesPerWord) * WordBytes

LineStorageLen ==
  (RoundUp(CAPACITY, LineBytesPerWord) \div LineBytesPerWord) * WordBytes

LineOffsetToIndex(offset) == (offset \div LINE_ALIGN) \div BITS_PER_INTPTR

\* create(name, heap_begin, heap_capacity): bitmap_size is BITMAP_SIZE,
\* whatever the heap_capacity.
LineCreateSize(heapCapacity) == BITMAP_SIZE

-----------------------------------------------------------------------------
\* align_down(addr, align): addr & !align.wrapping_sub(1).
AlignDown(addr, align) == addr & BitNot(Wrap(align - 1))

\* align_up(addr, align):
\*   addr.wrapping_sub(align).wrapping_sub(1) & !align.wrapping_sub(1).
AlignUp(addr, align) == Wrap(addr - align - 1) & BitNot(Wrap(align - 1))

\* is_aligned(addr, align): addr & align.wrapping_sub(1) == 0.
IsAligned(addr, align) == (addr & Wrap(align - 1)) = 0

\* Mutant: the sum is divided before the align - 1 is added.
AlignUsizeLate(value, align) == Wrap((value \div align) * align + align - 1)

\* align_usize(value, align): value.wrapping_add(align).wrapping_sub(1)
\* .wrapping_div(align).wrapping_mul(align).
AlignUsize(value, align) == Wrap((Wrap(value + align - 1) \div align) * align)

\* which_power_of_two(value): value.trailing_zeros().
WhichPowerOfTwo(value) == TrailingZerosOf(value, Wd)

\* Mutant: the shift is made in a wider integer and never masked.
RoundUpToPowerOfTwo32Wide(value) ==
  2 ^ (U32 - LeadingZeros(IF value > 0 THEN value - 1 ELSE value, U32))

\* Mutant: the value is not decremented first.
RoundUpToPowerOfTwo32NoDecrement(value) ==
  LET s == U32 - LeadingZeros(value, U32)
  IN IF s < U32 THEN 2 ^ s ELSE IF OverflowChecks THEN Panic ELSE 2 ^ (s % U32)

\* round_up_to_power_of_two32(value): if value > 0 { value -= 1 };
\* 1 << (32 - value.leading_zeros()).  The shift by 32, for a value above
\* 2^31, overflows.
RoundUpToPowerOfTwo32(value) ==
  LET v == IF value > 0 THEN value - 1 ELSE value
      s == U32 - LeadingZeros(v, U32)
  IN IF s < U32 THEN 2 ^ s ELSE IF OverflowChecks THEN Panic ELSE 2 ^ (s % U32)

\* round_down_to_power_of_two32(value): 0x80000000 above it; otherwise
\* round up, and halve the result when it exceeds the value.
RoundDownToPowerOfTwo32(value) ==
  IF value > 2 ^ (U32 - 1) THEN 2 ^ (U32 - 1)
  ELSE LET result == RoundUpToPowerOfTwo32(value)
       IN IF result > value THEN result \div 2 ELSE result

-----------------------------------------------------------------------------
VARIABLE call   \* the last call: the helper, its arguments and its result

NoCall == [op |-> "none", arg |-> 0, align |-> 0, res |-> 0]

Init == call = NoCall

Record(op, arg, align, res) == call' = [op |-> op, arg |-> arg, align |-> align, res |-> res]

CallRoundUp(x, n) == Record("round_up", x, n, RoundUp(x, n))
CallComputeBitmapSize(c) == Record("compute_bitmap_size", c, ALIGN, ComputeBitmapSize(c))
CallSetHeapSize(b) == Record("set_heap_size", b, ALIGN, SetHeapSize(b))
CallLineCreate(c) == Record("line_create", c, LINE_ALIGN, LineCreateSize(c))
CallAlignDown(a, n) == Record("align_down", a, n, AlignDown(a, n))
CallAlignUp(a, n) == Record("align_up", a, n, AlignUp(a, n))
CallIsAligned(a, n) == Record("is_aligned", a, n, IsAligned(a, n))
CallAlignUsize(v, n) == Record("align_usize", v, n, AlignUsize(v, n))
CallWhichPowerOfTwo(v) == Record("which_power_of_two", v, 0, WhichPowerOfTwo(v))
CallRoundUpToPowerOfTwo32(v) == Record("round_up_pow2", v, 0, RoundUpToPowerOfTwo32(v))
CallRoundDownToPowerOfTwo32(v) == Record("round_down_pow2", v, 0, RoundDownToPowerOfTwo32(v))

U32Words == 0 .. 2 ^ U32 - 1

Next ==
  \/ \E x \in Words, n \in Pow2 :
       CallRoundUp(x, n) \/ CallAlignDown(x, n) \/ CallAlignUp(x, n) \/ CallIsAligned(x, n)
  \/ \E c \in Words :
       \/ CallComputeBitmapSize(c) \/ CallWhichPowerOfTwo(c)
       \/ CallSetHeapSize(c) \/ CallLineCreate(c)
  \/ \E v \in Words, n \in Aligns : CallAlignUsize(v, n)
  \/ \E v \in U32Words : CallRoundUpToPowerOfTwo32(v) \/ CallRoundDownToPowerOfTwo32(v)

Spec == Init /\ [][Next]_call

-----------------------------------------------------------------------------
\* Reference definitions, in unbounded arithmetic.
LeastMultiple(x, n) == ((x + n - 1) \div n) * n
GreatestMultiple(x, n) == (x \div n) * n
LeastPow2AtLeast(v) == CHOOSE p \in {2 ^ k : k \in 0 .. U32} : p >= v /\ (p = 1 \/ p \div 2 < v)
GreatestPow2AtMost(v) == CHOOSE p \in {2 ^ k : k \in 0 .. U32} : p <= v /\ 2 * p > v

TypeOK ==
  call.res \in CASE call.op \in {"is_aligned"} -> BOOLEAN
               []   call.op \in {"round_up_pow2", "round_down_pow2"} -> U32Words \cup {Panic}
               []   call.op = "set_heap_size" -> Words \cup {Panic}
               []   OTHER -> Words

\* round_up(x, n) for a power of two n is the least multiple of n at or
\* above x, reduced modulo the word: it wraps to 0 only where that
\* multiple is 2^64 itself.
RoundUpIsLeastMultiple ==
  call.op = "round_up" => call.res = LeastMultiple(call.arg, call.align) % Mod

\* A bitmap of compute_bitmap_size(capacity) bytes covers the whole heap:
\* has_address holds for every offset below the capacity, the heap size
\* it covers (compute_heap_size) is the capacity rounded up to whole
\* bitmap words, and has_address holds for exactly the offsets below that.
BitmapCoversCapacity ==
  call.op = "compute_bitmap_size" /\ LeastMultiple(call.arg, BytesCoveredPerWord) < Mod =>
    LET bytes == call.res
        covered == ComputeHeapSize(bytes)
    IN /\ covered = LeastMultiple(call.arg, BytesCoveredPerWord)
       /\ \A o \in Words : HasAddress(bytes, o) <=> o < covered

\* set_heap_size(bytes) panics exactly when bytes is not a whole number of
\* bitmap words' worth of heap, and otherwise leaves has_address holding
\* for exactly the offsets below bytes: the heap never grows or shrinks
\* silently to a different size than the caller asked for.
SetHeapSizeExact ==
  call.op = "set_heap_size" =>
    /\ call.res = Panic <=> call.arg % BytesCoveredPerWord # 0
    /\ call.res # Panic => \A o \in Words : HasAddress(call.res, o) <=> o < call.arg

\* A LineMarkTable created over at most CAPACITY bytes of heap marks every
\* address of its heap in a word of its own inline storage: the index of
\* each offset below heap_capacity passes the bitmap_size debug_assert of
\* atomic_test_and_set and lies inside the array empty() allocated, and
\* heap_size() is CAPACITY rounded up to whole bitmap words.
LineTableInBounds ==
  call.op = "line_create" /\ call.arg <= CAPACITY =>
    /\ \A o \in 0 .. call.arg - 1 :
         /\ LineOffsetToIndex(o) < call.res \div WordBytes
         /\ LineOffsetToIndex(o) < LineStorageLen \div WordBytes
    /\ (call.res \div WordBytes) * LineBytesPerWord = LeastMultiple(CAPACITY, LineBytesPerWord)

\* align_down gives the greatest multiple of a power-of-two align at or
\* below the address, is_aligned holds exactly for its multiples, and
\* align_usize gives the least multiple of any align at or above the value
\* when value + align - 1 fits in a usize.
AlignHelpersExact ==
  /\ call.op = "align_down" => call.res = GreatestMultiple(call.arg, call.align)
  /\ call.op = "is_aligned" => call.res = (call.arg % call.align = 0)
  /\ call.op = "align_usize" /\ call.arg + call.align - 1 < Mod =>
       call.res = LeastMultiple(call.arg, call.align)

\* The doc comment of align_usize (utils.rs:111-112): it "rounds the given
\* value `val` up to the nearest multiple of `align`", for every value: the
\* result is a multiple of align and not below the value.  The wrapping_add
\* of the code breaks this when value + align - 1 passes usize::MAX.
AlignUsizeRoundsUp ==
  call.op = "align_usize" => call.res >= call.arg /\ call.res % call.align = 0

\* which_power_of_two(2^k) is k; round_up_to_power_of_two32 gives the
\* least power of two at or above its argument (1 for 0) up to 2^31;
\* round_down_to_power_of_two32 gives the greatest power of two at or
\* below any nonzero argument, and 0 for 0.
PowerOfTwoRounding ==
  /\ call.op = "which_power_of_two" /\ call.arg \in Pow2 => 2 ^ call.res = call.arg
  /\ call.op = "round_up_pow2" /\ call.arg <= 2 ^ (U32 - 1) =>
       call.res = LeastPow2AtLeast(call.arg)
  /\ call.op = "round_down_pow2" =>
       call.res = IF call.arg = 0 THEN 0 ELSE GreatestPow2AtMost(call.arg)

=============================================================================

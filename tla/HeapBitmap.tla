-------------------------------- MODULE HeapBitmap --------------------------------
(***************************************************************************)
(* HeapBitmap of crates/comet/src/bitmap.rs: the mark bitmaps of the      *)
(* continuous spaces, in the order add_continuous_space pushed them.      *)
(* Every operation takes the first bitmap whose has_address claims the    *)
(* object and delegates to it; an object no bitmap claims is a precise    *)
(* (large) allocation, and the operation returns false without effect.     *)
(* The bitmap operations are those of SpaceBitmap.tla, per space.           *)
(***************************************************************************)
EXTENDS Naturals, Sequences

CONSTANTS
  W,           \* BITS_PER_INTPTR
  SpaceList,   \* the spaces added, in order: <<heap_begin, capacity>>
  Precise,     \* addresses of precise allocations, outside every space
  None

MIN_ALLOCATION == 16
Covered == MIN_ALLOCATION * W      \* bytes_covered_per_word

\* round_down(x, n) = x & -n and round_up for a power-of-two n.
RoundDown(x, n) == (x \div n) * n
RoundUp(x, n) == RoundDown(x + n - 1, n)

\* compute_bitmap_size(capacity) / size_of::<usize>(): the words of space i.
NWordsOf(i) == RoundUp(SpaceList[i][2], Covered) \div Covered

Spaces == 1 .. Len(SpaceList)

Begin(i) == SpaceList[i][1]
Index(i, a) == (a - Begin(i)) \div Covered                 \* offset_to_index
Bit(i, a) == ((a - Begin(i)) \div MIN_ALLOCATION) % W      \* offset_bit_index

\* The slots of space i: [heap_begin, heap_begin + capacity).
SlotsOf(i) == {SpaceList[i][1] + k * MIN_ALLOCATION : k \in 0 .. SpaceList[i][2] \div MIN_ALLOCATION - 1}

Objects == UNION {SlotsOf(i) : i \in Spaces} \cup Precise

VARIABLES
  nspaces,  \* continuous_space_bitmaps.len()
  bits      \* bits[i]: the bitmap of space i

vars == <<nspaces, bits>>

\* Mutant: has_address with a plain subtraction, so an address below
\* heap_begin gives a negative offset that passes the bound.
HasAddressSigned(i, a) == Index(i, a) < NWordsOf(i)

\* SpaceBitmap::has_address of space i: a wrapping subtraction, so an
\* address below heap_begin is far outside.
HasAddress(i, a) == a >= Begin(i) /\ Index(i, a) < NWordsOf(i)

\* get_continuous_space_bitmap(obj): the first pushed bitmap that claims obj.
GetContinuousSpaceBitmap(a) ==
  LET claim == {i \in 1 .. nspaces : HasAddress(i, a)}
  IN IF claim = {} THEN None ELSE CHOOSE i \in claim : \A j \in claim : i <= j

\* test(obj)
HeapTest(a) ==
  LET i == GetContinuousSpaceBitmap(a)
  IN IF i = None THEN FALSE ELSE Bit(i, a) \in bits[i][Index(i, a)]

-----------------------------------------------------------------------------
Init == nspaces = 0 /\ bits = [i \in Spaces |-> [k \in 0 .. NWordsOf(i) - 1 |-> {}]]

\* add_continuous_space(space): push a (zeroed) space bitmap.
AddContinuousSpace ==
  /\ nspaces < Len(SpaceList)
  /\ nspaces' = nspaces + 1
  /\ UNCHANGED bits

\* Mutant: the mask of the space's modify is 1 << (bit + 1).
ModifyNextBit(a, setBit) ==
  LET i == GetContinuousSpaceBitmap(a)
  IN /\ bits' = IF i = None THEN bits
                ELSE [bits EXCEPT ![i][Index(i, a)] =
                        IF setBit THEN @ \cup {Bit(i, a) + 1} ELSE @ \ {Bit(i, a) + 1}]
     /\ UNCHANGED nspaces

\* set(obj), clear(obj) and atomic_test_and_set(obj): the owning bitmap's
\* modify; without one, only a debug_assert of is_precise.
Modify(a, setBit) ==
  LET i == GetContinuousSpaceBitmap(a)
  IN /\ bits' = IF i = None THEN bits
                ELSE [bits EXCEPT ![i][Index(i, a)] =
                        IF setBit THEN @ \cup {Bit(i, a)} ELSE @ \ {Bit(i, a)}]
     /\ UNCHANGED nspaces

Set(a) == Modify(a, TRUE)
Clear(a) == Modify(a, FALSE)
AtomicTestAndSet(a) == Modify(a, TRUE)

Next ==
  \/ AddContinuousSpace
  \/ \E a \in Objects : Set(a) \/ Clear(a) \/ AtomicTestAndSet(a)

Spec == Init /\ [][Next]_vars

-----------------------------------------------------------------------------
TypeOK ==
  /\ nspaces \in 0 .. Len(SpaceList)
  /\ \A i \in Spaces : bits[i] \in [0 .. NWordsOf(i) - 1 -> SUBSET (0 .. W - 1)]

\* The space an object lies in, among those added so far.
Owner(a) == IF \E i \in 1 .. nspaces : a \in SlotsOf(i)
              THEN CHOOSE i \in 1 .. nspaces : a \in SlotsOf(i) ELSE None

\* spec.md 3.4 and 4.4: an operation on an object reaches the bitmap of the
\* space the object lies in, and an object outside every added space (a
\* precise allocation, or one of a space not added yet) reaches none, so a
\* mark made through the HeapBitmap is seen by the owning space's sweep.
RoutesToOwner ==
  \A a \in Objects : GetContinuousSpaceBitmap(a) = Owner(a)

=============================================================================

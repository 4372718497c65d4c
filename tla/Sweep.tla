-------------------------------- MODULE Sweep --------------------------------
(***************************************************************************)
(* SpaceBitmap::sweep_walk of crates/comet/src/bitmap.rs over a live and a *)
(* mark bitmap of one space, and the buffering loop it shares with        *)
(* sweep_walk_color.  The walk loads whole words from the word of         *)
(* sweep_begin to the word of sweep_end - 1, buffers the addresses of     *)
(* live & !mark, and hands the buffer to the callback whenever, after a   *)
(* non-empty garbage word, it is within one word of full, and once more   *)
(* at the end.  The operators here are pure: SweepColor applies them to   *)
(* its state.                                                             *)
(***************************************************************************)
EXTENDS Integers, Sequences, SequencesExt

CONSTANTS
  W,            \* BITS_PER_INTPTR
  ALIGN,        \* the const generic ALIGN
  NWords,       \* words of each bitmap
  HeapBegin,    \* heap_begin of both bitmaps
  WordBytes,    \* size_of::<usize>()
  SweepRanges   \* the [sweep_begin, sweep_end) the collector sweeps

SB == INSTANCE SpaceBitmap
        WITH bits <- [i \in 0 .. NWords - 1 |-> {}], MIN_ALLOCATION <- ALIGN,
             OverflowChecks <- FALSE, Panic <- "panic", Wild <- "wild"

Addrs  == SB!Addrs
Bounds == SB!Bounds
Bitmap == SB!Bitmap
OffsetToIndex(o) == SB!OffsetToIndex(o)
Test(bm, a) == SB!Test(bm, a)

ASSUME SweepRanges \subseteq Bounds \X Bounds

-----------------------------------------------------------------------------
(* The buffering loop shared by sweep_walk and sweep_walk_color: gw[i] is  *)
(* the garbage word of word i, tw[i] the word whose `garbage != 0` test    *)
(* encloses the flush check; pointerEnd is buffer_size - W, the fill at    *)
(* which the buffer is flushed after such a word.  Returns the batches     *)
(* handed to the callback, in order (a batch may be empty when tw[i] is    *)
(* not gw[i]).                                                             *)
RECURSIVE WalkWords(_, _, _, _, _, _, _)
WalkWords(tw, gw, i, end, pointerEnd, cur, batches) ==
  IF i > end
    THEN IF cur # <<>> THEN Append(batches, cur) ELSE batches
    ELSE LET cur1 == cur \o SB!Ascending(i, gw[i])
         IN IF tw[i] # {} /\ Len(cur1) >= pointerEnd
              THEN WalkWords(tw, gw, i + 1, end, pointerEnd, <<>>, Append(batches, cur1))
              ELSE WalkWords(tw, gw, i + 1, end, pointerEnd, cur1, batches)

\* Mutant: the garbage word is the live word; the mark bitmap is not read.
SweepWalkIgnoringMark(lv, mk, b, e) ==
  IF e <= b THEN <<>>
  ELSE WalkWords(lv, lv, OffsetToIndex(b - HeapBegin), OffsetToIndex(e - HeapBegin - 1),
                 WordBytes * W - W, <<>>, <<>>)

\* sweep_walk(live, mark, sweep_begin, sweep_end, callback): the batches.
SweepWalk(lv, mk, b, e) ==
  LET garbage == [i \in DOMAIN lv |-> lv[i] \ mk[i]]
  IN IF e <= b THEN <<>>
     ELSE WalkWords(garbage, garbage,
                    OffsetToIndex(b - HeapBegin), OffsetToIndex(e - HeapBegin - 1),
                    WordBytes * W - W, <<>>, <<>>)

\* Every address of a sequence of batches.
Reported(batches) == {FlattenSeq(batches)[k] : k \in 1 .. Len(FlattenSeq(batches))}

\* The collector's callback frees each reported object: its live bit goes.
Free(lv, S) == [i \in DOMAIN lv |-> lv[i] \ {b \in 0 .. W - 1 : SB!SlotAddr(i, b) \in S}]

=============================================================================

------------------------------ MODULE SweepColor ------------------------------
(***************************************************************************)
(* SpaceBitmap::sweep_walk_color of crates/comet/src/bitmap.rs: the sweep  *)
(* that takes liveness from the object colour instead of a mark bitmap.    *)
(* For every live bit of the words from sweep_begin to sweep_end - 1 it   *)
(* calls set_color(from_color, to_color) on the object; a failed          *)
(* transition (the colour was not from_color) puts the object in the      *)
(* buffer.  The buffer holds buffer_size pointers (a caller's choice, or  *)
(* size_of::<usize>() * W) and is flushed to the callback when its fill   *)
(* reaches buffer_size - W after a non-empty LIVE word, so a flush may    *)
(* hand the callback zero pointers.  The callback frees the objects.      *)
(* SweepWalkExact checks the mark-bitmap sweep of module Sweep against    *)
(* the same state, with the objects of from_color as the mark bitmap.     *)
(***************************************************************************)
EXTENDS Integers, Sequences, SequencesExt

CONSTANTS
  W, ALIGN, NWords, HeapBegin, WordBytes, SweepRanges,
  Colors,          \* the colours an object header can hold
  FromColor,       \* from_color: the colour of objects found live
  ToColor,         \* to_color: the colour they are reset to
  BufferSizes,     \* the buffer_size arguments the collector passes
  OverflowChecks,  \* TRUE for a debug build
  Panic            \* the result of a walk that panics

ASSUME FromColor \in Colors /\ ToColor \in Colors /\ FromColor # ToColor

VARIABLES live, color

vars == <<live, color>>

S == INSTANCE Sweep

Addrs == S!Addrs
Test(bm, a) == S!Test(bm, a)
Slot(i, b) == S!SB!SlotAddr(i, b)

\* HeapObjectHeader::set_color(from, to): a compare-and-set of the colour
\* that returns true when it fails.  (Not in the repository's api.rs.)
SetColorFails(c) == c # FromColor
SetColor(c) == IF c = FromColor THEN ToColor ELSE c

\* The live words from the word of b to the word of e - 1.
WordsOf(b, e) == S!OffsetToIndex(b - HeapBegin) .. S!OffsetToIndex(e - HeapBegin - 1)

\* Mutant: every live object is batched, whatever set_color returned.
ColorGarbageAll(lv, col) == [i \in 0 .. NWords - 1 |-> lv[i]]

\* The garbage word of word i: live bits whose set_color fails.
ColorGarbage(lv, col) ==
  [i \in 0 .. NWords - 1 |-> {b \in lv[i] : SetColorFails(col[Slot(i, b)])}]

\* sweep_walk_color(live, sweep_begin, sweep_end, callback, buffer_size, ..):
\* the batches; pointer_end is buffer_size - W, which underflows for a
\* buffer smaller than a word: a debug build panics, a release build wraps
\* pointer_end below the buffer and flushes after every non-empty word.
\* The flush check sits under the live word's `garbage != 0` test.
\* Mutant: pointer_end at the end of the buffer, not one word before it.
SweepWalkColorFlushAtEnd(lv, col, b, e, buf) ==
  CASE e <= b -> <<>>
  []   OTHER -> S!WalkWords(lv, ColorGarbage(lv, col), S!OffsetToIndex(b - HeapBegin),
                            S!OffsetToIndex(e - HeapBegin - 1), buf, <<>>, <<>>)

SweepWalkColor(lv, col, b, e, buf) ==
  CASE e <= b -> <<>>
  []   buf < W /\ OverflowChecks -> Panic
  []   OTHER -> S!WalkWords(lv, ColorGarbage(lv, col), S!OffsetToIndex(b - HeapBegin),
                            S!OffsetToIndex(e - HeapBegin - 1), buf - W, <<>>, <<>>)

\* The colours after the walk: set_color on every live object of the words.
ColorsAfter(lv, col, b, e) ==
  [a \in Addrs |-> IF /\ b < e /\ Test(lv, a)
                      /\ S!OffsetToIndex(a - HeapBegin) \in WordsOf(b, e)
                     THEN SetColor(col[a]) ELSE col[a]]

-----------------------------------------------------------------------------
Init == /\ live = S!SB!EmptyBitmap
        /\ color \in [Addrs -> Colors]

\* The allocator sets the live bit of a free slot.
Allocate(a) ==
  /\ ~Test(live, a)
  /\ live' = S!SB!Modify(live, a, TRUE)
  /\ UNCHANGED color

\* The tracer colours a live object.
Paint(a, c) ==
  /\ Test(live, a)
  /\ color' = [color EXCEPT ![a] = c]
  /\ UNCHANGED live

\* sweep_walk_color over [b, e) with buffer_size buf and the freeing callback.
SweepColor(b, e, buf) ==
  LET batches == SweepWalkColor(live, color, b, e, buf)
  IN /\ batches # Panic
     /\ live' = S!Free(live, S!Reported(batches))
     /\ color' = ColorsAfter(live, color, b, e)

Next ==
  \/ \E a \in Addrs : Allocate(a) \/ \E c \in Colors : Paint(a, c)
  \/ \E r \in SweepRanges, buf \in BufferSizes : SweepColor(r[1], r[2], buf)

Spec == Init /\ [][Next]_vars

-----------------------------------------------------------------------------
\* The mark bitmap of the objects the tracer left in from_color.
MarkedBy(col) == [i \in 0 .. NWords - 1 |-> {b \in 0 .. W - 1 : col[Slot(i, b)] = FromColor}]

\* The live objects of [b, e) that are not in from_color, ascending.
UnmarkedLive(b, e) ==
  S!SB!SortedSeq({a \in Addrs : b <= a /\ a < e /\ Test(live, a) /\ color[a] # FromColor})

\* spec.md 8.5: sweep_walk reports exactly the addresses of [sweep_begin,
\* sweep_end) that are live and unmarked, in ascending order and each once,
\* however the buffer flushes split them into batches; with the
\* from_color objects as marks it agrees with sweep_walk_color.
SweepWalkExact ==
  \A r \in SweepRanges :
    FlattenSeq(S!SweepWalk(live, MarkedBy(color), r[1], r[2])) = UnmarkedLive(r[1], r[2])

\* spec.md 8.6: sweep_walk_color reports exactly the live objects of
\* [sweep_begin, sweep_end) whose colour is not from_color, each once and in
\* ascending order, and moves the others from from_color to to_color.
SweepColorExact ==
  \A r \in SweepRanges, buf \in BufferSizes :
    LET batches == SweepWalkColor(live, color, r[1], r[2], buf)
    IN /\ batches # Panic
       /\ FlattenSeq(batches) = UnmarkedLive(r[1], r[2])
       /\ \A a \in Addrs :
            r[1] <= a /\ a < r[2] /\ Test(live, a) =>
              ColorsAfter(live, color, r[1], r[2])[a] = ToColor

\* No batch handed to the callback is longer than the buffer it was
\* collected in: the flush at buffer_size - W leaves room for a full word.
BatchesFitBuffer ==
  \A r \in SweepRanges, buf \in BufferSizes :
    LET batches == SweepWalkColor(live, color, r[1], r[2], buf)
    IN batches # Panic => \A k \in 1 .. Len(batches) : Len(batches[k]) <= buf

=============================================================================

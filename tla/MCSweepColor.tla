------------------------------ MODULE MCSweepColor ------------------------------
(* Two words of four bits, two colours; the colours double as the mark  *)
(* bitmap of sweep_walk.  The buffer sizes are one word,                 *)
(* one word and one pointer, and the default size_of::<usize>() * W.      *)
EXTENDS SweepColor

WordRanges ==
  {<<HeapBegin + i * ALIGN * W, HeapBegin + j * ALIGN * W>> :
     <<i, j>> \in {p \in (0 .. NWords) \X (0 .. NWords) : p[1] < p[2]}}

WordBuffers  == {W, W + 1, WordBytes * W}
====

-------------------------- MODULE MCObjectStartBitmap --------------------------
(* A heap of two cells (2 * 8 * 16 bytes) after a non-zero heap_begin, so  *)
(* the scan back crosses a cell boundary; the guard is scaled from 4096   *)
(* to 0 bytes to keep the mapping at the two cells the heap uses.         *)
EXTENDS ObjectStartBitmap
====

---------------------------- MODULE MCSpaceBitmap ----------------------------
(* SpaceBitmap<16> over three words of four bits: a range can have a left  *)
(* edge, a whole middle word and a right edge, and a heap_begin other than *)
(* zero catches a missing subtraction.                                    *)
EXTENDS SpaceBitmap
====

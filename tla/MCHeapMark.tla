-------------------------------- MODULE MCHeapMark --------------------------------
(* The aligned two-space heap of MCHeapBitmap, with five marking threads: *)
(* two mark the object at 64, two its neighbours at 80 and 112 in the same *)
(* bitmap word, and one the precise object at 208.  The set-up may set or  *)
(* clear every object of that word, objects of the other space and the    *)
(* precise one before marking starts.                                     *)
EXTENDS HeapMark, TLC

CONSTANTS t1, t2, t3, t4, t5

MCSpaces  == << <<256, 64>>, <<64, 128>> >>
MCPrecise == {208}
MCThreads == {t1, t2, t3, t4, t5}
MCSetup   == {64, 80, 96, 112, 256, 208}
MCTarget  == (t1 :> 64) @@ (t2 :> 64) @@ (t3 :> 80) @@ (t4 :> 208) @@ (t5 :> 112)
=============================================================================

-------------------------------- MODULE MCAlign --------------------------------
(* 8-bit usize and u32, a bitmap of ALIGN 2 (16 bytes per 8-bit word), and  *)
(* power-of-two and other aligns; every argument of the width is a call.   *)
EXTENDS Align

MCAligns == {1, 3, 4, 6, 16, 255}
====

-------------------------------- MODULE MCHeader --------------------------------
(* Three 8-aligned vtable pointers, three forwarding addresses (16-aligned *)
(* like the 0xBEEF0000 of spec.md S5, so bit 3 is clear), and sizes from  *)
(* one slot to the largest the 13-bit field holds.                        *)
EXTENDS Header

MCVTables  == {268435480, 536870976, 4104}   \* 0x10000018, 0x20000040, 0x1008
MCPointers == {805306368, 805306384, 4096}   \* 0x30000000, 0x30000010, 0x1000
MCSizes    == {16, 48, 1040, 131056}         \* 1040 = 0x410; 131056 = 8191 * 16
====

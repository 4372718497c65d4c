----------------------------- MODULE MCSafepoint -----------------------------
(* Instantiates Safepoint for TLC: two mutators that both poll and open   *)
(* scopes, one unmanaged driver thread.                                    *)
EXTENDS Safepoint

CONSTANTS m1, m2, d1

MCMutatorList == <<m1, m2>>
MCDrivers == {d1}
=============================================================================

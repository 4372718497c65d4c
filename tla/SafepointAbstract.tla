-------------------------- MODULE SafepointAbstract --------------------------
(***************************************************************************)
(* What GlobalSafepoint promises its callers: a collection lock.  At most  *)
(* one thread owns the collection, gc_running says whether one does, and   *)
(* ownership is taken only when free and given back only by its owner.    *)
(***************************************************************************)
CONSTANTS Threads, None

VARIABLES owner, gc_running

Init == owner = None /\ gc_running = 0

Begin(t) ==
  /\ owner = None
  /\ owner' = t
  /\ gc_running' = 1

End(t) ==
  /\ owner = t
  /\ owner' = None
  /\ gc_running' = 0

Next == \E t \in Threads : Begin(t) \/ End(t)

Spec == Init /\ [][Next]_<<owner, gc_running>>

=============================================================================

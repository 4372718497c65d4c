--------------------------- MODULE MarkAbstract ---------------------------
(***************************************************************************)
(* What HeapBitmap::atomic_test_and_set promises the marking threads: one *)
(* atomic test-and-set on the set of marked objects.  An object a space   *)
(* claims is marked by the call, which returns whether it was marked      *)
(* already; an object no space claims (a precise allocation) is left      *)
(* alone and the call returns false.  Before marking starts, spaces may   *)
(* be added and marks set or cleared one object at a time.                *)
(***************************************************************************)
CONSTANTS Objects, Threads, Target

VARIABLES
  claimed,  \* the objects some added space claims
  marked,   \* the claimed objects whose mark is set
  pc,       \* "idle" until the thread's call takes effect, then "done"
  result    \* what the call returned

vars == <<claimed, marked, pc, result>>

Init == /\ claimed = {} /\ marked = {}
        /\ pc = [t \in Threads |-> "idle"]
        /\ result = [t \in Threads |-> FALSE]

\* A space is added: more objects are claimed, none of them marked.
AddSpace ==
  /\ \E S \in SUBSET Objects : claimed \subseteq S /\ claimed' = S
  /\ UNCHANGED <<marked, pc, result>>

\* A plain set or clear of one claimed object.
SetOrClear ==
  /\ \E a \in claimed : marked' \in {marked \cup {a}, marked \ {a}}
  /\ UNCHANGED <<claimed, pc, result>>

Setup == (\A t \in Threads : pc[t] = "idle") /\ (AddSpace \/ SetOrClear)

\* Thread t's call takes effect at once.
Mark(t) ==
  LET a == Target[t] IN
  /\ pc[t] = "idle"
  /\ pc' = [pc EXCEPT ![t] = "done"]
  /\ result' = [result EXCEPT ![t] = a \in marked]
  /\ marked' = IF a \in claimed THEN marked \cup {a} ELSE marked
  /\ UNCHANGED claimed

Next == Setup \/ \E t \in Threads : Mark(t)

Spec == Init /\ [][Next]_vars

=============================================================================

------------------------------- MODULE ShadowStack -------------------------------
(***************************************************************************)
(* ShadowStack of src/api.rs and the letroot! macro: the rooted locals of *)
(* one thread, linked through RawShadowStackEntry.prev from the head the  *)
(* ShadowStack holds.  letroot! constructs an entry on the Rust stack with *)
(* prev = head and then makes it the head; dropping the entry at the end  *)
(* of its scope sets the head back to its prev.  Rust drops locals in     *)
(* reverse order of declaration, so entries leave in LIFO order.  Entries *)
(* live in stack slots 1 .. MaxDepth (0 is the null pointer); a slot left *)
(* by a dropped entry keeps its stale contents.                           *)
(***************************************************************************)
EXTENDS Naturals, Sequences, SequencesExt

CONSTANTS
  Values,    \* the values rooted
  MaxDepth,  \* bound on the number of rooted locals at once
  None

Slots == 1 .. MaxDepth
Null == 0

VARIABLES
  scope,  \* the rooted locals in scope, outermost first: the Rust stack
  head,   \* ShadowStack.head
  prev,   \* prev[s]: the prev pointer of the entry in slot s
  value   \* value[s]: the value of the entry in slot s

vars == <<scope, head, prev, value>>

\* walk(visitor): from head along prev to null, the values visited.
RECURSIVE WalkFrom(_)
WalkFrom(h) == IF h = Null THEN <<>> ELSE <<value[h]>> \o WalkFrom(prev[h])

-----------------------------------------------------------------------------
\* ShadowStack::new(): head is null.
Init == /\ scope = <<>>
        /\ head = Null
        /\ prev = [s \in Slots |-> Null]
        /\ value = [s \in Slots |-> None]

\* letroot!(var = stack, v): ShadowStackInternal::construct(stack,
\* stack.head.get(), vtable, v) in the next stack slot, then
\* stack.head.set(&mut var).
Letroot(v) ==
  LET s == Len(scope) + 1 IN
  /\ Len(scope) < MaxDepth
  /\ prev' = [prev EXCEPT ![s] = head]
  /\ value' = [value EXCEPT ![s] = v]
  /\ head' = s
  /\ scope' = Append(scope, v)

\* Mutant: drop sets the head to null instead of the entry's prev.
DropToNull ==
  /\ scope # <<>>
  /\ head' = Null
  /\ scope' = Front(scope)
  /\ UNCHANGED <<prev, value>>

\* Drop for ShadowStackInternal: (*self.stack).head.set(self.prev), for the
\* innermost rooted local as its scope ends.
Drop ==
  /\ scope # <<>>
  /\ head' = prev[Len(scope)]
  /\ scope' = Front(scope)
  /\ UNCHANGED <<prev, value>>

Next == (\E v \in Values : Letroot(v)) \/ Drop

Spec == Init /\ [][Next]_vars

-----------------------------------------------------------------------------
\* The collector's walk visits exactly the rooted locals still in scope,
\* innermost first, and never a stale entry of a scope that has ended:
\* after any sequence of letroot! and scope exits the list from head is the
\* Rust stack reversed.
WalkSeesRootsInScope == WalkFrom(head) = Reverse(scope)

=============================================================================

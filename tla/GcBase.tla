-------------------------------- MODULE GcBase --------------------------------
(***************************************************************************)
(* One mutator thread of a GcBase (src/base.rs): its shadow stack         *)
(* (ShadowStack.tla) and its finalizer loop (Finalizers.tla), composed     *)
(* through the code that runs inside them.  A finalizer is ordinary Rust  *)
(* code: it may root locals with letroot! on the thread's shadow stack    *)
(* and drop them, and when it returns or panics Rust drops the locals it  *)
(* still holds, innermost first, each drop setting the head back to the   *)
(* entry's prev; the panic is then caught by execute_finalizers'          *)
(* catch_unwind.  allocate_and_init roots the new object with letroot!,   *)
(* runs the init closure, which may root locals of its own, and returns   *)
(* the object, its root dropped.  frames holds, per running finalizer or  *)
(* init closure, the shadow-stack depth at its start (for init, with the *)
(* root of the new object).                                               *)
(***************************************************************************)
EXTENDS Naturals, Sequences, SequencesExt

CONSTANTS Handlers, MaxCalls, Values, MaxDepth, None

VARIABLES
  lock, pc, idx, calls, inCall,  \* execute_finalizers, as in Finalizers.tla
  scope, head, prev, value,      \* the shadow stack, as in ShadowStack.tla
  frames                         \* the running finalizer or init closure

F == INSTANCE Finalizers
SS == INSTANCE ShadowStack

finVars == <<lock, pc, idx, calls, inCall>>
ssVars == <<scope, head, prev, value>>
vars == <<finVars, ssVars, frames>>

\* The shadow-stack depth below which the running code has no locals.
Base == IF frames = <<>> THEN 0 ELSE frames[Len(frames)]

Init == F!Init /\ SS!Init /\ frames = <<>>

-----------------------------------------------------------------------------
\* Mutant: the locals go out of scope without their Drop running.
UnwindSkipped(b) ==
  /\ scope' = SubSeq(scope, 1, b)
  /\ UNCHANGED <<head, prev, value>>

\* The locals above depth b leave scope, innermost first: each
\* ShadowStackInternal::drop sets the head to its prev, so the last one
\* leaves the head at the prev of the entry at depth b + 1.
Unwind(b) ==
  /\ scope' = SubSeq(scope, 1, b)
  /\ head' = IF Len(scope) > b THEN prev[b + 1] ELSE head
  /\ UNCHANGED <<prev, value>>

\* Code runs at top level, in an init closure or in a finalizer, but not
\* in execute_finalizers' own loop, which roots nothing.
Running == pc # "loop"

\* letroot! in the running code.
Root(v) == Running /\ SS!Letroot(v) /\ UNCHANGED <<finVars, frames>>

\* The innermost local of the running code leaves its scope.
Unroot == Running /\ Len(scope) > Base /\ SS!Drop /\ UNCHANGED <<finVars, frames>>

\* The rooted locals the running code can reach: a finalizer only its own,
\* top-level code and an init closure (which may capture outer locals and
\* is handed the new object's root) every one in scope.
Writable == IF pc = "fin" THEN Base + 1 .. Len(scope) ELSE 1 .. Len(scope)

\* *rooted = v through Rooted's DerefMut (also what handle_mut().write(v)
\* and init(&mut value) reach): the value field of the pinned entry on the
\* stack is overwritten in place.
WriteRoot(k, v) ==
  /\ Running /\ k \in Writable
  /\ value' = [value EXCEPT ![k] = v]
  /\ scope' = [scope EXCEPT ![k] = v]
  /\ UNCHANGED <<head, prev, finVars, frames>>

\* The top-level code calls execute_finalizers.
CallFinalizers == frames = <<>> /\ F!Call /\ UNCHANGED <<ssVars, frames>>

\* The loop calls the finalizer of the next handler.
FinalizeEnter ==
  /\ F!FinalizeEnter /\ frames' = Append(frames, Len(scope))
  /\ UNCHANGED ssVars

\* The finalizer returns, or panics into catch_unwind: its locals drop.
FinalizeReturn ==
  /\ F!FinalizeReturn /\ Unwind(Base) /\ frames' = Front(frames)

FinalizePanic ==
  /\ F!FinalizePanic /\ Unwind(Base) /\ frames' = Front(frames)

\* The finalizer calls execute_finalizers.
FinalizeReenter == F!FinalizeReenter /\ UNCHANGED <<ssVars, frames>>

EndLoop == F!EndLoop /\ UNCHANGED <<ssVars, frames>>

\* allocate_and_init(v, init): letroot!(value = stack, self.allocate(v)),
\* then init(&mut value) starts.
AllocateAndInit(v) ==
  /\ frames = <<>> /\ pc = "idle"
  /\ SS!Letroot(v)
  /\ frames' = <<Len(scope) + 1>>
  /\ UNCHANGED finVars

\* init returns, or panics: its locals and then the root of value drop;
\* allocate_and_init returns *value.
InitEnd ==
  /\ frames # <<>> /\ pc = "idle"
  /\ Unwind(Base - 1) /\ frames' = <<>>
  /\ UNCHANGED finVars

\* Every finalizer call has been made and returned.
Finished == F!Finished /\ frames = <<>> /\ UNCHANGED vars

Next ==
  \/ \E v \in Values : Root(v) \/ AllocateAndInit(v) \/ \E k \in Writable : WriteRoot(k, v)
  \/ Unroot \/ CallFinalizers \/ FinalizeEnter \/ FinalizeReturn \/ FinalizePanic
  \/ FinalizeReenter \/ EndLoop \/ InitEnd \/ Finished

Spec == Init /\ [][Next]_vars

-----------------------------------------------------------------------------
\* The collector's walk from the head visits exactly the rooted locals in
\* scope, innermost first, also after a finalizer panicked with locals
\* rooted, after allocate_and_init returned and after locals were
\* overwritten in place: no dropped entry, no entry of a finished finalizer
\* or init closure, and no value a local no longer holds is reached.
WalkSeesRootsInScope == SS!WalkSeesRootsInScope

\* As in Finalizers.tla, now with finalizers that root locals.
LockReleasedWhenIdle == F!LockReleasedWhenIdle
NoHandlerTwiceInOneCall == F!NoHandlerTwiceInOneCall

=============================================================================

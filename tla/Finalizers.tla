-------------------------------- MODULE Finalizers --------------------------------
(***************************************************************************)
(* GcBase::execute_finalizers of src/base.rs.  It returns at once when the *)
(* finalize lock is held; otherwise it takes the lock, calls finalize on  *)
(* every registered handler in order inside catch_unwind, and releases    *)
(* the lock.  A finalizer may return, panic (the unwind ends the loop and *)
(* is caught), or call execute_finalizers again.  The default finalize is *)
(* drop_in_place.  Nothing in execute_finalizers removes a handler.       *)
(***************************************************************************)
EXTENDS Naturals, Sequences

CONSTANTS
  Handlers,  \* finalize_handlers(), in order
  MaxCalls   \* bound on the calls of execute_finalizers

N == Len(Handlers)

VARIABLES
  lock,       \* finalize_lock()
  pc,         \* "idle", "loop" or "fin" (inside the finalizer of handler idx)
  idx,        \* the handler the loop is at
  calls,      \* calls made so far
  inCall      \* inCall[i]: times handler i was finalized in the current call

vars == <<lock, pc, idx, calls, inCall>>

Init == /\ lock = FALSE /\ pc = "idle" /\ idx = 1 /\ calls = 0
        /\ inCall = [i \in 1 .. N |-> 0]

\* execute_finalizers(): if finalize_lock() return; set_finalize_lock(true).
Call ==
  /\ pc = "idle" /\ calls < MaxCalls
  /\ calls' = calls + 1
  /\ IF lock
       THEN UNCHANGED <<lock, pc, idx, inCall>>
       ELSE /\ lock' = TRUE /\ pc' = "loop" /\ idx' = 1
            /\ inCall' = [i \in 1 .. N |-> 0]

\* Handler i is finalized (drop_in_place) once more in this call.
Finalize(i) == inCall' = [inCall EXCEPT ![i] = @ + 1]

\* for item in finalize_handlers(): (**item).get_dyn().finalize() begins.
FinalizeEnter ==
  /\ pc = "loop" /\ idx <= N
  /\ Finalize(idx) /\ pc' = "fin"
  /\ UNCHANGED <<lock, idx, calls>>

\* The finalizer of handler idx returns.
FinalizeReturn ==
  /\ pc = "fin"
  /\ idx' = idx + 1 /\ pc' = "loop"
  /\ UNCHANGED <<lock, calls, inCall>>

\* Mutant: without catch_unwind the panic leaves execute_finalizers before
\* set_finalize_lock(false).
FinalizePanicUncaught ==
  /\ pc = "fin"
  /\ pc' = "idle"
  /\ UNCHANGED <<lock, idx, calls, inCall>>

\* The finalizer panics: catch_unwind stops the loop, the lock is released.
FinalizePanic ==
  /\ pc = "fin"
  /\ lock' = FALSE /\ pc' = "idle"
  /\ UNCHANGED <<idx, calls, inCall>>

\* Mutant: the nested call does not check the lock, runs every handler
\* and releases the lock at its end.
FinalizeReenterUnguarded ==
  /\ pc = "fin" /\ calls < MaxCalls
  /\ inCall' = [i \in 1 .. N |-> inCall[i] + 1]
  /\ lock' = FALSE /\ calls' = calls + 1
  /\ UNCHANGED <<pc, idx>>

\* The finalizer calls execute_finalizers, which finds the lock held (the
\* outer call holds it) and returns at once; the finalizer goes on.
FinalizeReenter ==
  /\ pc = "fin" /\ calls < MaxCalls /\ lock
  /\ calls' = calls + 1
  /\ UNCHANGED <<lock, pc, idx, inCall>>

\* The loop ends: set_finalize_lock(false).
EndLoop ==
  /\ pc = "loop" /\ idx > N
  /\ lock' = FALSE /\ pc' = "idle"
  /\ UNCHANGED <<idx, calls, inCall>>

\* Every call has returned.
Finished == pc = "idle" /\ calls = MaxCalls /\ UNCHANGED vars

Next == \/ Call \/ FinalizeEnter \/ FinalizeReturn \/ FinalizePanic
        \/ FinalizeReenter \/ EndLoop \/ Finished

Spec == Init /\ [][Next]_vars

-----------------------------------------------------------------------------
\* The finalize lock is released whenever no call is running, also after a
\* finalizer panicked: a later execute_finalizers is never locked out.
LockReleasedWhenIdle == pc = "idle" => ~lock

\* Within one call of execute_finalizers no handler is finalized twice,
\* however its finalizers re-enter execute_finalizers.
NoHandlerTwiceInOneCall == \A i \in 1 .. N : inCall[i] <= 1

=============================================================================

------------------------------ MODULE Safepoint ------------------------------
(***************************************************************************)
(* The stop-the-world rendezvous of comet (crates/comet/src/safepoint.rs): *)
(* GlobalSafepoint::{start, end, wait_gc} and SafepointScope::{new,        *)
(* new_no_mutator, drop}.  Threads are registered mutators (which poll and *)
(* may open a scope themselves) and unmanaged driver threads (which open a *)
(* scope with new_no_mutator).  The mutator side (poll_safepoint, the      *)
(* restoring state_set, parking) lives in mutator.rs, which is not part of *)
(* the sources; those actions are modelled from spec.md section 4.5.       *)
(***************************************************************************)
EXTENDS Naturals, Sequences, FiniteSets, Functions

CONSTANTS
  MutatorList,    \* href.mutators(): the registered mutators, in list order
  Drivers,        \* unmanaged threads that use SafepointScope::new_no_mutator
  MaxScopes,      \* bound on the scopes each thread opens
  WeakCasMayFail, \* TRUE when compare_exchange_weak can fail spuriously
  None            \* model value: nobody holds a lock

Mutators == Range(MutatorList)
Threads  == Mutators \cup Drivers

ASSUME /\ IsInjective(MutatorList)
       /\ Mutators \cap Drivers = {}
       /\ MaxScopes \in Nat
       /\ WeakCasMayFail \in BOOLEAN
       /\ None \notin Threads

\* ThreadState of mutator.rs.
Unsafe  == "Unsafe"
Safe    == "Safe"
Waiting == "Waiting"
Parked  == "Parked"
ThreadStates == {Unsafe, Safe, Waiting, Parked}

\* ThreadState::safe_for_safepoint.
SafeForSafepoint(s) == s \in {Safe, Waiting, Parked}

VARIABLES
  gc_running,           \* GlobalSafepoint::gc_running
  safepoint_enable_cnt, \* GlobalSafepoint::safepoint_enable_cnt (a u8 Cell)
  safepoint_lock,       \* holder of GlobalSafepoint::safepoint_lock
  global_lock,          \* holder of the heap's global (mutator list) lock
  state,                \* per-mutator state atom
  old_state,            \* SafepointScope::old_state of a mutator's scope
  scan,                 \* index into MutatorList of the scan loop
  scopes,               \* scopes opened so far, per thread
  pc

vars == <<gc_running, safepoint_enable_cnt, safepoint_lock, global_lock,
          state, old_state, scan, scopes, pc>>

Init ==
  /\ gc_running = 0
  /\ safepoint_enable_cnt = 0
  /\ safepoint_lock = None
  /\ global_lock = None
  /\ state = [m \in Mutators |-> Unsafe]
  /\ old_state = [m \in Mutators |-> Unsafe]
  /\ scan = [t \in Threads |-> 1]
  /\ scopes = [t \in Threads |-> 0]
  /\ pc = [t \in Threads |-> IF t \in Mutators THEN "user" ELSE "idle"]

Goto(t, from, to) ==
  /\ pc[t] = from
  /\ pc' = [pc EXCEPT ![t] = to]

-----------------------------------------------------------------------------
(* GlobalSafepoint::start, one action per step that another thread can    *)
(* observe.                                                                *)

\* self.safepoint_lock.lock()
StartLock(t) ==
  /\ safepoint_lock = None
  /\ Goto(t, "start_lock", "start_cas")
  /\ safepoint_lock' = t
  /\ UNCHANGED <<gc_running, safepoint_enable_cnt, global_lock, state,
                 old_state, scan, scopes>>

\* Mutant of StartCas: a plain store of 1 instead of a compare-exchange.
StartCasUnchecked(t) ==
  /\ pc[t] = "start_cas"
  /\ gc_running' = 1
  /\ pc' = [pc EXCEPT ![t] = "start_enable"]
  /\ UNCHANGED <<safepoint_enable_cnt, safepoint_lock, global_lock, state,
                 old_state, scan, scopes>>

\* Mutant of StartCas: fetch_add(1) in place of the compare-exchange, the
\* collection run by whoever saw 0.
StartCasIncrement(t) ==
  /\ pc[t] = "start_cas"
  /\ gc_running' = gc_running + 1
  /\ pc' = [pc EXCEPT ![t] = IF gc_running = 0 THEN "start_enable"
                                               ELSE "start_unlock_fail"]
  /\ UNCHANGED <<safepoint_enable_cnt, safepoint_lock, global_lock, state,
                 old_state, scan, scopes>>

\* compare_exchange_weak(0, 1): succeeds only if gc_running is 0; the weak
\* form may also fail when it is 0.
StartCas(t) ==
  /\ pc[t] = "start_cas"
  /\ \/ /\ gc_running = 0
        /\ gc_running' = 1
        /\ pc' = [pc EXCEPT ![t] = "start_enable"]
     \/ /\ gc_running = 1 \/ WeakCasMayFail
        /\ pc' = [pc EXCEPT ![t] = "start_unlock_fail"]
        /\ UNCHANGED gc_running
  /\ UNCHANGED <<safepoint_enable_cnt, safepoint_lock, global_lock, state,
                 old_state, scan, scopes>>

\* Err(_) branch: unlock, then wait_gc().
StartUnlockFail(t) ==
  /\ Goto(t, "start_unlock_fail", "start_wait_gc")
  /\ safepoint_lock' = None
  /\ UNCHANGED <<gc_running, safepoint_enable_cnt, global_lock, state,
                 old_state, scan, scopes>>

\* wait_gc() spins until gc_running reads 0; start() then returns false.
\* SafepointScope::new restores the mutator's state and returns None;
\* new_no_mutator's assert!(safepoint.start()) panics.
StartWaitGc(t) ==
  /\ pc[t] = "start_wait_gc"
  /\ gc_running = 0
  /\ pc' = [pc EXCEPT ![t] = IF t \in Mutators THEN "restore" ELSE "panicked"]
  /\ UNCHANGED <<gc_running, safepoint_enable_cnt, safepoint_lock,
                 global_lock, state, old_state, scan, scopes>>

\* assert!(gc_running == 1); self.enable() increments the u8 counter.
StartEnable(t) ==
  /\ Goto(t, "start_enable", "start_unlock")
  /\ safepoint_enable_cnt' = (safepoint_enable_cnt + 1) % 256
  /\ UNCHANGED <<gc_running, safepoint_lock, global_lock, state, old_state,
                 scan, scopes>>

\* Unlock and return true: the scope goes on to enumerate the mutators.
StartUnlock(t) ==
  /\ Goto(t, "start_unlock", "scan_lock")
  /\ safepoint_lock' = None
  /\ UNCHANGED <<gc_running, safepoint_enable_cnt, global_lock, state,
                 old_state, scan, scopes>>

-----------------------------------------------------------------------------
(* The body shared by SafepointScope::new and new_no_mutator after a     *)
(* successful start(): under the global lock, spin on every mutator in    *)
(* list order until its state is safe_for_safepoint.                       *)

ScanLock(t) ==
  /\ global_lock = None
  /\ Goto(t, "scan_lock", "scan")
  /\ global_lock' = t
  /\ scan' = [scan EXCEPT ![t] = 1]
  /\ UNCHANGED <<gc_running, safepoint_enable_cnt, safepoint_lock, state,
                 old_state, scopes>>

\* Mutant of ScanMutator: Waiting is not accepted as a safe state.
ScanMutatorSafeOnly(t) ==
  /\ pc[t] = "scan"
  /\ scan[t] <= Len(MutatorList)
  /\ state[MutatorList[scan[t]]] = Safe
  /\ scan' = [scan EXCEPT ![t] = @ + 1]
  /\ UNCHANGED <<gc_running, safepoint_enable_cnt, safepoint_lock,
                 global_lock, state, old_state, scopes, pc>>

\* One mutator observed safe (the relaxed load and then the acquire load
\* both read a safe state) and the loop moves on to the next one.
ScanMutator(t) ==
  /\ pc[t] = "scan"
  /\ scan[t] <= Len(MutatorList)
  /\ SafeForSafepoint(state[MutatorList[scan[t]]])
  /\ scan' = [scan EXCEPT ![t] = @ + 1]
  /\ UNCHANGED <<gc_running, safepoint_enable_cnt, safepoint_lock,
                 global_lock, state, old_state, scopes, pc>>

\* Loop done: global_unlock, the scope is returned and the world is stopped.
ScanUnlock(t) ==
  /\ scan[t] = Len(MutatorList) + 1
  /\ Goto(t, "scan", "stw")
  /\ global_lock' = None
  /\ UNCHANGED <<gc_running, safepoint_enable_cnt, safepoint_lock, state,
                 old_state, scan, scopes>>

-----------------------------------------------------------------------------
(* GlobalSafepoint::end, run by Drop for SafepointScope, then the restore  *)
(* of the initiating mutator's state.                                      *)

\* The collection is over and the scope is dropped: self.safepoint_lock.lock()
EndLock(t) ==
  /\ safepoint_lock = None
  /\ Goto(t, "stw", "end_disable")
  /\ safepoint_lock' = t
  /\ UNCHANGED <<gc_running, safepoint_enable_cnt, global_lock, state,
                 old_state, scan, scopes>>

\* Mutant of EndDisable: end() forgets to decrement the counter.
EndDisableMissing(t) ==
  /\ Goto(t, "end_disable", "end_store")
  /\ UNCHANGED <<gc_running, safepoint_enable_cnt, safepoint_lock,
                 global_lock, state, old_state, scan, scopes>>

\* self.disable()
EndDisable(t) ==
  /\ Goto(t, "end_disable", "end_store")
  /\ safepoint_enable_cnt' = (safepoint_enable_cnt + 255) % 256
  /\ UNCHANGED <<gc_running, safepoint_lock, global_lock, state, old_state,
                 scan, scopes>>

\* Mutant of EndStore: end() never clears gc_running.
EndStoreMissing(t) ==
  /\ Goto(t, "end_store", "end_unlock")
  /\ UNCHANGED <<gc_running, safepoint_enable_cnt, safepoint_lock,
                 global_lock, state, old_state, scan, scopes>>

\* gc_running.store(0, Release)
EndStore(t) ==
  /\ Goto(t, "end_store", "end_unlock")
  /\ gc_running' = 0
  /\ UNCHANGED <<safepoint_enable_cnt, safepoint_lock, global_lock, state,
                 old_state, scan, scopes>>

\* Unlock; drop then restores a mutator's saved state, a driver is done.
EndUnlock(t) ==
  /\ Goto(t, "end_unlock", IF t \in Mutators THEN "restore" ELSE "idle")
  /\ safepoint_lock' = None
  /\ UNCHANGED <<gc_running, safepoint_enable_cnt, global_lock, state,
                 old_state, scan, scopes>>

-----------------------------------------------------------------------------
(* Opening a scope.                                                        *)

\* Mutant of NewScope: the state is saved after Waiting is published.
NewScopeSaveLate(m) ==
  /\ scopes[m] < MaxScopes
  /\ Goto(m, "user", "start_lock")
  /\ old_state' = [old_state EXCEPT ![m] = Waiting]
  /\ state' = [state EXCEPT ![m] = Waiting]
  /\ scopes' = [scopes EXCEPT ![m] = @ + 1]
  /\ UNCHANGED <<gc_running, safepoint_enable_cnt, safepoint_lock,
                 global_lock, scan>>

\* SafepointScope::new(mutator): save the state, publish Waiting, start().
NewScope(m) ==
  /\ scopes[m] < MaxScopes
  /\ Goto(m, "user", "start_lock")
  /\ old_state' = [old_state EXCEPT ![m] = state[m]]
  /\ state' = [state EXCEPT ![m] = Waiting]
  /\ scopes' = [scopes EXCEPT ![m] = @ + 1]
  /\ UNCHANGED <<gc_running, safepoint_enable_cnt, safepoint_lock,
                 global_lock, scan>>

\* SafepointScope::new_no_mutator(heap): start() on an unmanaged thread.
NewNoMutator(d) ==
  /\ scopes[d] < MaxScopes
  /\ Goto(d, "idle", "start_lock")
  /\ scopes' = [scopes EXCEPT ![d] = @ + 1]
  /\ UNCHANGED <<gc_running, safepoint_enable_cnt, safepoint_lock,
                 global_lock, state, old_state, scan>>

\* mutator.state_set(old_state, Waiting), after a failed start() or in drop
\* after end(); spec.md: the scope "restores the initiator's prior state".
Restore(m) ==
  /\ Goto(m, "restore", "user")
  /\ state' = [state EXCEPT ![m] = old_state[m]]
  /\ UNCHANGED <<gc_running, safepoint_enable_cnt, safepoint_lock,
                 global_lock, old_state, scan, scopes>>

-----------------------------------------------------------------------------
(* The mutator-side poll_safepoint of spec.md 4.5 (mutator.rs is not part *)
(* of the sources): Unsafe -> Safe, wait_gc if gc_running != 0, -> Unsafe. *)

PollSafe(m) ==
  /\ Goto(m, "user", "poll_check")
  /\ state' = [state EXCEPT ![m] = Safe]
  /\ UNCHANGED <<gc_running, safepoint_enable_cnt, safepoint_lock,
                 global_lock, old_state, scan, scopes>>

PollCheck(m) ==
  /\ Goto(m, "poll_check", IF gc_running # 0 THEN "poll_wait" ELSE "poll_unsafe")
  /\ UNCHANGED <<gc_running, safepoint_enable_cnt, safepoint_lock,
                 global_lock, state, old_state, scan, scopes>>

\* wait_gc() inside the poll.
PollWait(m) ==
  /\ gc_running = 0
  /\ Goto(m, "poll_wait", "poll_unsafe")
  /\ UNCHANGED <<gc_running, safepoint_enable_cnt, safepoint_lock,
                 global_lock, state, old_state, scan, scopes>>

PollUnsafe(m) ==
  /\ Goto(m, "poll_unsafe", "user")
  /\ state' = [state EXCEPT ![m] = Unsafe]
  /\ UNCHANGED <<gc_running, safepoint_enable_cnt, safepoint_lock,
                 global_lock, old_state, scan, scopes>>

\* The terminal pre-join state of spec.md 4.5.
Park(m) ==
  /\ Goto(m, "user", "parked")
  /\ state' = [state EXCEPT ![m] = Parked]
  /\ UNCHANGED <<gc_running, safepoint_enable_cnt, safepoint_lock,
                 global_lock, old_state, scan, scopes>>

-----------------------------------------------------------------------------

\* The steps every thread takes inside start(), the scan and end().
Protocol(t) ==
  \/ StartLock(t) \/ StartCas(t) \/ StartUnlockFail(t) \/ StartWaitGc(t)
  \/ StartEnable(t) \/ StartUnlock(t)
  \/ ScanLock(t) \/ ScanMutator(t) \/ ScanUnlock(t)
  \/ EndLock(t) \/ EndDisable(t) \/ EndStore(t) \/ EndUnlock(t)

MutatorStep(m) ==
  \/ NewScope(m) \/ Restore(m)
  \/ PollSafe(m) \/ PollCheck(m) \/ PollWait(m) \/ PollUnsafe(m)
  \/ Park(m)

\* Every mutator has parked and every driver has used its scopes or died.
Terminated ==
  /\ \A m \in Mutators : pc[m] = "parked"
  /\ \A d \in Drivers : \/ pc[d] = "panicked"
                        \/ pc[d] = "idle" /\ scopes[d] = MaxScopes
  /\ UNCHANGED vars

Next ==
  \/ \E t \in Threads : Protocol(t)
  \/ \E m \in Mutators : MutatorStep(m)
  \/ \E d \in Drivers : NewNoMutator(d)
  \/ Terminated

(* Every step of start(), the scan and end() is weakly fair.  The locks   *)
(* are parking_lot mutexes, which are eventually fair (strong fairness);  *)
(* the properties are checked under the weaker assumption, so they hold   *)
(* under the stronger one.  Mutators poll at least once per bounded      *)
(* amount of work (spec.md section 5), so a mutator in its code           *)
(* eventually polls; opening a scope and parking are the embedder's       *)
(* choice and are not fair.                                               *)
Fairness ==
  /\ \A t \in Threads : WF_vars(Protocol(t))
  /\ \A m \in Mutators :
       WF_vars(Restore(m) \/ PollSafe(m) \/ PollCheck(m) \/ PollWait(m)
               \/ PollUnsafe(m))

Spec == Init /\ [][Next]_vars /\ Fairness

-----------------------------------------------------------------------------
(* Properties.                                                             *)

Pcs == {"user", "idle", "start_lock", "start_cas", "start_unlock_fail",
        "start_wait_gc", "start_enable", "start_unlock", "scan_lock", "scan",
        "stw", "end_disable", "end_store", "end_unlock", "restore",
        "poll_check", "poll_wait", "poll_unsafe", "parked", "panicked"}

TypeOK ==
  /\ gc_running \in {0, 1}
  /\ safepoint_enable_cnt \in 0..255
  /\ safepoint_lock \in Threads \cup {None}
  /\ global_lock \in Threads \cup {None}
  /\ state \in [Mutators -> ThreadStates]
  /\ old_state \in [Mutators -> ThreadStates]
  /\ scan \in [Threads -> 1..Len(MutatorList) + 1]
  /\ scopes \in [Threads -> 0..MaxScopes]
  /\ pc \in [Threads -> Pcs]

\* The pcs of a thread whose compare_exchange on gc_running succeeded and
\* that has not yet stored 0 back in end().
OwnerPcs == {"start_enable", "start_unlock", "scan_lock", "scan", "stw",
             "end_disable", "end_store"}

Owner == IF \E t \in Threads : pc[t] \in OwnerPcs
           THEN CHOOSE t \in Threads : pc[t] \in OwnerPcs
           ELSE None

(* The protocol implements the abstract collection lock: gc_running is 1  *)
(* exactly while one thread owns the collection, and ownership passes     *)
(* only through "nobody" (start's CAS 0 -> 1, end's store of 0).          *)
Abstract == INSTANCE SafepointAbstract WITH owner <- Owner
Refines == Abstract!Spec

(* safepoint_enable_cnt, a non-atomic u8 changed only under                *)
(* safepoint_lock by enable() and disable(), is non-zero only while        *)
(* gc_running is 1 (spec.md 4.5 invariant), and never exceeds one.         *)
EnableCntConsistent ==
  /\ safepoint_enable_cnt <= 1
  /\ safepoint_enable_cnt > 0 => gc_running = 1

(* Every thread whose start() won the CAS eventually sees every mutator    *)
(* safe and returns its scope: the world stop completes (needs mutators to *)
(* poll and the scan's spin to observe their safe states).                 *)
CollectionReachesStw ==
  \A t \in Threads : pc[t] = "start_enable" ~> pc[t] = "stw"

(* A thread spinning in wait_gc, in a poll or after losing start()'s CAS,  *)
(* eventually returns: every collection ends and releases the waiters.    *)
WaitersResume ==
  \A t \in Threads : pc[t] \in {"poll_wait", "start_wait_gc"}
                       ~> pc[t] \notin {"poll_wait", "start_wait_gc"}

(* A mutator back in its own code is Unsafe, however its scopes ended:   *)
(* SafepointScope::new saves the state before publishing Waiting, and both *)
(* the failed start() and drop (after end()) restore it.  A mutator left  *)
(* Waiting would be counted safe by every later scan while it mutates.    *)
UserCodeIsUnsafe ==
  \A m \in Mutators : pc[m] = "user" => state[m] = Unsafe

(* spec.md 7: contention is recovered locally and no error crosses the    *)
(* mutator/collector boundary: new_no_mutator's assert never fires.       *)
NoMutatorScopeNeverPanics ==
  \A d \in Drivers : pc[d] # "panicked"

(* spec.md 4.5 purpose: between the moment a collection has stopped the   *)
(* world and its end, every registered mutator is in a safe state.        *)
WorldStoppedWhileCollecting ==
  (\E t \in Threads : pc[t] = "stw") =>
    \A m \in Mutators : SafeForSafepoint(state[m])

=============================================================================

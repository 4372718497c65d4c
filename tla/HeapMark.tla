-------------------------------- MODULE HeapMark --------------------------------
(***************************************************************************)
(* Concurrent marking through the HeapBitmap of crates/comet/src/bitmap.rs: *)
(* HeapBitmap::atomic_test_and_set routes the object to the first space    *)
(* bitmap that claims it and runs SpaceBitmap::atomic_test_and_set there:  *)
(* load the word (Relaxed), return true if the bit is set, otherwise try   *)
(* compare_exchange_weak(old, old | mask) and go back to the load when it  *)
(* fails, also spuriously.  An object no space claims takes the precise    *)
(* path and returns false.  Before marking starts the heap is set up with  *)
(* add_continuous_space (&mut self, so never during a call) and the plain  *)
(* set and clear of HeapBitmap.tla.                                         *)
(***************************************************************************)
EXTENDS Naturals, FiniteSets

CONSTANTS
  W, SpaceList, Precise, None,
  Threads,         \* marking threads
  Target,          \* Target[t]: the object thread t marks
  WeakCasMayFail,  \* compare_exchange_weak may fail spuriously
  SetupObjects     \* objects the set-up sets or clears

VARIABLES
  nspaces, bits,   \* the HeapBitmap, as in HeapBitmap.tla
  pc,              \* "idle", "load", "cas" or "done"
  old,             \* old_word as last loaded by the thread
  result           \* the value atomic_test_and_set returned

H == INSTANCE HeapBitmap

ASSUME /\ Target \in [Threads -> H!Objects] /\ WeakCasMayFail \in BOOLEAN
       /\ SetupObjects \subseteq H!Objects

vars == <<nspaces, bits, pc, old, result>>
marking == <<pc, old, result>>

\* The bitmap word of the object's space, and its bit.
Word(i, a) == bits[i][H!Index(i, a)]

Init == /\ H!Init
        /\ pc = [t \in Threads |-> "idle"]
        /\ old = [t \in Threads |-> {}]
        /\ result = [t \in Threads |-> FALSE]

\* Heap set-up before the marking threads run.
Setup ==
  /\ \A t \in Threads : pc[t] = "idle"
  /\ \/ H!AddContinuousSpace
     \/ \E a \in SetupObjects : H!Set(a) \/ H!Clear(a)
  /\ UNCHANGED marking

-----------------------------------------------------------------------------
\* atomic_test_and_set(obj) entered, or its loop back to the load: without
\* a claiming space return false; otherwise old_word = load(Relaxed), and
\* return true when old_word & mask != 0.
Load(t) ==
  LET a == Target[t]
      i == H!GetContinuousSpaceBitmap(a)
  IN /\ pc[t] \in {"idle", "load"}
     /\ IF i = None
          THEN /\ pc' = [pc EXCEPT ![t] = "done"]
               /\ result' = [result EXCEPT ![t] = FALSE]
               /\ UNCHANGED old
          ELSE /\ old' = [old EXCEPT ![t] = Word(i, a)]
               /\ IF H!Bit(i, a) \in Word(i, a)
                    THEN /\ pc' = [pc EXCEPT ![t] = "done"]
                         /\ result' = [result EXCEPT ![t] = TRUE]
                    ELSE /\ pc' = [pc EXCEPT ![t] = "cas"]
                         /\ UNCHANGED result
     /\ UNCHANGED <<nspaces, bits>>

\* Mutant: the exchange stores old | mask without comparing.
CasBlind(t) ==
  LET a == Target[t]
      i == H!GetContinuousSpaceBitmap(a)
  IN /\ pc[t] = "cas"
     /\ bits' = [bits EXCEPT ![i][H!Index(i, a)] = old[t] \cup {H!Bit(i, a)}]
     /\ pc' = [pc EXCEPT ![t] = "done"]
     /\ result' = [result EXCEPT ![t] = FALSE]
     /\ UNCHANGED <<nspaces, old>>

\* Mutant: the load is hoisted out of the loop, so a failed exchange is
\* retried with the old_word of the first load.
CasNoReload(t) ==
  LET a == Target[t]
      i == H!GetContinuousSpaceBitmap(a)
  IN /\ pc[t] = "cas"
     /\ \/ /\ Word(i, a) = old[t]
           /\ bits' = [bits EXCEPT ![i][H!Index(i, a)] = @ \cup {H!Bit(i, a)}]
           /\ pc' = [pc EXCEPT ![t] = "done"]
           /\ result' = [result EXCEPT ![t] = FALSE]
        \/ /\ Word(i, a) # old[t] \/ WeakCasMayFail
           /\ UNCHANGED <<pc, bits, result>>
     /\ UNCHANGED <<nspaces, old>>

\* Mutant: a won exchange returns true, as if the object had been marked.
CasWinReportsMarked(t) ==
  LET a == Target[t]
      i == H!GetContinuousSpaceBitmap(a)
  IN /\ pc[t] = "cas"
     /\ \/ /\ Word(i, a) = old[t]
           /\ bits' = [bits EXCEPT ![i][H!Index(i, a)] = @ \cup {H!Bit(i, a)}]
           /\ pc' = [pc EXCEPT ![t] = "done"]
           /\ result' = [result EXCEPT ![t] = TRUE]
        \/ /\ Word(i, a) # old[t] \/ WeakCasMayFail
           /\ pc' = [pc EXCEPT ![t] = "load"]
           /\ UNCHANGED <<bits, result>>
     /\ UNCHANGED <<nspaces, old>>

\* compare_exchange_weak(old_word, old_word | mask): success returns false;
\* a failure, real or spurious, loops back to the load.
Cas(t) ==
  LET a == Target[t]
      i == H!GetContinuousSpaceBitmap(a)
  IN /\ pc[t] = "cas"
     /\ \/ /\ Word(i, a) = old[t]
           /\ bits' = [bits EXCEPT ![i][H!Index(i, a)] = @ \cup {H!Bit(i, a)}]
           /\ pc' = [pc EXCEPT ![t] = "done"]
           /\ result' = [result EXCEPT ![t] = FALSE]
        \/ /\ Word(i, a) # old[t] \/ WeakCasMayFail
           /\ pc' = [pc EXCEPT ![t] = "load"]
           /\ UNCHANGED <<bits, result>>
     /\ UNCHANGED <<nspaces, old>>

\* Every marking thread has returned.
Done == /\ \A t \in Threads : pc[t] = "done"
        /\ UNCHANGED vars

Next == Setup \/ (\E t \in Threads : Load(t) \/ Cas(t)) \/ Done

Spec == Init /\ [][Next]_vars

\* The exchange of thread t succeeds.
CasWins(t) == Cas(t) /\ pc'[t] = "done"

\* Each marking thread is an OS thread that keeps running its loop (weak
\* fairness).  compare_exchange_weak may fail spuriously, but not forever
\* while the word stays unchanged: a success that is enabled again and
\* again is eventually taken (strong fairness).
FairSpec ==
  /\ Spec
  /\ \A t \in Threads : WF_vars(Load(t) \/ Cas(t)) /\ SF_vars(CasWins(t))

-----------------------------------------------------------------------------
TypeOK == /\ H!TypeOK
          /\ pc \in [Threads -> {"idle", "load", "cas", "done"}]
          /\ result \in [Threads -> BOOLEAN]

\* spec.md 3.4 and 4.4: every heap operation reaches the bitmap of the
\* space the object lies in (HeapBitmap::get_continuous_space_bitmap).
RoutesToOwner == H!RoutesToOwner

\* spec.md 8.2 and S6: of the threads that mark the same object of a space,
\* at most one returns false (it set the bit), and once one has returned the
\* object's bit is set in its space's bitmap: no mark is lost to another
\* thread's exchange on the same word, whatever bit that thread marks.
OneWinnerPerObject ==
  \A a \in {Target[t] : t \in Threads} :
    LET finished == {t \in Threads : Target[t] = a /\ pc[t] = "done"}
        winners == {t \in finished : ~result[t]}
    IN H!Owner(a) # None =>
         /\ Cardinality(winners) <= 1
         /\ finished # {} => H!HeapTest(a)

\* atomic_test_and_set is linearizable: every call takes effect at one step
\* (the load that finds the bit set, the exchange that sets it, or the
\* precise path) as the atomic test-and-set of MarkAbstract, and no step of
\* a call, failed exchanges included, changes the marks of other objects.
Abstract == INSTANCE MarkAbstract WITH
  Objects <- H!Objects,
  claimed <- {a \in H!Objects : H!GetContinuousSpaceBitmap(a) # None},
  marked  <- {a \in H!Objects : H!HeapTest(a)},
  pc      <- [t \in Threads |-> IF pc[t] = "done" THEN "done" ELSE "idle"]

Linearizable == Abstract!Spec

\* Marking terminates: every thread's atomic_test_and_set returns, whatever
\* exchanges of other threads on the same word make its CAS fail, because
\* each retry loads the word afresh and the other threads set their bits
\* only once.
MarkingTerminates == <>[](\A t \in Threads : pc[t] = "done")

=============================================================================

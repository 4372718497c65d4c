# TLA+ models of comet

This directory holds TLA+ models of the comet garbage-collector runtime. It has:

- the models themselves;
- the TLC configurations that check them;
- `PROJECT.json`, the manifest of components, runs, mutants, source map, findings and hazards.

Every definition listed in the manifest's `map` is translated from the lines it names. The exceptions are marked `spec_modelled`:

- `mutator.rs`, which is not among the sources;
- `HeapObjectHeader::set_color`, which is not among the sources either;
- the collector's sweep callback.

All three are modelled from `spec.md`.

Run a check with `tlc -workers 2 -config <cfg> <MC module>` inside this directory.

## The system and how its parts interact

comet is a Rust GC runtime. Its parts, and the modules that model them:

| Part | Source | Module(s) |
|---|---|---|
| Stop-the-world rendezvous: `GlobalSafepoint` (`start`, `end`, `wait_gc`) and `SafepointScope` (`new`, `new_no_mutator`, `drop`) | `crates/comet/src/safepoint.rs` | `Safepoint`, abstract spec `SafepointAbstract` |
| Mutator side: `poll_safepoint`, the thread-state atom, parking | `mutator.rs` (not in sources; from spec.md 4.5) | inside `Safepoint` |
| Mark/live bitmaps: `SpaceBitmap` | `bitmap.rs` 25–470 | `SpaceBitmap` |
| Sweeping: `sweep_walk`, `sweep_walk_color` | `bitmap.rs` 471–586 | `Sweep`, `SweepColor` |
| Object-start bitmap for interior pointers: `ObjectStartBitmap` | `bitmap.rs` 682–776 | `ObjectStartBitmap` |
| Routing over several spaces: `HeapBitmap`, and concurrent marking through `atomic_test_and_set` | `bitmap.rs` 606–680, 108–140 | `HeapBitmap`, composed with marking threads in `HeapMark`, abstract spec `MarkAbstract` |
| Object header bitfields: `HeapObjectHeader`, `BitFieldTrait` | `src/api.rs` 29–108, `utils.rs` 15–77 | `Header` |
| Precise roots: `ShadowStack`, `letroot!`, writes through `Rooted` | `src/api.rs` 277–416, 583–613 | `ShadowStack` |
| Finalization and allocation with init: `GcBase::execute_finalizers`, `allocate_and_init` | `src/base.rs` 18–48 | `Finalizers`, composed with `ShadowStack` in `GcBase` |
| Sizing and alignment: `round_up`, `compute_bitmap_size`, `set_heap_size`, LineMarkTable's `BITMAP_SIZE`, `utils.rs` helpers | `bitmap.rs` 11–98, 279–286, 790–1182; `utils.rs` 1–13, 110–143 | `Align` |

How the parts work together:

- A collection starts with a safepoint.
  - A thread's `start()` wins `gc_running` by CAS.
  - The winner scans every registered mutator until each one is safe.
  - Mutators poll at safe points and wait in `wait_gc` while a collection runs.
- During the collection, markers set bits in the mark bitmap, concurrently through `atomic_test_and_set`. `HeapBitmap` routes each object to the bitmap of its space.
- Sweeping walks live and mark bitmaps, or the object colours, and hands batches of garbage to a callback that frees them.
  - `Sweep` holds the walk of `sweep_walk` and the word loop both walks share, as pure operators.
  - `SweepColor` is the state machine: an allocator, a tracer that colours objects, `sweep_walk_color` and the freeing callback. The objects left in `from_color` also serve as the mark bitmap for `sweep_walk`.
- `find_header` on either bitmap maps interior pointers to object starts.
- Headers carry size, vtable, forwarding and mark bits.
- The shadow stack supplies the roots. Code that runs inside the runtime (a finalizer, an `allocate_and_init` closure) roots its locals on the same shadow stack, so a panic inside it must leave the stack as it found it.
- Finalizers run after a collection.
- Bitmaps are sized from the heap capacity by `compute_bitmap_size` (and `BITMAP_SIZE` for LineMarkTable). `has_address` must then admit exactly the heap.

## The modules

### Safepoint

The model has per-thread program counters and one action per step that another thread can observe:

- `StartLock`, `StartCas`, `StartUnlockFail`, `StartWaitGc`, `StartEnable`, `StartUnlock`;
- the scan loop: `ScanLock`, `ScanMutator`, `ScanUnlock`;
- `end()`: `EndLock`, `EndDisable`, `EndStore`, `EndUnlock`;
- the scope constructors `NewScope` and `NewNoMutator`, and `Restore`, the mutator's `state_set` after `end()` or after a failed start;
- the poll: `PollSafe`, `PollCheck`, `PollWait`, `PollUnsafe`, then `Park`.

Notes on the modelling:

- `WeakCasMayFail` lets `compare_exchange_weak` fail spuriously.
- The enable counter is a u8 (`% 256`).
- Refinement: `SafepointAbstract` is a collection lock (`owner`). `Safepoint` implements it under the mapping `owner <- Owner`, where `Owner` is the thread between a successful CAS and the store of 0 in `end()`.
- Fairness:
  - Each thread's protocol steps are weakly fair. The thread is running code that spins or takes a `parking_lot` lock, and checking under weak fairness is sound for the stronger guarantee those locks give.
  - Polling and `Restore` are weakly fair, because spec.md section 5 requires mutators to poll within bounded work.
  - Opening scopes and parking are the embedder's choice and are not fair.

### SpaceBitmap

- A word is the set of its set bit positions, and the bitmap is `[0..NWords-1 -> SUBSET 0..W-1]`.
- Masks `(1 << k) - 1` become `0..k-1`.
- The `trailing_zeros` loops become ascending sequences.
- Actions are `Set`, `Clear`, `SetSync` (`set_sync`, through `modify_sync`, which returns early when the bit is already set), `ClearAll` and `ClearRange`.
- The query operators are state functions checked in every reachable state:
  - `VisitMarkedRange`;
  - `ClearRangeResult`, with `ClearLeft` and `ClearRight` for its two loops;
  - `FindHeader`, with `ScanBack` for the backward scan.
- Overflow follows the build, selected by `OverflowChecks`:
  - A debug build's panic is the model value `Panic`.
  - A release build masks shift amounts (a shift by W becomes a shift by 0) and wraps subtraction, and a wild result is `Wild`.
- A read one word past the bitmap returns all ones. That memory's content is unknown, so the model uses the worst case.

### Sweep and SweepColor

- `WalkWords` is the recursive form of the loop over the words. It models:
  - the per-word batching;
  - the flush when the fill reaches `pointer_end = buffer_size - W`, checked only inside the `garbage != 0` test of the word;
  - the final flush.
- In `sweep_walk` that test is on `live & !mark`. In `sweep_walk_color` it is on the live word (bitmap.rs:496/514), so a live word whose objects all pass `set_color` can still trigger a flush, and the callback can be called with a count of 0. `WalkWords` takes the word of the test as its own argument for this.
- A `SweepColor` step computes the batches and frees every reported object, which is what the callback does.
- `SweepColor` adds object colours:
  - `set_color(from, to)` fails for colours other than `from`;
  - a tracer action `Paint` recolours objects;
  - `buffer_size` is an input.

### ObjectStartBitmap

Byte cells, with `set_bit`, `clear_bit` and `clear` as actions and `find_header` as an operator. `allocation_size` gives the cell count.

### HeapBitmap and HeapMark

- `HeapBitmap` is a list of `(begin, capacity)` spaces added in order by `AddContinuousSpace`, each with its own word-set bitmap.
- `Modify` routes an object to the first space whose `has_address` holds. Objects of no space are "precise" and fall through.
- `has_address` is translated with its wrapping subtraction and word granularity.
- `HeapMark` composes `HeapBitmap` (`H == INSTANCE HeapBitmap`, sharing its variables) with marking threads that call `HeapBitmap::atomic_test_and_set`:
  - `Setup` is the heap's set-up (adding spaces, plain `set` and `clear`), allowed only while no marking thread has started, since `add_continuous_space` takes `&mut self`;
  - `Load` is the routing, the relaxed load and the early return, or the precise path's `false`;
  - `Cas` is `compare_exchange_weak`; on failure, real or spurious, the thread goes back to `Load`.
- `SetupObjects` limits the objects the set-up may set or clear, which keeps the liveness check within a few minutes.
- `MarkAbstract` is what the call promises: one atomic test-and-set on the set of marked objects, with a precise object left alone and answered `false`. `HeapMark` maps to it as follows:
  - `claimed` is the set of objects some space's `has_address` holds for;
  - `marked` is the claimed objects whose bit is set;
  - a thread is `done` in the abstract spec once its call has returned.
  The linearization point is the early return of `Load` or a successful `Cas`.
- `FairSpec` adds the fairness the code justifies:
  - each thread's steps are weakly fair, since marking threads are OS threads that keep running;
  - a successful `Cas` is strongly fair, since `compare_exchange_weak` may fail spuriously, but not forever while the word is unchanged.

### Header

- The u64 `value` and the u32 `padding` are sets of bit positions.
- Fields are the code's `<shift, size>` pairs.
- `encode`, `update` and `decode` are translated bit for bit, including the fact that `encode` does not mask its value.
- The accessors and setters of `HeapObjectHeader` are operators and actions.
- `Init` starts with a zero value and any combination of colour and mark padding bits.
- Only the forwarding round trip is checked, in a violation run; the field overlaps around it are hazards.

### ShadowStack

- Entries occupy stack slots `1..MaxDepth`, and slot 0 is null.
- `Letroot` pushes an entry whose prev is the current head and makes it the head.
- `Drop` restores the innermost entry's prev.
- Stale slots keep their contents, as the Rust stack does.

### Finalizers

- The lock, the loop index and per-handler counts, and `pc`: idle, in the loop, or inside a finalizer.
- `FinalizeEnter` starts the finalizer of the current handler.
- The finalizer may then return (`FinalizeReturn`), panic into `catch_unwind` (`FinalizePanic`), or re-enter `execute_finalizers` (`FinalizeReenter`), which finds the lock held and returns.

### GcBase

- `GcBase` composes `Finalizers` and `ShadowStack` by named instances over shared variables. It models one thread.
- `frames` is a stack with one entry for each running finalizer or `allocate_and_init` closure. Each entry is the shadow-stack depth at the frame's start, and the running code may only drop its own locals.
- `Root` and `Unroot` are `letroot!` and the drop of a local in whatever code runs. They run at top level, in an init closure or in a finalizer, but not in the loop itself.
- When a finalizer returns or panics, `Unwind` drops its remaining locals innermost first. The net effect is that the head becomes the prev of the frame's first entry.
- `AllocateAndInit` roots the new object and starts `init`. `InitEnd` drops init's locals and then the object's root.
- `WriteRoot` is a write through `Rooted`'s `DerefMut` (also what `handle_mut().write` and `init(&mut value)` reach). It overwrites the value of a pinned entry in place. `Writable` is the set of entries the running code can reach: a finalizer reaches only its own locals, while top-level code and an init closure reach every entry in scope.

### Align

- A stateless module of integer helpers. Each action is one call on inputs from small sets, and `call` records the call and its result.
- Words are Wd-bit integers combined with `Bitwise`'s `&`. `wrapping_*` is `% 2^Wd`, and `!x` is `2^Wd - 1 - x`.
- A shift that overflows is `Panic` in a debug build and is masked in a release build.
- LineMarkTable's constant, its storage length and its `offset_to_index` are separate definitions, as they are in the macro.

## Runs

Each run is listed in `PROJECT.json`. The passing runs are:

- **safepoint** (`MCSafepoint.cfg`): `TypeOK`, `EnableCntConsistent`, `UserCodeIsUnsafe`, `Refines`, `CollectionReachesStw`, `WaitersResume`. Two mutators and a driver, two scopes each, with spurious CAS failure; about 66k states.
  - The protocol implements the collection lock of `SafepointAbstract`.
  - The u8 counter stays at 0 or 1 and is nonzero only while `gc_running` is 1.
  - Every won `start()` reaches the stopped world, and every waiter resumes.
  - A mutator back in its own code is `Unsafe`, whether its scope's `start()` failed or the scope was dropped. So no later scan counts it as safe while it mutates. This holds because `SafepointScope::new` saves the state before it publishes `Waiting`.
- **space_bitmap**: `TypeOK`, `VisitMarkedRangeExact`, `ClearRangeEdges`, `FindHeaderSound`.
  - Checked over all 4096 bitmaps of 3 words of 4 bits, and for every pair of aligned bounds.
  - The visited set equals the marked slots of the range.
  - `clear_range` clears exactly its partial edge words and leaves the middle words alone (what the code does; spec.md 4.2 says the whole range).
  - `find_header` returns a marked start at or below the address when one exists.
- **sweep_color** (`MCSweepColor.cfg`): `SweepWalkExact`, `SweepColorExact`, `BatchesFitBuffer`, for buffer sizes W, W+1 and the default; 65536 states.
  - For word-aligned ranges, the batches of `sweep_walk`, flattened, are exactly the live-and-unmarked objects in ascending order. The marks are the objects in `from_color`, which ranges over every mark bitmap. `WordBytes = 2` scales the buffer so that mid-walk flushes happen with W = 4.
  - `sweep_walk_color` reports the same objects and moves every other live object of the range to `to_color`.
  - No batch is longer than its buffer.
- **heap_mark**: `TypeOK`, `RoutesToOwner`, `OneWinnerPerObject`, `Linearizable`, `MarkingTerminates`, under `FairSpec`. The instance has:
  - two spaces with whole-word capacities, the space at 256 added first and the one at 64 second, and one precise object at 208;
  - five threads: t1 and t2 on the object at 64, t3 and t5 on 80 and 112 in the same bitmap word, and t4 on the precise object at 208. No thread marks in the space at 256; its objects take part only through the set-up;
  - spurious CAS failure allowed;
  - about 17k states.

  The run shows the following. Every object is routed to its own space. At most one thread per object returns false, and once one has returned, the bit is set. Every execution of the CAS loop refines the atomic `MarkAbstract`. Every thread's call eventually returns.
- **object_start_bitmap**: `TypeOK`, `FindHeaderSound`, over all 65536 bitmaps of 2 cells.
- **gc_base** (`MCGcBase.cfg`): `WalkSeesRootsInScope`, `LockReleasedWhenIdle`, `NoHandlerTwiceInOneCall`. Three handlers, up to 6 `execute_finalizers` calls, a shadow stack of depth 4 and 2 values; about 18k states.
  - The collector's walk sees exactly the locals in scope, also after a finalizer panicked with locals rooted, after a nested call, and after `allocate_and_init` returned.
  - The lock is free whenever no call is running.
  - A re-entrant call never runs a handler a second time within one call.
- **align** (`MCAlign.cfg`): `TypeOK`, `RoundUpIsLeastMultiple`, `BitmapCoversCapacity`, `AlignHelpersExact`, `PowerOfTwoRounding`, `SetHeapSizeExact`, `LineTableInBounds`. Every argument of an 8-bit word, with u32 as 8 bits, ALIGN 2, LINE_ALIGN 4 and CAPACITY 100, in a release build; about 11k states.
  - `round_up` is the least multiple, modulo the word.
  - A bitmap of `compute_bitmap_size(c)` bytes has `has_address` exactly for the capacity rounded up to whole words.
  - `align_down` and `is_aligned` are exact, and so is `align_usize` wherever `value + align - 1` fits in the word.
  - The power-of-two helpers agree with their definitions up to 2^(U32-1).
  - `set_heap_size` panics exactly for sizes that are not whole words, and otherwise covers exactly the bytes asked for.
  - A LineMarkTable over at most `CAPACITY` bytes indexes only words of its storage.

Every property of a passing run has a mutant in `PROJECT.json`. The mutant is a plausible bug in the mapped code, such as a dropped guard, a wrong bit, a missing store or an unchecked CAS, and TLC finds the property violated under it.

### Violation runs and what they show

Each violation run is a finding in `PROJECT.json`:

| Run | Property | What the code does |
|---|---|---|
| safepoint_driver_panic | NoMutatorScopeNeverPanics | `new_no_mutator` asserts `start()`, so it panics when a mutator's collection wins |
| safepoint_stw_race | WorldStoppedWhileCollecting | a mutator counted Safe turns Unsafe during the collection (the poll reads `gc_running` before the CAS) |
| space_bitmap_find_header | FindHeaderIsNearestStart | the mask shifts by W for the last bit of a word |
| header_forward | ForwardRoundTrip | the forwarded bit lies inside the vtable field |
| align_usize_wrap (`MCAlignUsizeWrap.cfg`) | AlignUsizeRoundsUp | its doc comment says it rounds up; `wrapping_add` makes `align_usize(254, 3)` 0 on 8-bit words. Nothing in the sources calls it yet |

### Issues recorded as hazards

Other disagreements met while modelling are hazards in `PROJECT.json`, each with a note:

- `start()` can return false with nobody collecting (weak CAS, no retry).
- `clear_range` never clears the whole words in the middle.
- `find_header` scales by `MIN_ALLOCATION`, which is wrong for ALIGN ≠ 16.
- `ObjectStartBitmap::find_header` has the same mask shift, by 8 on a u8.
- `sweep_walk` reports garbage outside an unaligned range.
- `buffer_size - W` underflows for a buffer shorter than a word.
- Word-granular `has_address` lets a space claim its neighbour's objects when its capacity is not a whole word.
- The size and vtable fields overlap, and `set_vtable` clears the size.
- `set_marked_bit` writes bit 48 of a u32, which is a no-op.
- Finalizer handlers are never removed, so a second call drops again.
- `align_up` subtracts where it should add, so it returns an address below its argument. No code in the sources calls it.
- `round_up_to_power_of_two32` shifts by 32 above 2^31. That panics in a debug build and returns 1 in a release build.
- `LineMarkTable::create` ignores `heap_capacity`, and its `atomic_test_and_set` bounds check is only a `debug_assert!`.

## Bounds and why they suffice

- **Word width.** Bitmap words are W = 4 bits. Every code path depends on W only through:
  - a bit being the first, a middle or the last bit of its word;
  - a range starting or ending inside a word or at a word boundary;
  - one, two or three words.

  Three words of 4 bits cover all of these. The overflow at the last bit is reached.
- **Sweep buffer.** The default buffer size is `size_of::<usize>() * W`, which is 8·64 in the code. Keeping the factor 8 with W = 4 would never flush mid-walk, so `WordBytes = 2` keeps the same flush rule `fill >= buffer_size - W` with a buffer of two words.
- **ObjectStartBitmap guard.** Its guard of 4096 bytes in `allocation_size` is a constant, `GuardBytes`. Scaled to 0, the model has 2 cells of 8 slots, so the last-bit case and a scan back across cells both occur.
- **Safepoint.** Two mutators, one driver and two scopes each give competing starts, a driver losing to a mutator, and scans that see Waiting, Safe and Unsafe mutators. Larger instances are out of reach of the five-minute budget:
  - three mutators with two scopes each did not finish in 15 minutes;
  - three mutators with one scope each took 2m47 for 216k states without coverage.

  The safepoint test `stop_running_threads` has ten mutators, but each one only polls. Two mutators are enough for a scope to race a poll and another scope. No symmetry set is used, because the scan visits mutators in list order, and because the run checks temporal properties.
- **Align.** With 8-bit words, every argument is enumerated. Each wrap-around case occurs: `round_up` reaching 2^Wd, `align_usize` past the top, and the shift by the full width. It is the same arithmetic as for 64 bits, scaled, since the code depends on the width only through `2^Wd` and `size_of`.
- **GcBase.** With depth 4, top-level code can hold roots when it calls in, and a finalizer or init closure can still root two or more locals of its own above them. Six calls allow a nested call from inside a finalizer, then later calls after a panic.
- **HeapMark.** Two threads on one object give the race for the same bit; a third on a neighbouring bit of the same word makes a CAS fail for a reason other than that bit; the fourth marks in the other space and the fifth takes the precise path. Spurious failure gives the retry loop, and strong fairness bounds it.

## Not modelled

- **LineMarkTable (`gen_const_bitmap!`) bit operations.** A diff against `SpaceBitmap` shows they are a line-for-line copy of the SpaceBitmap operations over inline storage, so the SpaceBitmap results apply to them. Only its sizing is modelled, in `Align`. Its own issue, a self-pointer set by `init_bitmap`, is a hazard without a model.
- **Field, Gc, Handle wrappers.** Apart from the write through `Rooted`'s `DerefMut` (`WriteRoot` in `GcBase`), they are reads and pointer casts that change no state.
- **`FormattedSize`.** It is output formatting.
- **`GcBase::allocate`, `collect` and the other trait methods.** They have no implementation in the sources.
- **Tests and examples.** `alloc_mt.rs` drives a heap implementation (minimark) that is not in the sources. The safepoint test `stop_running_threads` has the shape of the `MCSafepoint` instance.
- **Mutator registration.** It lives in `mutator.rs`, outside the sources. The model has a fixed list of mutators, so the deadlock between the global lock and a registering mutator is not modelled.
- **`modify` against concurrent `atomic_test_and_set`.** The non-atomic `modify` racing a concurrent `atomic_test_and_set` is listed as a hazard. Which collector phase uses which variant is outside the sources.

## Where the models stop

The code that would need to be modelled next is not in the sources. Each remaining item needs a caller that decides how the code is used:

- **The non-atomic `set` racing concurrent marking.** spec.md 5 restricts the plain `set` to single-writer phases. Which phase calls `set` and which calls `atomic_test_and_set` is decided by the collector, which is not in the sources. `HeapMark` therefore confines `set` and `clear` to the set-up.
- **LineMarkTable's `create`/`init_bitmap` sequence.** `bitmap_begin` is null until `init_bitmap`, and becomes stale after a move. Whether a table is moved after `init_bitmap` depends on its owner, and no code in the sources owns one.
- **`GcBase` composed with a collection.** `collect` has no implementation in the sources. `WalkSeesRootsInScope` is an invariant, so the shadow-stack walk is already checked in every state of a running finalizer, which covers every point where a collection could walk the stack.

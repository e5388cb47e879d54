# TLA+ models of the gf containers

This directory holds TLA+ models of the containers in
`src/g/container/garray` and of the Redis pool registry in
`src/g/database/gredis`, checked with TLC. It also lists the other parts of
the repository and the plan for modelling them.

## The system and its parts

| Part | Source | Status |
|---|---|---|
| Dual-mode lock | `internal/rwmutex` (not in `src/`; spec §4.1) | modelled from the spec (`RWMutex`) |
| Sorted container | `garray/garray_sorted_string.go` | partly (`SortedStringArray`) |
| Ordered sequence container | `garray/garray_normal_int.go` | partly (`IntArray` on `GoSlices`, refining `SeqContainer`) |
| Cross-variant `Merge` | both garray files | partly (same-type sources, in `IntArray` and `SortedStringArray`) |
| Redis pool registry | `database/gredis/gredis.go` | partly (`Gredis`) |
| gjson accessors, cache-item expiry | `os/gcache/gcache_mem_cache_item.go` | not modelled |
| gcfg `errorPrint`, gmap alias, reuseport, ghttp websocket constants, gaes tests | various | not modelled (no state, pure I/O, or test vectors) |

### How the parts interact

Every garray container embeds a dual-mode lock, fixed when the container is
created.
- **Safe mode** uses a `sync.RWMutex`. Every mutating method runs under `Lock`.
  Every read runs under `RLock`.
- **Unsafe mode** turns all four lock methods into no-ops.

The containers share nothing but the lock pattern. `Merge` is the exception:
it reads the source container under the source's lock, then writes the target
under the target's lock.

Several methods are not one critical section:
- `PopRand` reads `len(a.array)` before its `Remove` takes the lock.
- `Search` tests for emptiness before `binSearch` takes the read lock.
- `SetUnique` reads the flag, writes it, and then calls `Unique`. Each of these
  is a separate atomic step.

`gredis.New` keys a process-wide pool map by the formatted config, after
filling in default timeouts. Two `Redis` objects whose configs are equal
after that step share one pool. `gredis.Instance` caches one object per
configuration group in a second process-wide map. `Close` removes the
object's group entry, then its pool key, and then closes its pool. Each of
these three calls takes a different lock.

## Modules

### `RWMutex`

The lock state is `mu = [writer, readers]`. `Lock`, `Unlock`, `RLock` and
`RUnlock` are action fragments that callers conjoin with their own updates.
- With `Safe = TRUE` they block and record the holder.
- With `Safe = FALSE` they leave `mu` unchanged.

The real package is outside `src/`, so these definitions are marked
`spec_modelled` in `PROJECT.json`.

### `SortedStringArray`

This module models `SortedStringArray` called by a set of goroutines
`Threads`.

**Data abstraction.** Strings become naturals, and `strings.Compare` becomes
`<`. Only the order of strings matters to any method, so this keeps every
behaviour.

**State:**
- `array`, `unique` and `mu`: the struct's fields.
- `pc`, `call`, `idx`, `oldUnique` and `ret`: each goroutine's place in a call
  and its locals.
- `rcall`: the read call a goroutine is in. Reads use the call records of
  `SeqContainer` (`[op, i, j, v, vs, opt]`).

**One step per critical section.**
- `Begin(t, c)` takes the lock of the exclusive-lock methods `Add`, `Remove`,
  `PopLeft`, `PopRight`, `PopLefts`, `PopRights`, `PopRands`, `Clear`, `Sort`,
  `SetArray`, `Unique`, `LockFunc` and `Merge` from a `[]string` (which is an
  `Add`).
- `Finish(t)` applies the whole body and the deferred `Unlock`.
- `Add`'s loop is the exception: `AddValue(t)` inserts one value per step,
  reading `unique` anew each time, because the code calls
  `a.unique.Val()` per value (line 98) and `SetUnique` writes the flag
  without `a.mu`. `Finish` unlocks once no value is left.
- A body that indexes out of range goes to `Panic(t)` instead.
  - If the method defers its `Unlock`, the lock is released.
  - `Unique` does not defer it, so a panic there leaves the lock held.
  - The goroutine ends in `pc = "dead"`.
- `ReadBegin(t, c)` takes the read lock for `Get`, `Len`, `Sum`, `Range`,
  `SubSlice`, `Slice`, `Clone`, `Chunk`, `Rand`, `Rands`, `CountValues`,
  `Join`, `String` and `RLockFunc`. `Chunk` with a size below 1 returns
  before it locks.
- `ReadFinish(t)` runs the read body and its `RUnlock`. What the body can
  return is `ReadResults(c, array)`. The model does not keep the value, but
  `ReadsMeetContract` checks every value it could be.
- `ReadPanic(t)` is a read that panics: `Range` with a negative effective
  end, or `Rands(0)` on a non-empty array. The deferred `RUnlock` runs.
- Callbacks of `LockFunc` and `RLockFunc` are taken to read the slice only.
  `ReadsMeetContract` checks what `RLockFunc`'s callback sees like any
  other read.

**Methods split where the code releases atomicity.**

| Method | Steps |
|---|---|
| `PopRand` | `PopRand` reads the length unlocked; then `PopRandRemove` |
| `SetUnique` | `SetUnique` reads the flag; `SetUniqueSet` sets it; `SetUniqueUnique` runs the dedup under the lock |
| `Search` | `Search` runs the unlocked empty check; `SearchRLock`; `SearchFinish` |
| `Merge` of the container itself | `MergeSlice` copies it under the read lock; `MergeAdd` runs `Add` under the write lock |

**The bodies are operators named after the code:**
- `AddOne`: one iteration of the insertion loop at lines 96–111.
- `binSearch` and `binLoop`: the binary search.
- `RemoveIndex`, `PopLeftsOf`, `PopRightsOf`, `PopRandsOf`, `uniqueLoop`,
  `sortStrings` and `SetArrayOf`.
- The reads: `GetOf`, `RangeOf`, `SubSliceOf`, `ChunkOf`, `RandOf`, `RandsOf`,
  `CloneOf`, `CountValuesOf`, `JoinLoop` (`Join`'s loop, which writes the
  glue after every element but the last) and `StringOf` (`fmt.Sprint`).
  `Sum` adds the values: `gconv.Int(Text(v))` is `v`.
- `Text(v)` is the string a natural stands for, its one decimal digit
  (`Values` lie in 0..9). `strings.Compare` orders one-digit strings as `<`
  orders the naturals, and `Join` and `String` build real TLA+ strings
  from it.

`Init` is a container from one of the constructors: `NewSortedStringArray()`
(empty), or `NewSortedStringArrayFrom` / `NewSortedStringArrayFromCopy` of a
slice of up to `MaxArgLen` values, sorted (`NewFrom`). Uniqueness is off.
`MergeAdd` waits if its `Add` would pass `MaxLen`. This is a bound of the
model, so runs with liveness properties leave `Merge` out.

### `MC_SortedStringArray`

This module fixes the values (`{1, 2}`), the operation subsets the runs
use, and the read calls:
- `MCReadCalls`: indexes and counts below, at and past the length; negative
  starts and offsets; omitted ends and lengths; `Chunk(0)` and `Chunk(2)`;
  the two panicking reads; `Join` with the glue `","` and with an empty
  glue; and `String`.
- `LiveReadCalls`: a small set for the liveness run.

`SubSlice` is called without a negative length. That divergence from the
contract lies in code identical to `IntArray`'s, and `int_subslice_neg` shows
it.

### `GoSlices`

This module gives the semantics of Go slices that the containers rely on. It
is the language's behaviour, not repository code, so it has no map entries.
- A heap `mem` maps each backing-array id to its cells. A free id maps to `<<>>`.
- A slice is a header `[arr, off, len, cap]`. Zero-capacity slices point at
  `NoArray`.
- `SliceExpr` is `s[lo:hi]`, `Store` is `s[i] = v`, and `StoreSeq` is `copy`.
  `Make` is `make([]int, n)`.
- `GoAppend` writes in place while the capacity suffices. Otherwise it
  allocates with `GrowCap`: double the capacity, or the new length if that is
  larger, rounded up to the runtime's size classes for `[]int`.
- `Collect` is the garbage collector. It frees every array that no live
  header references.

### `SeqContainer`

This is the abstract contract of spec §4.2. It holds one sequence `seq`, the
value `out` returned by the last call, and the call itself in `last`.
- `Outcomes(c, s)` gives, for every method, the set of results the contract
  allows. The random methods (`PopRand`, `PopRands`, `Shuffle`) allow several.
- `Pre` holds the documented preconditions: the index ranges of `Set`,
  `Remove`, `InsertBefore` and `InsertAfter`, non-empty single pops, and
  `Fill` starting within the sequence.
- The constant operator `Format(v)` is the text of one element, as
  `gconv.String` makes it. `JoinSpec(s, glue)` puts the glue between
  neighbouring texts, and `StringSpec` is `"["`, the texts joined by one
  space, and `"]"`. `IntArray` gives `Itoa` (decimal digits) and
  `SortedStringArray` gives `Text`.
- `RLockFunc`'s callback sees the elements. `LockFunc`'s callback copies
  its values over the front of the slice it is handed, the one write a
  callback can make to it.
- `InitFrom(S0)` starts from any sequence in `S0`. This covers the
  constructors that take a caller's sequence.

### `IntArray`

This module models `IntArray` method by method, on the heap of `GoSlices`.
- **State:** `mem` and `array` (the struct's slice header), `held` (the
  slices the caller keeps, each with a snapshot of its elements and the
  method that returned it), `ret`, `last` and `panicked`.
- **Method operators:** each method body is an operator named after the
  method (`RemoveOf`, `PopRightsOf`, `RangeOf`, `SubSliceOf`, `ChunkOf`,
  `PadOf`, `FillOf`, `UniqueOf`, `SearchOf`, `RandsOf`, `MergeOf`, ...).
  The reads return their scalar results (`Len`, `Sum`, `Search`, `Contains`
  as 1 or 0, `CountValues` as a function, `Join` and `String` as TLA+
  strings built by `Itoa`, which is `strconv.Itoa`) in the same `ret`.
  `LockFuncOf` and `RLockFuncOf` run the callbacks described under
  `SeqContainer` on the live slice. It chains the method's slice statements
  as `LET`s, so reslicing, in-place appends and `copy` act exactly as in the
  code. Loops become `RECURSIVE` operators (`UniqueLoop`, `FillLoop`,
  `SwapLoop`, `PopRandsLoop`).
- **Constructors (`Init`):** `NewIntArraySize(0, cap)` for each cap in
  `InitCaps`, which covers `NewIntArray()` at cap 0. `NewIntArrayFrom(vs)`
  makes the caller's slice `a.array`, and the caller may keep it (held
  with op `"NewFrom"`). `NewIntArrayFromCopy(vs)` makes and copies, and the
  caller may keep its own slice (op `"NewFromCopy"`). A size above 0 would
  fill the array with zeros no caller stored, so it is left out.
- **Actions:**
  - `Call(c)` runs one whole method. Each method holds the lock for its whole
    body, so one call is one atomic step. The result's slices may be kept
    (at most `MaxViews`), and the trailing GC is part of the step.
  - `CallPanics(c)` is a call that the code makes panic. It is enabled for
    `Range` with a negative end and for `Rands(0)` on a non-empty array,
    the cases reachable from calls within the contract. It changes nothing
    the contract observes. After it, the program stops.
  - `Drop(v)` is the caller letting go of a kept slice.
- **Refinement:** `A == INSTANCE SeqContainer WITH seq <- Elems(mem, array),
  out <- ret, Format <- Itoa` maps the heap to the abstract sequence.
  `Refines` is `A!InitFrom({<<>>} \cup InitSlices) /\ [][A!Next]_A!vars`:
  the container starts as a constructor made it, and every step is one the
  contract allows.

### `Gredis`

This module models the registry of `gredis.go` used by goroutines `Threads`.
- **State:**
  - `pools` and `instances`: the two maps.
  - `poolState`: whether each pool id was never made, is open, or is closed.
  - `objs`: each `Redis` object's pool, group and normalised config.
  - `pc` and `cur`: each goroutine's place in a `Close`.
  - `ret`: what its last `Do` got.
- **Atomic steps:**
  - `New(t, c)`: `GetOrSetFuncLock` runs its function under the map's lock.
  - `Instance(t, g)`: runs `New` inside the instances map's lock. Only its
    state-changing path is an action. A cached hit and a group without a
    config return without a change.
  - `Do(t, r)`: gets a connection from the pool. It fails with
    `ErrPoolClosed` once the pool is closed.
- **`Close` in three steps:** `CloseBegin` (`instances.Remove`),
  `CloseRemovePool` (`pools.Remove`) and `CloseFinish` (`pool.Close`).
- **Abstraction:**
  - The `%v` key is the config after `Normalise`, which fills in the 60 s
    defaults.
  - A redigo pool is reduced to open or closed.
  - The `Set*` methods write pool fields that nothing in gredis reads, and
    are left out.

### `MC_Gredis`

This module gives the group configs for the runs:
- `g1` leaves its timeouts unset and `g2` sets them to the defaults, so both
  share one pool key.
- `g3` has no config.
- The configs passed to `New` directly include one with that same key.

### `MC_IntArray`

This module fixes the values `{1, 2}` and the call sets. Integer arguments
cover the cases the methods branch on: counts below, at and above the length,
zero, and negative offsets and ends. `ContractCalls` includes `Join` with
the glue `","` and with an empty glue, `String`, `RLockFunc`, and a
`LockFunc` whose values are longer than any array. `MCInitSlices` is the
caller's slice `<<2, 1>>` and `MCInitCaps` is `{0, 2}`: no spare capacity,
or room for two appends in place. The violation runs start from
`NewIntArray()` only.

## Runs

The bounds in every run:
- `MaxLen` caps the array length before an `Add`.
- `MaxArgLen` caps the number of values or the size passed in one call.

The runs use two goroutines, `MaxLen = 3` and `MaxArgLen = 2`. This is enough
for every interesting case to occur:
- duplicates;
- an insertion at the front, middle and end;
- a removal racing a stale length.

The liveness runs use `MaxLen = 2` and `MaxArgLen = 1`, so the fairness checks
stay fast.

| Run | Expect | What it shows |
|---|---|---|
| `sorted_safety` | pass | With two goroutines calling every modelled method, the array stays sorted (`Sorted`). Every iteration of `Add`'s loop inserts its value unless the flag it reads then is set and the value is present, and every completed body changes the bag of elements exactly as its method says (`ElementsAccounted`). `Search` returns an index holding the value, or a neighbour's index with the right sign of comparison (`SearchCorrect`). Every read, run while the other goroutine writes, returns only what §4.2 allows for the array it holds under the read lock (`ReadsMeetContract`). The run covers `Range` and `SubSlice` clamping, `Chunk`'s ceil(len/size) windows, `Rands` sampling without replacement, and `Clone` copying. It starts from every constructor, and includes `Merge` of the container itself, whose two lock scopes interleave with other writers. |
| `sorted_live` | pass | Without `Unique`, `SetUnique` and `Merge`, every call, reads included, returns or panics under weak fairness of steps and strong fairness of lock acquisitions (`CallsComplete`). |
| `setunique_race` | violation | Concurrent `SetUnique(false)` and `SetUnique(true)`, with an `Add` between them, leave uniqueness on over a duplicate. |
| `poprand_stale` | violation | `PopRand` on a non-empty array panics after a concurrent `PopLeft` removes an element. |
| `unique_empty_blocks` | violation | `Unique` on an empty array panics while holding the lock, and the other goroutine blocks forever. |

The `IntArray` runs have one caller and `Safe = TRUE`; their methods take
one lock for their whole body, so concurrency adds nothing to them.
- `int_refines` and the violation runs use `MaxLen = 3`, `MaxViews = 0` and
  `NArrays = 3`. Three elements are enough for an interior removal, a
  triple duplicate, and capacity growth past a size class.
- `int_views` and `int_results_alias` keep one returned slice
  (`MaxViews = 1`, `NArrays = 4`). `int_views` uses `MaxLen = 2`, which
  still allows a kept slice to share an array with spare capacity.

| Run | Expect | What it shows |
|---|---|---|
| `int_refines` | pass | From every constructor, every method except `Unique`, reads, `Join`, `String` and the callbacks included, on Go slices with in-place appends, reslicing and growth, implements the §4.2 contract for calls within it (`Refines`). No zero from spare capacity ever reaches the array or a result (`TypeOK`). |
| `int_views` | pass | In safe mode the slices that `Range`, `SubSlice`, `Slice` and `PopLefts` return, and the caller's slice that `NewIntArrayFromCopy` copied, never change afterwards (`DetachedResultsStable`). The run also reaches the panics of `Range(-2,-1)` and `Rands(0)` (`CallPanics`). |
| `int_unique` | violation | `Unique` on `[1,1,1]` leaves `[1,1]`. |
| `int_subslice_neg` | violation | `SubSlice` with a negative length moves the window left instead of ending it before the end. |
| `int_results_alias` | violation | The slices that `PopRights` and `Chunk` return share the live backing array. The next `PushRight` or `Set` changes them (`SafeResultsStable`). |

Three panics on arguments the contract allows are modelled, but no run
asserts their absence:
- `Range(-2,-1)` panics (`make` with a negative length) instead of returning
  an empty slice.
- `Rands(0)` on a non-empty array writes `n[0]` into a zero-length slice and
  panics.
- `PopRights(-1)` (and `PopLefts` or `PopRands` with a negative size) slices
  or makes out of range. The contract clamps counts.

`int_views` reaches all three (`CallPanics`). `sorted_safety` reaches the
first two in `SortedStringArray`'s identical code (`ReadPanic`). They are
listed as hazards in `PROJECT.json`.

The `Gredis` runs use two goroutines, 3 `Redis` objects and 3 pools, with
goroutine symmetry. This allows two objects on one pool while a third
goroutine step closes it, and a fresh pool after a close.

| Run | Expect | What it shows |
|---|---|---|
| `gredis_pools` | pass | The pools map never holds a closed pool, so `New` never hands one out (`PoolsOpen`). This holds whatever `New`, `Instance`, `Close` and `Do` interleave, because `Close` drops the key before it closes the pool. |
| `gredis_instance_race` | violation | With only `Instance` and `Close` on one group: an `Instance(g)` between `Close`'s `instances.Remove` and `pools.Remove` caches a new object on the pool that `Close` then closes. `Instance(g)` keeps returning it, and every `Do` through it fails (`InstanceUsable`). |

Two objects whose configs agree share one pool through `New`, and `Close` of
one closes it under the other. `gredis_pools` makes such objects but checks
`PoolsOpen`, which this does not break. `gredis_instance_race` checks
`InstanceUsable` but passes `New` no configs. This is listed as a hazard.

`SetArray` after `SetUnique(true)` can install duplicates in the sorted
container. The spec does not give sorted containers a `SetArray`, so this is
listed as a hazard rather than checked.

`CHECK_DEADLOCK FALSE` appears only in runs where the code can really stop:
- A goroutine dead after a panic in `Unique` holds the lock.
- Callers may also stop calling at any time.
- In `int_views`, a `Range` with a negative end panics and the program stops.

Blocking forever is what `CallsComplete` looks for.

## Fairness

**Weak fairness** applies to the steps of a call in progress
(`AddValue`, `Finish`, `Panic`, `SetUniqueSet`, `SearchFinish`). The Go scheduler runs a
runnable goroutine eventually.

**Strong fairness** applies to lock acquisitions inside a call
(`PopRandRemove`, `SetUniqueUnique`, `SearchRLock`). The lock is enabled only
intermittently when others take it repeatedly. The code justifies this:
- `sync.RWMutex` blocks new readers once a writer waits.
- `sync.Mutex` enters starvation mode after 1 ms.

Starting a call is not fair: the program may simply stop calling.

## What is not yet modelled, and the plan

1. **`IntArray`, remaining parts.**
   - Unsafe mode, where `Range` and `Slice` return the live array.
   - `NewIntArraySize` with a size above 0.
   - Callbacks other than a read (`RLockFunc`) and a copy into the slice
     (`LockFunc`).
   - Writes by the caller through the slice it gave `NewIntArrayFrom`. The
     spec says they are visible to the container, and the container's
     writes to the caller, for the slice's lifetime. The first append that
     outgrows the capacity ends that sharing. This is listed as a hazard.
   - Concurrent calls: `PopRand` and `Search` read `len(a.array)` outside the
     lock, the same shape as `SortedStringArray`.
2. **Sorted container, remaining parts.**
   - The caller's slice that `NewSortedStringArrayFrom` keeps. Strings are
     values in this model, so nothing else can hold that slice.
   - The container `Clone` returns, whose `unique` flag starts false.
   - `LockFunc` callbacks that write, or that re-enter and deadlock.
3. **`Merge` from another element type.** The int-to-string conversion
   orders values as strings, which the strings-as-naturals abstraction does
   not keep.
4. **`gredis`.** The `Set*` methods and `Stats`. They write and read pool
   fields that only redigo, which is outside the sources, interprets.
5. **gjson `Append` and `Len`.** They read the target without the lock, so
   two `Append`s can lose a value. What `Set` does at an index lies in the
   JSON path engine, which is neither in the sources nor in the spec. This
   is listed as a hazard.

The project keeps twelve runs. A new question replaces a weaker run or is
added to an existing run's cfg.

The rest of the gjson accessors, the gcache expiry check, `gcfg.errorPrint`, the gmap
alias, reuseport, the websocket constants and the gaes tests hold no state
that TLC could explore. They stay unmodelled.

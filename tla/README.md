# TLA+ models of the segregated-list allocator in `src/mm.c`

`src/mm.c` is a 15-213 malloc lab allocator. It uses:

- 8-byte boundary tags;
- an implicit heap list from `heap_start` to an epilogue word;
- `numSegs` = 15 segregated explicit free lists (`segList`). List 0 holds 16-byte "mini" blocks; it is singly linked, and its blocks have no footer;
- a best-of-5 fit search, splitting and eager coalescing;
- the public functions `mm_init`, `malloc`, `free`, `realloc` and `calloc`.

The heap comes from memlib (`mem_sbrk`, `mem_memset`, `mem_memcpy`), which is not part of `src/`.

## Inventory

| Part | Code (mm.c) | State | Operations |
|---|---|---|---|
| Tag codec | 179-317 | one 64-bit word: size, alloc bit, prev_alloc bit, prev_mini bit | `pack`, `get_size`, `get_alloc`, `getPrevAlloc` |
| Block helpers | 327-411 | headers and footers in the heap | `write_epilogue`, `write_block`, `find_next`, `find_prev` |
| Segregated lists | 427-515 | `segList[]`, `next`/`prev` words in free payloads | `findIndex`, `addToFree`, `removeFromFree`, `shiftHelper` |
| Placement engine | 522-651 | all of the above, plus the break | `coalesce_block` (4 cases), `extend_heap`, `split_block`, `find_fit` |
| Public API | 791-1004 | `heap_start`, `segList`, the heap | `mm_init`, `malloc`, `free`, `realloc`, `calloc` |
| Heap checker | 652-783 | none (reads only) | `mm_checkheap`, which runs only in DEBUG builds through `dbg_requires`/`dbg_ensures` |
| Debug contracts | 51-65 and their uses | none | `dbg_requires`, `dbg_assert`, `dbg_ensures`: `assert` under DEBUG, no code otherwise |
| memlib (outside `src/`, modelled from spec.md) | — | the heap array and its break | `mem_sbrk`, `mem_memset`, `mem_memcpy` |

How the parts interact:

- Every API call runs to completion before the next one starts. The program is single threaded, so an API call is the unit of atomicity.
- `malloc` calls `find_fit`. On a miss it calls `extend_heap`, which writes a new free block over the old epilogue and then calls `coalesce_block`. On a hit it calls `removeFromFree`. It then writes the block as allocated, ORs prev_alloc into the next header, and calls `split_block`. `split_block` lists the tail with `addToFree`.
- `free` calls `write_block`, then `coalesce_block` (which may call `removeFromFree` for its neighbours), then `addToFree`.
- `realloc` is built from `malloc`, then `memcpy`, then `free`.
- `calloc` is `malloc` followed by `memset`.

What is hard to test here (the `hazards` of PROJECT.json):

- long call sequences that leave a stale prev_alloc bit;
- a coalesce that marks the epilogue free, and crashes only three calls later;
- `size_t` wrap in `malloc` and `calloc`;
- `mem_sbrk` running out;
- the order of the writes inside `coalesce_block` and `realloc`;
- in a DEBUG build, contracts and an `mm_checkheap` sweep that valid calls break;
- what a payload holds after `realloc` (copied after `malloc` has rewritten its neighbours' headers, from a size read afterwards) and after `calloc` (a recycled block that still holds old data or list pointers).

## Modules

- **`MMHeap`** holds the codec, the block helpers and the free lists. Each C function is a pure operator on an allocator state `h = [mem, brk, seg, start, err]`:
  - `mem` maps each 8-byte-aligned offset of memlib's array to a word. A word is a tag `[size, alloc, pa]`, a list pointer `[ptr]`, or `DataWord` (client data or uninitialised memory).
  - `brk` is memlib's break. `seg` is `segList`. `start` is `heap_start`.
  - `err` records how the C code goes wrong: dereferencing NULL, following a pointer out of the array, decoding a non-tag word as a tag, or a list walk that never ends. Once `err` is set, the rest of the call writes nothing. A fault is therefore a crash: no later call happens.
- **Pipeline style.** Every operator that changes the state is written so that each intermediate state is passed to the next step as an argument and appears once. A C function with several steps is split into stage operators, each named for the point of the C code where it starts: `CoalesceNext` and `CoalescePrev`, `SplitTail`, `PlaceFit` and `PlaceBlock`, `ReallocCopy`. The C code's recurring idioms are named too:
  - `write_block(b, get_size(b), get_alloc(b))` is `rewrite_block`;
  - `removeFromFree(b, findIndex(get_size(b)))` is `RemoveListed`.

  This keeps every C statement in one place in the model, and keeps TLC's coverage analysis linear in the size of the spec.
- **`MMCheck`** holds `mm_checkheap`, as a pure function of the state. It returns whether the sweep passes, the number its `printf` would report for the first failing check, and whether its heap walk never reaches the epilogue. The C code returns at the first failure, and every check is a read, so the checks of one block or one list head are evaluated together and the lowest-numbered failure is reported. `dbg_checkheap` is `dbg_requires(mm_checkheap(__LINE__))`.
- **The DEBUG build.** The constant `DEBUG` chooses the build. With `DEBUG = TRUE`, every `dbg_requires`, `dbg_assert` and `dbg_ensures` of `write_epilogue`, `write_block`, `header_to_payload`, `header_to_footer`, `split_block`, `malloc` and `free` becomes an assertion: when it fails, `err` becomes `"assert"`. With `DEBUG = FALSE` (all runs but `debug`) the conditions are not evaluated, as in the C macros. The pointer helpers `payload_to_header`, `header_to_payload`, `header_to_footer` and `footer_to_header` are operators of `MMHeap`. The nonzero-size contract of `header_to_payload` and `header_to_footer` is `dbg_nonzero`. Three contracts are not modelled: `footer_to_header`'s `dbg_assert`, and the `dbg_requires` of `find_next` and `find_prev`. `find_prev` returns before `footer_to_header` when the footer's size is 0. The two walkers are called only on a block that the caller has just written with a nonzero size, or found by a walk that stops at size 0.
- **`MMPlace`** holds the placement engine and the five API functions as operators. `find_fit` is `RECURSIVE` over the lists and keeps the C code's candidate counter, which is shared across lists. Faithfulness notes:
  - `coalesce_block` keeps all four cases, and writes the next block exactly as the code does.
  - `extend_heap` writes the new block over the old epilogue, so the new block inherits the epilogue's prev_alloc bit.
  - `AdjustSize` and `round_up` wrap modulo 2^`SIZE_BITS`.
  - memlib is modelled from its contract in spec.md: `SbrkOk` (when `mem_sbrk` fails), `mem_sbrk` (the break moves up), `Fill` (memset) and `Copy` (memcpy). A word only partly covered by a fill or copy holds mixed bytes, so it becomes `DataWord`.
- **`MM`** has the variables `mem`, `brk`, `segList`, `heapStart`, `err`, `live` and `content`.
  - `live` is the client's view: each pointer it holds and the size it asked for.
  - `content` is a history variable that the allocator never reads. For each held pointer it records the word that its first `len` bytes should hold. After `malloc(n)`, the client writes `ClientData(p)` (a data word tagged with the payload address) into its n bytes. `realloc` carries over the first min(n, old len) bytes, and `calloc` zeroes its bytes.
  - Its actions are `MmInit`, `Malloc(n)`, `Free(p)`, `Realloc(p, n)` and `Calloc(k, n)`. Each is one whole C call.
  - The client is valid: it frees or reallocs only pointers it holds, or NULL. After `malloc` it writes its bytes, as the lab's driver does.
  - `MM` also holds the properties, and the refinement mapping to `MMAlloc`.
- **`MMAlloc`** is the abstract allocator: a map from held pointers to their requests and block extents.
  - `Allocate` returns a fresh block that fits the request and overlaps no held block.
  - `Release` frees a held block.
  - `Move` is realloc.
  - Any call may also fail and change nothing.
- **`MC_MM`** holds the client inputs for each run.

## Runs

| Run | Expect | Checks |
|---|---|---|
| `core` | pass | `LiveBlocksIntact`, `ImplicitListSound`, `FreeListsMatchHeap`, `BoundaryTagsMatch`, `LivePayloadPreserved` over all mm_init/malloc/free sequences. Requests 0, 1, 24 and 56: a zero request, a mini block, a mid class, and more than a chunk. |
| `api` | pass | `TypeOK`, `LiveBlocksIntact`, `ContentsPreserved`, `LivePayloadPreserved` with realloc (to 0, from NULL, to a larger size) and calloc (2×8, and 3×21846, whose product wraps to 2: a nonzero size malloc would serve). The client's view records calloc's request as the true product, so a missing overflow check shows up as a block too small for the request. `ContentsPreserved` compares every fully covered word of a held payload with `content`: realloc to a smaller size of a block written by malloc(40) checks the copy, and calloc on a recycled block checks the memset. |
| `refine` | pass | `AllocSpec`: mm.c, seen through `live` and the header sizes, implements `MMAlloc`. |
| `crash` | violation | `NoFault`: init; malloc(56); malloc(1); malloc(24); then free of the block at 96 dereferences NULL (finding 1). |
| `adjacent` | violation | `NoAdjacentFree`: two free neighbours after frees in address order (finding 2). |
| `prevalloc` | violation | `PrevAllocTruthful`: a stale prev_alloc bit right after the first malloc (finding 3). |
| `fit` | pass | `FindFitBestOfK`: on every heap that malloc and free reach, for each adjusted size malloc searches for (16, 32 and 64), `find_fit` returns exactly the block of spec 4.4's declarative best-of-5 search (`RefFit`). The code's probe counter is shared by all lists, but it only drops in a list that then returns, so this matches the spec's per-list budget. On a 128-byte heap no list holds 5 fitting blocks, so the probe limit itself is never reached; the run checks the choice of list and the best-fit tie-break. A plain first-fit scan also breaks the property, so lists with several candidates are reached. |
| `checkheap` | violation | `CheckheapAccepts`: `mm_checkheap` rejects the heap `mm_init` leaves (check 13: an empty list head is "outside the heap"). Reachable heaps also fail checks 4, 8 and 9 (finding 5). |
| `debug` | violation | `NoFault` with `DEBUG = TRUE`: `mm_init` aborts inside its `extend_heap` (810): `coalesce_block` case 1 rewrites the new epilogue (size 0) as allocated at 538, against `write_block`'s `dbg_requires(size > 0)` (finding 6). The same call on the epilogue is also made at 558, 612, 816 and 876. A `malloc` before `mm_init` aborts too, on its entry `mm_checkheap`. |
| `overflow` | violation | `LiveBlocksIntact`: malloc(65527) with a 16-bit size_t returns a 16-byte block: `size + wsize` is 65535, and round_up's +15 wraps (finding 4; the top 23 sizes are affected). |

Every property of a passing run has a mutant in PROJECT.json: a plausible bug in the mapped code under which TLC finds that property violated. The mutants are:

- a split guard that is always true;
- heap_start set to the prologue;
- a missing back link in addToFree;
- a footer that drops prev_alloc;
- a footer written for allocated blocks;
- a malloc that serves size 0;
- a calloc without the division check, which serves 3×21846 with a 2-byte block;
- a fit scan that takes only blocks strictly larger than the request;
- a realloc that frees the old block before copying from it, so the copy reads free-list pointers;
- a removeFromFree that always pops the head of list 0.

## Bounds

- **Core:** `MAX_HEAP` = 128 bytes (16 words), `CHUNKSIZE` = 48, `NUM_SEGS` = 4.
  - The heap fits the prologue and epilogue, the first chunk, and one extension for a request larger than a chunk. This is exactly what the crash of finding 1 needs.
  - The four size classes are 16-31, 32-63, 64-127 and 128 or more, so splits and coalesces move blocks between lists.
  - `sbrk` failure is reachable, so the out-of-memory paths are checked.
- **Api:** 96 bytes and 32-byte chunks. This keeps realloc and calloc within reach. The whole API (realloc and calloc too) on the core 128-byte heap is out of reach for a five-minute run. Even with client data left untagged, TLC finds about 90,000 new distinct states a minute, and there are still 380,000 after four minutes. The realloc and calloc paths therefore run on the smaller heap, and the core heap is checked with malloc and free only.
- **`SIZE_BITS`** = 16 keeps size arithmetic's wrap-around reachable with small numbers. Nothing else in the model depends on the width.

The code's constants are 4096 and 15, and a 64-bit `size_t`. The code treats each of these only through comparisons and `findIndex`, so the scaled values exercise the same branches.

## Fairness and liveness

None. The allocator is single threaded and makes no progress promise beyond termination of each call. Nothing in mm.c schedules anything, so no fairness condition is justified: a weak-fairness assumption would be about the client choosing to call, not about the code. Termination is checked as a safety property: every list walk is bounded by `Fuel`, and running out of fuel is the fault "hang", which `NoFault` covers. The cfgs say `CHECK_DEADLOCK FALSE` because a crashed process takes no further step.

A crash ends a behaviour. The invariants of `core`, `api` and `refine` therefore see only states before a crash, and a state that leads to a crash is caught by `NoFault` alone. For example, `ImplicitListSound` asks only that the word at the break is a tag, so the epilogue that coalesce case 3 marks free (finding 1) passes it. The `crash` run stops at the first crash it finds, so other ways to crash on the same heap are not searched for once that one is fixed.

## Not modelled

- **prev_mini bit.** No code sets it. `write_epilogue` is always called with false, and `pack`'s argument is always `getPrevMiniBlock` of the same word.
- **The DEBUG contracts of `footer_to_header`, `find_next` and `find_prev`.** They are described above; none of them can fail before the `write_block` contract does.
- **Word contents beyond the tag/pointer/data distinction.**
- **The 64-bit width.**

## Plan for later sittings

1. Add a fixed variant that clears prev_alloc and keeps the epilogue allocated, and check `NoAdjacentFree`, `PrevAllocTruthful` and `NoFault` on it. This would show that the findings are the only causes.
2. Widen the client: frees of realloc'd blocks in larger heaps, and more size classes. The data abstraction is not what limits this (see Bounds). It needs a state constraint on the number of held blocks, or a simulation run.

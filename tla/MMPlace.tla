------------------------------- MODULE MMPlace -------------------------------
(***************************************************************************)
(* The placement engine of src/mm.c (find_fit, split_block,                *)
(* coalesce_block, extend_heap) and the public functions mm_init, malloc,  *)
(* free, realloc and calloc, each as an operator from the allocator state  *)
(* before the call to the state after it (MMHeap explains the state).      *)
(* Functions that return a block return [st |-> state, blk |-> block];     *)
(* the API functions return [st |-> state, bp |-> payload pointer].        *)
(***************************************************************************)
EXTENDS MMCheck

\* memlib's mem_sbrk: fails for a negative intptr_t increment or one that
\* runs past the end of the array
SbrkOk(h, incr) == incr < SizeMod \div 2 /\ h.brk + incr <= MAX_HEAP

\* memlib's mem_sbrk once SbrkOk: the break moves up by incr; the old break
\* is the start of the new area
mem_sbrk(h, incr) == [h EXCEPT !.brk = h.brk + incr]

(***************************************************************************)
(* find_fit: from the list of asize's class upwards, probe at most         *)
(* FitProbes blocks that fit and keep the smallest; the first list that    *)
(* has a fitting block decides.  The probe count is not reset per list.    *)
(***************************************************************************)
RECURSIVE ScanList(_, _, _, _, _, _, _), ScanList_strict(_, _, _, _, _, _, _)
\* a scan that takes only blocks strictly larger than asize
ScanList_strict(h, asize, block, count, fit, minFit, fuel) ==
  IF block = NULL \/ count = 0
  THEN [count |-> count, fit |-> fit, min |-> minFit, hang |-> FALSE]
  ELSE IF fuel = 0 THEN [count |-> count, fit |-> fit, min |-> minFit, hang |-> TRUE]
  ELSE LET sz     == get_size(h, block)
           fits   == asize < sz
           first  == fits /\ count = FitProbes
           fit1   == IF first THEN block ELSE fit
           min1   == IF first THEN sz ELSE minFit
           better == fits /\ sz < min1
       IN  ScanList_strict(h, asize, NextOf(h, block), IF fits THEN count - 1 ELSE count,
                           IF better THEN block ELSE fit1, IF better THEN sz ELSE min1,
                           fuel - 1)

ScanList(h, asize, block, count, fit, minFit, fuel) ==
  IF block = NULL \/ count = 0
  THEN [count |-> count, fit |-> fit, min |-> minFit, hang |-> FALSE]
  ELSE IF fuel = 0 THEN [count |-> count, fit |-> fit, min |-> minFit, hang |-> TRUE]
  ELSE LET sz     == get_size(h, block)
           fits   == asize <= sz
           first  == fits /\ count = FitProbes
           fit1   == IF first THEN block ELSE fit
           min1   == IF first THEN sz ELSE minFit
           better == fits /\ sz < min1
       IN  ScanList(h, asize, NextOf(h, block), IF fits THEN count - 1 ELSE count,
                    IF better THEN block ELSE fit1, IF better THEN sz ELSE min1,
                    fuel - 1)

RECURSIVE FitFrom(_, _, _, _, _, _), FitNext(_, _, _, _)
\* after the scan of list i: a fit found there is returned
FitNext(h, asize, i, r) ==
  IF r.hang \/ r.fit # NULL THEN [fit |-> r.fit, hang |-> r.hang]
  ELSE FitFrom(h, asize, i + 1, r.count, r.fit, r.min)

FitFrom(h, asize, i, count, fit, minFit) ==
  IF i >= NUM_SEGS THEN [fit |-> NULL, hang |-> FALSE]
  ELSE FitNext(h, asize, i, ScanList(h, asize, h.seg[i], count, fit, minFit, Fuel))

find_fit(h, asize) == FitFrom(h, asize, findIndex(asize), FitProbes, NULL, 0)

(***************************************************************************)
(* coalesce_block, with the four cases of the C code.  Only the tag of the *)
(* block itself says whether the previous block is free.                   *)
(***************************************************************************)
\* cases 1 and 2: the previous block is allocated; in case 2 the merged
\* size is also written at next's header
CoalesceNext(h, block, next) ==
  LET blockSize == get_size(h, block)
      toBeAdded == get_size(h, next) + blockSize
  IN  IF get_alloc(h, next)
      THEN write_block_keep_size(write_block(h, block, blockSize, FALSE), next, TRUE)
      ELSE write_block(write_block(RemoveListed(h, next), block, toBeAdded, FALSE),
                       next, toBeAdded, TRUE)

\* cases 3 and 4: merge into prev, then write next as free
CoalescePrev(h, block, next, prev) ==
  LET removed   == get_size(h, prev) + (IF get_alloc(h, next) THEN 0 ELSE get_size(h, next))
      toBeAdded == removed + get_size(h, block)
      h1        == IF get_alloc(h, next) THEN h ELSE RemoveListed(h, next)
  IN  write_block_keep_size(write_block(RemoveListed(h1, prev), prev, toBeAdded, FALSE),
                            next, FALSE)

\* find_prev's NULL (a footer of size 0 or a word that is no tag) is
\* dereferenced by get_size(prev)
CoalesceAt(h, block, next) ==
  LET prev == find_prev(h, block)
  IN  IF getPrevAlloc(h, block)
      THEN [st |-> CoalesceNext(h, block, next), blk |-> block]
      ELSE IF prev = NULL
      THEN [st  |-> Fail(h, IF IsTag(Word(h, block - wsize)) THEN "null_deref" ELSE "bad_tag"),
            blk |-> NULL]
      ELSE [st |-> CoalescePrev(h, block, next, prev), blk |-> prev]

coalesce_block(h, block) ==
  CoalesceAt(NeedTag(NeedTag(h, block), find_next(h, block)), block, find_next(h, block))

(***************************************************************************)
(* extend_heap: the new block's header is the old epilogue word, so it     *)
(* inherits the epilogue's prev_alloc bit; a new epilogue ends the heap.   *)
(***************************************************************************)
ExtendAt(h, block) == coalesce_block(write_epilogue(h, find_next(h, block), FALSE), block)

extend_heap(h, size) ==
  LET sz == round_up(size, dsize)
  IN  IF ~SbrkOk(h, sz) THEN [st |-> h, blk |-> NULL]
      ELSE ExtendAt(write_block(mem_sbrk(h, sz), h.brk - wsize, sz, FALSE),
                    h.brk - wsize)

(***************************************************************************)
(* split_block: carve a free tail off an allocated block when at least a   *)
(* mini block is left, list the tail, and rewrite the block after it.      *)
(***************************************************************************)
\* from `next = find_next(block)` on, block already written with asize
SplitTail(h, block, tailSize) ==
  LET next == find_next(h, block)
  IN  rewrite_block_after(
        AddListed(write_block(Put(h, next, OrPrevAlloc(Word(h, next))),
                              next, tailSize, FALSE), next), next)

\* dbg_requires(get_alloc(block)) and dbg_ensures(get_alloc(block))
dbg_alloc(h, block) == dbg_requires(h, get_alloc(h, block))

\* a split whose unsigned guard `size - asize >= 0` always holds
split_block_always(h, block, asize) ==
  dbg_alloc(SplitTail(write_block(dbg_alloc(h, block), block, asize, TRUE),
                      block, get_size(h, block) - asize), block)

split_block(h, block, asize) ==
  dbg_alloc(IF SizeT(get_size(h, block) - asize) >= min_block_size
            THEN SplitTail(write_block(dbg_alloc(h, block), block, asize, TRUE),
                           block, get_size(h, block) - asize)
            ELSE dbg_alloc(h, block), block)

(***************************************************************************)
(* The public functions.                                                   *)
(***************************************************************************)
\* mm_init up to the first extend_heap: prologue, epilogue, empty lists
InitPrologue(h) ==
  [Put(Put(mem_sbrk(h, 2 * wsize), h.brk, pack(0, TRUE, FALSE)),
       h.brk + wsize, pack(0, TRUE, TRUE))
   EXCEPT !.start = h.brk + wsize, !.seg = [i \in Segs |-> NULL]]

\* mm_init after extend_heap(chunksize) returned r
InitChunk(r) ==
  IF r.blk = NULL THEN r.st ELSE rewrite_block_after(AddListed(r.st, r.blk), r.blk)

\* an mm_init that points heap_start at the prologue word
mm_init_start_prologue(h) ==
  IF ~SbrkOk(h, 2 * wsize) THEN h
  ELSE InitChunk(extend_heap([InitPrologue(h) EXCEPT !.start = h.brk], CHUNKSIZE))

mm_init(h) ==
  IF ~SbrkOk(h, 2 * wsize) THEN h
  ELSE InitChunk(extend_heap(InitPrologue(h), CHUNKSIZE))

\* the adjusted block size for a request of size bytes
AdjustSize(size) == max(round_up(SizeT(size + wsize), dsize), min_block_size)

\* mark block allocated, set prev_alloc in the next header, then split
MarkNextAlloc(h, block) ==
  LET next == find_next(h, block)
  IN  rewrite_block(Put(h, next, OrPrevAlloc(Word(h, next))), next)

\* malloc once it holds a block r.blk (NULL when extend_heap failed)
PlaceBlock(r, asize) ==
  IF r.blk = NULL THEN [st |-> r.st, bp |-> NULL]
  ELSE [st |-> dbg_checkheap(dbg_nonzero(split_block(
                  MarkNextAlloc(write_block_keep_size(dbg_requires(r.st, ~get_alloc(r.st, r.blk)),
                                                      r.blk, TRUE), r.blk), r.blk, asize), r.blk)),
        bp |-> header_to_payload(r.blk)]

\* malloc after find_fit returned f
PlaceFit(h, asize, f) ==
  IF f.hang THEN [st |-> Fail(h, "hang"), bp |-> NULL]
  ELSE IF f.fit = NULL THEN PlaceBlock(extend_heap(h, max(asize, CHUNKSIZE)), asize)
  ELSE PlaceBlock([st |-> RemoveListed(h, f.fit), blk |-> f.fit], asize)

\* malloc from the size adjustment on (the request is not 0)
malloc_place(h, size) == PlaceFit(h, AdjustSize(size), find_fit(h, AdjustSize(size)))

\* malloc's lazy mm_init (after its entry check of the heap)
MallocInit(h) == IF h.start = NULL THEN mm_init(h) ELSE h

\* a malloc without the check for a spurious request of 0 bytes
malloc_serves_zero(h0, size) == malloc_place(MallocInit(dbg_checkheap(h0)), size)

\* malloc once the heap is initialised
MallocFrom(h, size) ==
  IF size = 0 THEN [st |-> dbg_checkheap(h), bp |-> NULL] ELSE malloc_place(h, size)

malloc(h0, size) == MallocFrom(MallocInit(dbg_checkheap(h0)), size)

\* free's addToFree of the block coalesce_block returned
ListCoalesced(r) == AddListed(r.st, r.blk)

\* free after its entry check of the heap
FreeFrom(h, bp) ==
  IF bp = NULL THEN h
  ELSE dbg_checkheap(ListCoalesced(coalesce_block(
         write_block_keep_size(dbg_requires(h, get_alloc(h, payload_to_header(bp))),
                               payload_to_header(bp), FALSE),
         payload_to_header(bp))))

free(h, bp) == FreeFrom(dbg_checkheap(h), bp)

\* words [p, p + n) set to w; a word only partly covered holds mixed bytes
Fill(h, p, n, w) ==
  IF ~Ok(h) THEN h
  ELSE [h EXCEPT !.mem = [a \in Addr |->
          IF a >= p /\ a < p + n
          THEN IF a + wsize <= p + n THEN w ELSE DataWord
          ELSE h.mem[a]]]

\* memcpy of n bytes from src to dst
Copy(h, dst, src, n) ==
  IF ~Ok(h) THEN h
  ELSE [h EXCEPT !.mem = [a \in Addr |->
          IF a >= dst /\ a < dst + n
          THEN IF a + wsize <= dst + n THEN Word(h, src + (a - dst)) ELSE DataWord
          ELSE h.mem[a]]]

\* a realloc that frees the old block before copying from it
ReallocCopy_free_first(r, ptr, size) ==
  LET copysize == IF size < get_payload_size(r.st, payload_to_header(ptr))
                  THEN size ELSE get_payload_size(r.st, payload_to_header(ptr))
  IN  IF ptr = NULL \/ r.bp = NULL THEN r
      ELSE [st |-> Copy(free(r.st, ptr), r.bp, ptr, copysize), bp |-> r.bp]

\* realloc after newptr = malloc(size) returned r (ptr NULL: malloc alone)
ReallocCopy(r, ptr, size) ==
  LET copysize == IF size < get_payload_size(r.st, payload_to_header(ptr))
                  THEN size ELSE get_payload_size(r.st, payload_to_header(ptr))
  IN  IF ptr = NULL \/ r.bp = NULL THEN r
      ELSE [st |-> free(Copy(r.st, r.bp, ptr, copysize), ptr), bp |-> r.bp]

realloc(h, ptr, size) ==
  IF size = 0 THEN [st |-> free(h, ptr), bp |-> NULL]
  ELSE ReallocCopy(malloc(h, size), ptr, size)

\* calloc after bp = malloc(asize) returned r
CallocFill(r, asize) ==
  IF r.bp = NULL THEN r ELSE [st |-> Fill(r.st, r.bp, asize, ZeroWord), bp |-> r.bp]

\* a calloc without the division check of the product
calloc_no_overflow_check(h, elements, size) ==
  LET asize == SizeT(elements * size)
  IN  IF elements = 0 THEN [st |-> h, bp |-> NULL]
      ELSE CallocFill(malloc(h, asize), asize)

calloc(h, elements, size) ==
  LET asize == SizeT(elements * size)
  IN  IF elements = 0 THEN [st |-> h, bp |-> NULL]
      ELSE IF asize \div elements # size THEN [st |-> h, bp |-> NULL]
      ELSE CallocFill(malloc(h, asize), asize)
=============================================================================

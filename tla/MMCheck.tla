------------------------------- MODULE MMCheck -------------------------------
(***************************************************************************)
(* mm_checkheap of src/mm.c: the consistency sweep that a DEBUG build runs *)
(* on entry to and exit from malloc and free (through dbg_requires and     *)
(* dbg_ensures).  It is a pure function of the allocator state h (see      *)
(* MMHeap).  It returns whether it passed, the number its printf reports   *)
(* for the first check that failed (0 when all pass), and whether its      *)
(* heap walk would never reach the epilogue.                               *)
(*                                                                         *)
(* The C code returns at the first failing check.  Every check is a read   *)
(* that cannot change the outcome of a later one, so the checks of one     *)
(* block (or one list head) are evaluated together and the first in code   *)
(* order is reported.  A pointer compared with heap_start is taken as its  *)
(* address, and NULL as address 0.                                         *)
(***************************************************************************)
EXTENDS MMHeap

\* the number in the printf of the check that failed; 0: mm_checkheap returns true
Verdict(tag) == [ok |-> tag = 0, tag |-> tag, hang |-> FALSE]

checkAlignment(currBlock, n) == currBlock % 16 = n

\* a pointer's value as an address: NULL is 0
AddrOf(p) == IF p = NULL THEN 0 ELSE p

\* the checks of the heap walk for block b, epilogue epi: 6 alignment, 7
\* heap boundaries, 8 header equals footer, 9 and 10 no two free blocks in a
\* row, 11 pointer consistency (next->prev of a free block)
BlockFails(h, b, epi) ==
  LET isFree == ~get_alloc(h, b)
      prev   == find_prev(h, b)
      next   == NextOf(h, b)
  IN  {t \in 6 .. 11 :
         CASE t = 6  -> ~checkAlignment(b, 8)
           [] t = 7  -> b < h.start \/ b > epi
           [] t = 8  -> Word(h, b) # Word(h, b + get_size(h, b) - wsize)
           [] t = 9  -> isFree /\ ~get_alloc(h, find_next(h, b))
           [] t = 10 -> isFree /\ prev # NULL /\ get_alloc(h, prev)
           [] t = 11 -> isFree /\ next # NULL /\ PrevOf(h, next) # b}

\* the for loop from heap_start to the epilogue: the first failing tag, or
\* 0 and the number of free blocks met
RECURSIVE CheckBlocks(_, _, _, _, _)
CheckBlocks(h, b, epi, numFreeHeap, fuel) ==
  IF b = epi THEN [tag |-> 0, numFree |-> numFreeHeap, hang |-> FALSE]
  ELSE IF fuel = 0 THEN [tag |-> 0, numFree |-> numFreeHeap, hang |-> TRUE]
  ELSE IF BlockFails(h, b, epi) # {}
  THEN [tag |-> Min(BlockFails(h, b, epi)), numFree |-> numFreeHeap, hang |-> FALSE]
  ELSE CheckBlocks(h, find_next(h, b), epi,
                   numFreeHeap + (IF get_alloc(h, b) THEN 0 ELSE 1), fuel - 1)

\* the checks of list head segList[i]: 13 heap boundaries, 14 pointer
\* consistency; only the head of each list is looked at
SegFails(h, i, epi) ==
  LET b == h.seg[i]
  IN  {t \in {13, 14} :
         CASE t = 13 -> AddrOf(b) < h.start \/ AddrOf(b) > epi
           [] t = 14 -> ~get_alloc(h, b) /\ NextOf(h, b) # NULL
                        /\ PrevOf(h, NextOf(h, b)) # b}

\* the segment loop and the final count comparison, after the walk w
CheckSegs(h, epi, w) ==
  LET bad         == {i \in Segs : SegFails(h, i, epi) # {}}
      numFreeSeg  == Cardinality({i \in Segs : ~get_alloc(h, h.seg[i])})
  IN  IF w.hang THEN [ok |-> FALSE, tag |-> 0, hang |-> TRUE]
      ELSE IF w.tag # 0 THEN Verdict(w.tag)
      ELSE IF bad # {} THEN Verdict(Min(SegFails(h, Min(bad), epi)))
      ELSE IF numFreeSeg # w.numFree THEN Verdict(15)
      ELSE Verdict(0)

\* prologue at mem_heap_lo(), epilogue at mem_heap_hi() - 7
mm_checkheap(h) ==
  LET epi == h.brk - wsize
  IN  IF h.start = NULL THEN Verdict(1)
      ELSE IF get_size(h, 0) > 0 \/ ~get_alloc(h, 0) THEN Verdict(2)
      ELSE IF ~checkAlignment(0, 0) THEN Verdict(3)
      ELSE IF get_size(h, epi) > 0 \/ ~get_alloc(h, epi) THEN Verdict(4)
      ELSE IF ~checkAlignment(epi, 8) THEN Verdict(5)
      ELSE CheckSegs(h, epi, CheckBlocks(h, h.start, epi, 0, Fuel))

\* dbg_requires(mm_checkheap(__LINE__)) and dbg_ensures alike, once the
\* sweep returned r: an endless walk hangs, a false result fails the assert
CheckVerdict(h, r) ==
  IF r.hang THEN Fail(h, "hang") ELSE dbg_requires(h, r.ok)

dbg_checkheap(h) == IF DEBUG /\ Ok(h) THEN CheckVerdict(h, mm_checkheap(h)) ELSE h
=============================================================================

------------------------------- MODULE MMHeap -------------------------------
(***************************************************************************)
(* The on-heap machinery of src/mm.c: the boundary-tag codec, the block   *)
(* helpers of the implicit heap list and the segregated free lists, on     *)
(* which MMCheck and MMPlace build.                                        *)
(* The module has no variables: every C function is an                     *)
(* operator that takes the allocator's whole state h and returns the       *)
(* state after the call, so that an API call of mm.c is one step of the    *)
(* specification in MM.tla.                                                *)
(*                                                                         *)
(*   h.mem    the heap array, word address -> word (memlib's buffer)       *)
(*   h.brk    memlib's break: bytes of the array handed out by mem_sbrk    *)
(*   h.seg    segList[0 .. NUM_SEGS-1], the free-list heads                *)
(*   h.start  heap_start                                                   *)
(*   h.err    "none", or the way the C code goes wrong at this point:      *)
(*            "null_deref", "wild_ptr" (a pointer outside the heap array), *)
(*            "bad_tag" (a word that is not a boundary tag decoded as one) *)
(*            "hang" (a list walk that never reaches NULL) or "assert" (a  *)
(*            dbg_ contract failing in a DEBUG build).  Once err           *)
(*            is set every later write of the same call is skipped.       *)
(*                                                                         *)
(* Addresses are byte offsets from mem_heap_lo(), which memlib aligns to   *)
(* 16.  A word is a boundary tag (header, footer, prologue, epilogue), a   *)
(* free-list pointer, or client data / uninitialised memory (DataWord).    *)
(* The prev_mini bit of a tag is not modelled: no code of mm.c sets it and *)
(* no code reads it to decide anything (see README).                       *)
(***************************************************************************)
EXTENDS Integers, FiniteSets, FiniteSetsExt

CONSTANTS
  NULL,       \* the null pointer (a model value)
  CHUNKSIZE,  \* chunksize, the least heap extension (4096 in mm.c)
  MAX_HEAP,   \* memlib's MAX_HEAP: size of the array mem_sbrk hands out
  NUM_SEGS,   \* numSegs, the number of size classes (15 in mm.c)
  SIZE_BITS,  \* width of size_t: size arithmetic wraps modulo 2^SIZE_BITS
  DEBUG       \* TRUE for a build with DEBUG defined: the dbg_ contracts are asserts

ASSUME CHUNKSIZE \in Nat /\ CHUNKSIZE % 16 = 0 /\ CHUNKSIZE > 0
ASSUME MAX_HEAP \in Nat /\ MAX_HEAP % 16 = 0
ASSUME NUM_SEGS \in Nat /\ NUM_SEGS >= 2
ASSUME SIZE_BITS \in Nat /\ 2^SIZE_BITS > 4 * MAX_HEAP
ASSUME DEBUG \in BOOLEAN

wsize == 8
dsize == 16
min_block_size == dsize
\* find_fit's candidate budget (the literal 5 of find_fit)
FitProbes == 5
SizeMod == 2^SIZE_BITS
\* a size_t result: C unsigned arithmetic wraps
SizeT(x) == x % SizeMod

\* the word addresses of memlib's heap array
Addr == {a \in 0 .. (MAX_HEAP - wsize) : a % wsize = 0}
\* a pointer value read from a word that holds no pointer: outside the array
Wild == 4 * MAX_HEAP
Segs == 0 .. (NUM_SEGS - 1)
\* a bound on the length of any walk of a list: one step per word
Fuel == Cardinality(Addr)

(***************************************************************************)
(* Words and the tag codec.                                                *)
(***************************************************************************)
pack(size, alloc, isPrevAlloc) == [size |-> size, alloc |-> alloc, pa |-> isPrevAlloc]
PtrWord(p) == [ptr |-> p]
\* client data or uninitialised memory; no payload starts at 0, so a word
\* a client writes (MM's ClientData) is told apart by its payload address
DataWord == [data |-> 0]
IsTag(w) == DOMAIN w = {"size", "alloc", "pa"}
IsPtr(w) == DOMAIN w = {"ptr"}
\* memset(.., 0, ..) leaves words that decode as pack(0, false, false)
ZeroWord == pack(0, FALSE, FALSE)

Word(h, a) == IF a \in Addr THEN h.mem[a] ELSE DataWord
get_size(h, b) == IF IsTag(Word(h, b)) THEN Word(h, b).size ELSE 0
get_alloc(h, b) == IsTag(Word(h, b)) /\ Word(h, b).alloc
getPrevAlloc(h, b) == IsTag(Word(h, b)) /\ Word(h, b).pa
get_payload_size(h, b) == get_size(h, b) - wsize

(***************************************************************************)
(* Faults and writes.                                                      *)
(***************************************************************************)
Ok(h) == h.err = "none"
Fail(h, e) == IF Ok(h) THEN [h EXCEPT !.err = e] ELSE h
\* the header read at b must be a boundary tag
NeedTag(h, b) == IF IsTag(Word(h, b)) THEN h ELSE Fail(h, "bad_tag")
\* dereferencing pointer p
Reach(h, p) ==
  IF p = NULL THEN Fail(h, "null_deref")
  ELSE IF p \notin Addr THEN Fail(h, "wild_ptr") ELSE h
Put(h, a, w) ==
  IF ~Ok(h) THEN h
  ELSE IF a \notin Addr THEN Fail(h, "wild_ptr")
  ELSE [h EXCEPT !.mem[a] = w]
SetSeg(h, i, p) == IF Ok(h) THEN [h EXCEPT !.seg[i] = p] ELSE h
\* dbg_requires, dbg_assert and dbg_ensures: assert(cond) in a DEBUG build,
\* no code otherwise (cond is then not evaluated)
dbg_requires(h, cond) == IF DEBUG /\ Ok(h) /\ ~cond THEN Fail(h, "assert") ELSE h

max(x, y) == IF x > y THEN x ELSE y
round_up(size, n) == SizeT(n * (SizeT(size + (n - 1)) \div n))

(***************************************************************************)
(* Block helpers.  Each intermediate state is passed on as an argument,    *)
(* never named twice, so that each C statement appears once.               *)
(***************************************************************************)
payload_to_header(bp) == bp - wsize
header_to_payload(block) == block + wsize
\* header_to_footer: the last word of the block, by its header's size
header_to_footer(h, block) == block + get_size(h, block) - wsize
\* the header of the block whose footer is at footer, by the footer's size
footer_to_header(h, footer) == footer + wsize - Word(h, footer).size

\* dbg_requires(get_size(block) != 0) of header_to_payload and header_to_footer
dbg_nonzero(h, block) == dbg_requires(h, get_size(h, block) # 0)

\* the epilogue must be the last word below the break
write_epilogue(h, block, isPrev) ==
  Put(dbg_requires(h, block = h.brk - wsize), block, pack(0, TRUE, isPrev))

\* the footer write of write_block: free blocks larger than a mini block
WriteFooter(h, block, size, currAlloc, w) ==
  IF ~currAlloc /\ size > min_block_size
  THEN Put(dbg_nonzero(h, block), header_to_footer(h, block), w) ELSE h

\* a write_block whose footer drops the prev_alloc bit
write_block_plain_footer(h, block, size, currAlloc) ==
  LET w == pack(size, currAlloc, getPrevAlloc(h, block))
  IN  WriteFooter(Put(NeedTag(dbg_requires(h, size > 0), block), block, w), block, size, currAlloc,
                  pack(size, currAlloc, FALSE))

\* a write_block that also writes a footer for an allocated block
write_block_footer_always(h, block, size, currAlloc) ==
  LET w == pack(size, currAlloc, getPrevAlloc(h, block))
  IN  WriteFooter(Put(NeedTag(dbg_requires(h, size > 0), block), block, w), block, size, FALSE, w)

\* The header keeps the block's prev_alloc bit; a free block larger than
\* a mini block also gets a footer equal to its header.
write_block(h, block, size, currAlloc) ==
  LET w == pack(size, currAlloc, getPrevAlloc(h, block))
  IN  WriteFooter(Put(NeedTag(dbg_requires(h, size > 0), block), block, w), block, size, currAlloc, w)

\* write_block(block, get_size(block), currAlloc), the size read first
write_block_keep_size(h, block, currAlloc) ==
  write_block(h, block, get_size(h, block), currAlloc)

\* write_block(b, get_size(b), get_alloc(b)): a header rewritten as it is
rewrite_block(h, block) == write_block_keep_size(h, block, get_alloc(h, block))

find_next(h, block) == block + get_size(h, block)

\* next = find_next(block); write_block(next, get_size(next), get_alloc(next))
rewrite_block_after(h, block) == rewrite_block(h, find_next(h, block))

\* the footer word just before the header: NULL when it reads size 0
find_prev(h, block) ==
  LET f == Word(h, block - wsize)
  IN  IF ~IsTag(f) \/ f.size = 0 THEN NULL ELSE footer_to_header(h, block - wsize)

\* `next->header | 0x2` on whatever word is at the address
OrPrevAlloc(w) == IF IsTag(w) THEN [w EXCEPT !.pa = TRUE] ELSE pack(0, FALSE, TRUE)

(***************************************************************************)
(* Segregated free lists: next at block+8, prev at block+16.  A mini block *)
(* (16 bytes, list 0) has no prev field: block+16 is its successor.        *)
(***************************************************************************)
findIndex(size) ==
  LET fits == {i \in 0 .. (NUM_SEGS - 2) : size < min_block_size * 2^(i + 1)}
  IN  IF size <= min_block_size THEN 0
      ELSE IF fits = {} THEN NUM_SEGS - 1 ELSE Min(fits)

LinkAt(h, a) == IF IsPtr(Word(h, a)) THEN Word(h, a).ptr ELSE Wild
NextOf(h, b) == IF b \in Addr THEN LinkAt(h, b + wsize) ELSE Wild
PrevOf(h, b) == IF b \in Addr THEN LinkAt(h, b + dsize) ELSE Wild
SetNext(h, b, p) == Put(Reach(h, b), b + wsize, PtrWord(p))
SetPrev(h, b, p) == Put(Reach(h, b), b + dsize, PtrWord(p))
\* `if (b != NULL) b->prev = p`
SetPrevIf(h, b, p) == IF b # NULL THEN SetPrev(h, b, p) ELSE h

\* walk the singly linked mini list from temp until it reaches block, then
\* link prev past it; a NULL temp is dereferenced as in the C loop
RECURSIVE shiftHelper(_, _, _, _, _)
shiftHelper(h, block, temp, prev, fuel) ==
  IF ~Ok(h) THEN h
  ELSE IF fuel = 0 THEN Fail(h, "hang")
  ELSE IF temp # block
       THEN shiftHelper(Reach(h, temp), block, NextOf(h, temp), temp, fuel - 1)
       ELSE SetNext(h, prev, NextOf(h, temp))

\* the doubly linked lists 1.. of removeFromFree (cases 1 to 4)
Unlink(h, block, index) ==
  LET prev == PrevOf(h, block)
      next == NextOf(h, block)
  IN  IF prev # NULL
      THEN SetPrevIf(SetNext(h, prev, next), next, prev)
      ELSE SetPrevIf(SetSeg(h, index, next), next, NULL)

\* a removeFromFree that always pops the head of the mini list
removeFromFree_pop_mini(h, block, index) ==
  IF block = NULL THEN Fail(h, "null_deref")
  ELSE IF index # 0 THEN Unlink(h, block, index)
  ELSE SetSeg(Reach(h, h.seg[0]), 0, NextOf(h, h.seg[0]))

\* block->prev and block->next are read before the NULL test
removeFromFree(h, block, index) ==
  IF block = NULL THEN Fail(h, "null_deref")
  ELSE IF index # 0 THEN Unlink(h, block, index)
  ELSE IF block # h.seg[0]
       THEN shiftHelper(Reach(h, h.seg[0]), block, NextOf(h, h.seg[0]), h.seg[0], Fuel)
       ELSE SetSeg(h, 0, NextOf(h, h.seg[0]))

\* an addToFree that does not point the old head's prev at the new block
addToFree_no_backlink(h, block, index) ==
  LET addBlock == h.seg[index]
  IN  IF block = NULL THEN h
      ELSE IF index # 0
      THEN SetSeg(SetNext(SetPrev(h, block, NULL), block, addBlock), index, block)
      ELSE SetNext(SetSeg(h, 0, block), block, addBlock)

addToFree(h, block, index) ==
  LET addBlock == h.seg[index]
  IN  IF block = NULL THEN h
      ELSE IF index # 0
      THEN SetSeg(SetPrevIf(SetNext(SetPrev(h, block, NULL), block, addBlock),
                            addBlock, block), index, block)
      ELSE SetNext(SetSeg(h, 0, block), block, addBlock)

\* removeFromFree(b, findIndex(get_size(b))) and addToFree(b, ...) alike
RemoveListed(h, b) == removeFromFree(h, b, findIndex(get_size(h, b)))
AddListed(h, b) == addToFree(h, b, findIndex(get_size(h, b)))
=============================================================================

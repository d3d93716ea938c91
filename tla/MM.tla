--------------------------------- MODULE MM ---------------------------------
(***************************************************************************)
(* The allocator of src/mm.c driven by a client that makes only valid      *)
(* calls: it calls mm_init once at the start, and frees or reallocs only   *)
(* pointers it holds.  Each step is one whole API call (the allocator is   *)
(* single threaded and no call can observe another's intermediate state). *)
(* After malloc the client writes its request's bytes, as the malloc lab   *)
(* driver does; calloc's memory is left zeroed.                            *)
(*                                                                         *)
(* When a call goes wrong in the C code (err # "none") the step records    *)
(* how and leaves the rest of the state as it was: the process has         *)
(* crashed or hangs, and no further call happens.                          *)
(***************************************************************************)
EXTENDS MMPlace, Sequences

CONSTANTS
  Requests,   \* sizes the client passes to malloc
  ReallocRequests, \* sizes the client passes to realloc
  CallocArgs  \* <<elements, size>> pairs the client passes to calloc

VARIABLES
  mem,        \* the heap array
  brk,        \* memlib's break
  segList,    \* the free-list heads
  heapStart,  \* heap_start
  err,        \* "none", or how the last call failed
  live,       \* the client's view: payload pointer -> bytes it asked for
  content     \* history: payload pointer -> the word its first len bytes hold

vars == <<mem, brk, segList, heapStart, err, live, content>>

Heap == [mem |-> mem, brk |-> brk, seg |-> segList, start |-> heapStart, err |-> err]

Holding == DOMAIN live
\* f without the entry of p, and f with p mapped to n
Drop(f, p) == [q \in DOMAIN f \ {p} |-> f[q]]
With(f, p, n) == [q \in DOMAIN f \cup {p} |-> IF q = p THEN n ELSE f[q]]

\* the word the client writes into each word of the payload at p
ClientData(p) == [data |-> p]
\* a payload whose first len bytes hold word w
Holds(w, len) == [w |-> w, len |-> len]

\* the state after a call that left h, with the client holding newLive
\* whose payloads hold newContent
Commit(h, newLive, newContent) ==
  IF h.err = "none"
  THEN /\ mem' = h.mem /\ brk' = h.brk /\ segList' = h.seg
       /\ heapStart' = h.start /\ err' = "none" /\ live' = newLive
       /\ content' = newContent
  ELSE /\ err' = h.err
       /\ UNCHANGED <<mem, brk, segList, heapStart, live, content>>

Init ==
  /\ mem = [a \in Addr |-> DataWord]
  /\ brk = 0
  /\ segList = [i \in Segs |-> NULL]
  /\ heapStart = NULL
  /\ err = "none"
  /\ live = [p \in {} |-> 0]
  /\ content = [p \in {} |-> Holds(DataWord, 0)]

(***************************************************************************)
(* The API calls.                                                          *)
(***************************************************************************)
MmInit ==
  /\ err = "none" /\ heapStart = NULL /\ brk = 0
  /\ Commit(mm_init(Heap), live, content)

\* the client writes its n bytes into a block malloc returned
MallocReturned(r, n) ==
  IF r.bp = NULL THEN Commit(r.st, live, content)
  ELSE Commit(Fill(r.st, r.bp, n, ClientData(r.bp)), With(live, r.bp, n),
              With(content, r.bp, Holds(ClientData(r.bp), n)))

Malloc(n) ==
  /\ err = "none"
  /\ MallocReturned(malloc(Heap, n), n)

Free(p) ==
  /\ err = "none"
  /\ Commit(free(Heap, p), Drop(live, p), Drop(content, p))

\* realloc(p, n) returned r: p is given up unless the call failed; the new
\* block holds what the first n bytes of p held (nothing for p = NULL)
ReallocReturned(r, p, n) ==
  LET moved == IF p = NULL THEN Holds(DataWord, 0)
               ELSE Holds(content[p].w, IF n < content[p].len THEN n ELSE content[p].len)
  IN  IF n = 0 THEN Commit(r.st, Drop(live, p), Drop(content, p))
      ELSE IF r.bp = NULL THEN Commit(r.st, live, content)
      ELSE Commit(r.st, With(Drop(live, p), r.bp, n), With(Drop(content, p), r.bp, moved))

Realloc(p, n) ==
  /\ err = "none"
  /\ ReallocReturned(realloc(Heap, p, n), p, n)

\* calloc returned r: the first n bytes are zero
\* (n is the true product elements * size: the client asked for that many
\* bytes, whatever size_t makes of it)
CallocReturned(r, n) ==
  IF r.bp = NULL THEN Commit(r.st, live, content)
  ELSE Commit(r.st, With(live, r.bp, n), With(content, r.bp, Holds(ZeroWord, n)))

Calloc(k, n) ==
  /\ err = "none"
  /\ CallocReturned(calloc(Heap, k, n), k * n)

Next ==
  \/ MmInit
  \/ \E n \in Requests : Malloc(n)
  \/ \E p \in Holding \cup {NULL} : Free(p)
  \/ \E p \in Holding \cup {NULL}, n \in ReallocRequests : Realloc(p, n)
  \/ \E a \in CallocArgs : Calloc(a[1], a[2])

Spec == Init /\ [][Next]_vars

(***************************************************************************)
(* Views of the heap used by the properties.                               *)
(***************************************************************************)
RECURSIVE WalkFrom(_, _)
\* the implicit list from block b: the headers up to one of size 0
WalkFrom(b, fuel) ==
  IF fuel = 0 \/ ~IsTag(Word(Heap, b)) \/ get_size(Heap, b) = 0 THEN <<b>>
  ELSE <<b>> \o WalkFrom(b + get_size(Heap, b), fuel - 1)

Walk == WalkFrom(heapStart, Fuel)
\* the blocks of the implicit list (the last entry is where the walk stopped)
HeapBlocks == {Walk[k] : k \in 1 .. (Len(Walk) - 1)}
FreeBlocks == {b \in HeapBlocks : ~get_alloc(Heap, b)}

RECURSIVE ListFrom(_, _)
ListFrom(b, fuel) ==
  IF b = NULL \/ fuel = 0 THEN <<>> ELSE <<b>> \o ListFrom(NextOf(Heap, b), fuel - 1)

SegChain(i) == ListFrom(segList[i], Fuel + 1)
SegBlocks(i) == {SegChain(i)[k] : k \in 1 .. Len(SegChain(i))}
\* the extent [lo, hi) of the block holding payload p, by its header
Extent(p) == [lo |-> p - wsize, hi |-> p - wsize + get_size(Heap, p - wsize)]

(***************************************************************************)
(* Properties.                                                             *)
(***************************************************************************)
Words == [size : Nat, alloc : BOOLEAN, pa : BOOLEAN]
           \cup [ptr : Addr \cup {NULL, Wild}] \cup [data : Addr]

TypeOK ==
  /\ mem \in [Addr -> Words]
  /\ brk \in 0 .. MAX_HEAP /\ brk % dsize = 0
  /\ segList \in [Segs -> Addr \cup {NULL, Wild}]
  /\ heapStart \in Addr \cup {NULL}
  /\ err \in {"none", "null_deref", "wild_ptr", "bad_tag", "hang", "assert"}
  /\ DOMAIN live \subseteq Addr
  /\ \A p \in DOMAIN live : live[p] \in 1 .. (SizeMod - 1)
  /\ DOMAIN content = DOMAIN live

\* The allocator never crashes or hangs under valid calls: no NULL or wild
\* pointer is dereferenced, no non-tag word is decoded as a boundary tag and
\* every list walk of removeFromFree/find_fit ends (mm.c as a whole).
NoFault == err = "none"

\* Every pointer the client holds is the payload of a block whose header
\* says allocated, that is at least the request plus the header
\* (malloc's asize), 16-aligned, inside the heap, and overlaps no other
\* block the client holds (malloc, split_block, coalesce_block).
LiveBlocksIntact ==
  /\ \A p \in Holding :
       /\ p % dsize = 0
       /\ IsTag(Word(Heap, p - wsize)) /\ get_alloc(Heap, p - wsize)
       /\ get_size(Heap, p - wsize) >= live[p] + wsize
       /\ heapStart <= Extent(p).lo /\ Extent(p).hi <= brk - wsize
  /\ \A p, q \in Holding :
       p # q => Extent(p).hi <= Extent(q).lo \/ Extent(q).hi <= Extent(p).lo

\* Walking the heap by header sizes from heap_start ends exactly at the
\* epilogue word at the break, every block on the way is a 16-multiple of
\* at least min_block_size with a 16-aligned payload, and every block the
\* client holds is one of them (extend_heap, split_block, coalesce_block).
ImplicitListSound ==
  heapStart # NULL =>
    /\ Walk[Len(Walk)] = brk - wsize
    /\ IsTag(Word(Heap, brk - wsize))
    /\ \A b \in HeapBlocks :
         /\ b % dsize = wsize
         /\ get_size(Heap, b) % dsize = 0
         /\ get_size(Heap, b) >= min_block_size
    /\ {p - wsize : p \in Holding} \subseteq HeapBlocks

\* The segregated lists hold exactly the free blocks of the heap, each in
\* the list of its size class, every list ends in NULL without repeating a
\* block, and in lists 1.. each block's prev is the block before it
\* (addToFree, removeFromFree, coalesce_block, split_block, malloc).
FreeListsMatchHeap ==
  heapStart # NULL =>
    /\ \A i \in Segs :
         /\ Len(SegChain(i)) <= Fuel
         /\ Cardinality(SegBlocks(i)) = Len(SegChain(i))
         /\ \A b \in SegBlocks(i) : findIndex(get_size(Heap, b)) = i
    /\ UNION {SegBlocks(i) : i \in Segs} = FreeBlocks
    /\ \A i \in Segs \ {0} : \A k \in 1 .. Len(SegChain(i)) :
         PrevOf(Heap, SegChain(i)[k]) = IF k = 1 THEN NULL ELSE SegChain(i)[k - 1]

\* Every free block larger than a mini block ends in a footer equal to its
\* header, so find_prev can step over it (write_block, coalesce_block).
BoundaryTagsMatch ==
  \A b \in FreeBlocks :
    get_size(Heap, b) > min_block_size =>
      Word(Heap, b + get_size(Heap, b) - wsize) = Word(Heap, b)

\* Coalescing is eager: no free block is followed by another free block
\* (spec 3, invariant 5; coalesce_block).
NoAdjacentFree ==
  \A b \in FreeBlocks : find_next(Heap, b) \notin FreeBlocks

\* Every header's prev_alloc bit tells whether the block before it is
\* allocated (spec 3, invariant 4; free, coalesce_block, split_block).
PrevAllocTruthful ==
  \A k \in 1 .. (Len(Walk) - 1) :
    getPrevAlloc(Heap, Walk[k + 1]) = get_alloc(Heap, Walk[k])

\* No call writes into the payload of a block the client still holds after
\* the call: allocator metadata (headers, footers, list pointers) never
\* lands in live data (write_block, coalesce_block, split_block, the lists).
LivePayloadPreserved ==
  [][\A p \in Holding \cap DOMAIN live' :
       \A a \in Addr : p <= a /\ a < Extent(p).hi => mem'[a] = mem[a]]_vars

\* Every word of a held payload that lies wholly within the bytes the
\* client wrote (malloc), that realloc carried over (the first
\* min(n, payload_size) bytes of the old block, copied before the old
\* block is freed) or that calloc zeroed, still holds that value
\* (spec 4.6: realloc keeps the first bytes, calloc returns zeroed memory;
\* realloc, calloc, and every call that writes metadata near live blocks).
ContentsPreserved ==
  \A p \in Holding : \A a \in Addr :
    p <= a /\ a + wsize <= p + content[p].len => mem[a] = content[p].w

\* spec 4.4's find-fit, declaratively: of the first list from asize's class
\* on that has a block of at least asize, the first FitProbes such blocks
\* in list order are the candidates, and the first of least size is taken
FitCandidates(i, asize) ==
  LET c == SelectSeq(SegChain(i), LAMBDA b : asize <= get_size(Heap, b))
  IN  SubSeq(c, 1, IF Len(c) < FitProbes THEN Len(c) ELSE FitProbes)

RefFit(asize) ==
  LET cls == {i \in findIndex(asize) .. (NUM_SEGS - 1) : FitCandidates(i, asize) # <<>>}
  IN  IF cls = {} THEN NULL
      ELSE LET c    == FitCandidates(Min(cls), asize)
               best == Min({get_size(Heap, c[k]) : k \in 1 .. Len(c)})
           IN  c[Min({k \in 1 .. Len(c) : get_size(Heap, c[k]) = best})]

\* the adjusted sizes malloc searches for
FitSizes == {AdjustSize(n) : n \in Requests \ {0}}

\* For every size malloc searches for, find_fit's scan (a probe budget
\* shared across lists, first candidate then strictly smaller ones) returns
\* exactly the block of spec 4.4's bounded best-of-k search, and its walk
\* ends (find_fit, findIndex).
FindFitBestOfK ==
  heapStart # NULL =>
    \A a \in FitSizes : find_fit(Heap, a) = [fit |-> RefFit(a), hang |-> FALSE]

\* The heap checker mm_checkheap, which a DEBUG build asserts on entry to
\* and exit from malloc and free, accepts every heap that valid calls
\* reach: spec.md says it fails only on an inconsistent heap, e.g. after a
\* precondition violation (mm_checkheap, the segment loop and heap walk).
CheckheapAccepts == heapStart # NULL => mm_checkheap(Heap).ok

(***************************************************************************)
(* Refinement: the client's view of mm.c, the blocks it holds with the     *)
(* sizes their headers give, is a behaviour of the abstract allocator.     *)
(***************************************************************************)
ClientSizes ==
  (Requests \cup ReallocRequests \cup {a[1] * a[2] : a \in CallocArgs}) \ {0}

Abstract == INSTANCE MMAlloc WITH
              HeapBytes <- MAX_HEAP,
              Sizes <- ClientSizes,
              live <- live,
              extent <- [p \in Holding |-> get_size(Heap, p - wsize)]

\* Every call of mm.c is a step of the abstract allocator: a returned block
\* is fresh, fits the request and overlaps no held block, free returns just
\* the block freed, and a held block's header keeps its size while held
\* (malloc, free, realloc, calloc).
AllocSpec == Abstract!Spec
=============================================================================

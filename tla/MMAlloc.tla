------------------------------- MODULE MMAlloc -------------------------------
(***************************************************************************)
(* What the allocator promises its client, whatever its layout: a call     *)
(* that returns a pointer hands out a 16-aligned block inside the heap     *)
(* that holds the request plus its header and overlaps no block the client *)
(* holds; free gives back exactly the block freed; a block the client      *)
(* holds keeps its place and size until it is freed or moved by realloc.   *)
(* Any call may also fail (return NULL) and change nothing the client      *)
(* sees.  MM.tla maps its state onto this one and checks that mm.c        *)
(* implements it.                                                          *)
(***************************************************************************)
EXTENDS Integers

CONSTANTS
  HeapBytes,  \* the heap's capacity in bytes
  Sizes       \* the nonzero request sizes the client makes

VARIABLES
  live,       \* payload pointer -> bytes requested
  extent      \* payload pointer -> bytes of its block, header included

vars == <<live, extent>>

Payloads == {p \in 16 .. HeapBytes : p % 16 = 0}
BlockSizes == {s \in 16 .. HeapBytes : s % 16 = 0}

\* the block [p - 8, p - 8 + sz) overlaps none of the blocks in held
Disjoint(p, sz, held) ==
  \A q \in held : p - 8 + sz <= q - 8 \/ q - 8 + extent[q] <= p - 8

\* a block the allocator may hand out for a request of n bytes
Fits(p, sz, n, held) ==
  /\ sz >= n + 8
  /\ p - 8 + sz <= HeapBytes
  /\ Disjoint(p, sz, held)

Give(p, sz, n, held) ==
  /\ live' = [q \in held \cup {p} |-> IF q = p THEN n ELSE live[q]]
  /\ extent' = [q \in held \cup {p} |-> IF q = p THEN sz ELSE extent[q]]

Init == live = [p \in {} |-> 0] /\ extent = [p \in {} |-> 0]

\* malloc or calloc returns a new block
Allocate(p, sz, n) ==
  /\ p \notin DOMAIN live
  /\ Fits(p, sz, n, DOMAIN live)
  /\ Give(p, sz, n, DOMAIN live)

\* free(p)
Release(p) ==
  /\ p \in DOMAIN live
  /\ live' = [q \in DOMAIN live \ {p} |-> live[q]]
  /\ extent' = [q \in DOMAIN live \ {p} |-> extent[q]]

\* realloc(p, n) returns a block for n bytes in place of p's
Move(p, q, sz, n) ==
  /\ p \in DOMAIN live
  /\ Fits(q, sz, n, DOMAIN live \ {p})
  /\ Give(q, sz, n, DOMAIN live \ {p})

Next ==
  \/ \E p \in Payloads, sz \in BlockSizes, n \in Sizes : Allocate(p, sz, n)
  \/ \E p \in DOMAIN live : Release(p)
  \/ \E p \in DOMAIN live, q \in Payloads, sz \in BlockSizes, n \in Sizes :
       Move(p, q, sz, n)

Spec == Init /\ [][Next]_vars
=============================================================================

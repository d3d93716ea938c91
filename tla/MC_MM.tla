------------------------------- MODULE MC_MM -------------------------------
(***************************************************************************)
(* Model-checking instances of MM: a 128-byte heap array (16 words),       *)
(* 48-byte chunks, four size classes, 16-bit size_t.                       *)
(***************************************************************************)
EXTENDS MM

\* malloc and free: a request of each size class, one bigger than a chunk
Core_Requests == {0, 1, 24, 56}
Core_ReallocRequests == {}
Core_CallocArgs == {}

\* realloc and calloc next to malloc and free; 3 * 21846 = 65538 wraps to
\* 2, a nonzero size malloc would serve
Api_Requests == {0, 1, 40}
Api_ReallocRequests == {0, 24}
Api_CallocArgs == {<<2, 8>>, <<3, 21846>>}
\* SIZE_MAX - 8: size + wsize is 65535, round_up's +15 wraps
Overflow_Requests == {1, 65527}

=============================================================================

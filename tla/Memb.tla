-------------------------------- MODULE Memb --------------------------------
(***************************************************************************)
(* The memory block allocator (core/lib/memb.c): count[b] is the reference *)
(* count of block b.                                                       *)
(***************************************************************************)
EXTENDS Integers

\* The block that memb_alloc returns, or NULL.
FreeBlock(count) ==
  IF \A b \in DOMAIN count : count[b] # 0
    THEN -1
    ELSE CHOOSE b \in DOMAIN count :
           count[b] = 0 /\ \A c \in DOMAIN count : count[c] = 0 => b <= c

\* memb_alloc
Alloc(count) == [b \in DOMAIN count |-> IF b = FreeBlock(count) THEN count[b] + 1 ELSE count[b]]

\* memb_free: a block that is free stays free.
Free(count, b) ==
  [c \in DOMAIN count |-> IF c = b /\ count[c] > 0 THEN count[c] - 1 ELSE count[c]]
=============================================================================

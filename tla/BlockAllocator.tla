--------------------------- MODULE BlockAllocator ---------------------------
(***************************************************************************)
(* What a memory allocator promises its callers, and nothing about how it  *)
(* keeps the promise: a caller that asks for n bytes is given n bytes that *)
(* lie inside the arena and that no other caller holds, and keeps them     *)
(* until it gives them back.  kernel/heap.cpp implements this (see Heap).  *)
(***************************************************************************)
EXTENDS Integers

CONSTANTS Lo, Hi,       \* the arena is the byte range Lo .. Hi-1
          Sizes         \* sizes callers may ask for

VARIABLE owned          \* pointer handed out |-> bytes asked for

Init == owned = [p \in {} |-> 0]

\* The n bytes at p are inside the arena and touch no block in use.  Two
\* blocks never have the same address, not even empty ones.
Available(p, n) ==
    /\ Lo <= p /\ p + n <= Hi
    /\ \A q \in DOMAIN owned : /\ p # q
                               /\ p + n <= q \/ q + owned[q] <= p

Alloc(n) ==
    \E p \in Lo .. Hi :
        /\ Available(p, n)
        /\ owned' = [q \in DOMAIN owned \cup {p} |->
                        IF q = p THEN n ELSE owned[q]]

Free(p) == owned' = [q \in DOMAIN owned \ {p} |-> owned[q]]

Next == \/ \E n \in Sizes : Alloc(n)
        \/ \E p \in DOMAIN owned : Free(p)

Spec == Init /\ [][Next]_owned
=============================================================================

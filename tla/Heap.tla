-------------------------------- MODULE Heap --------------------------------
(***************************************************************************)
(* The kernel heap of kernel/heap.cpp: one arena of memory cut into chunks *)
(* that form a singly linked list.  Each chunk starts with a header (size, *)
(* is_free, next) and the bytes after it are handed to callers.  kmalloc   *)
(* takes the first free chunk that is large enough and splits it when the  *)
(* rest can hold another header; kfree marks the chunk free and then walks *)
(* the whole list and merges neighbours that are both free.                *)
(*                                                                         *)
(* Both loops are modelled one iteration per step, so that the invariant   *)
(* of each loop is an invariant of the module.  The heap has no lock and   *)
(* needs none: no interrupt handler calls it and threads switch only in    *)
(* switch_task, so one operation runs at a time.                           *)
(*                                                                         *)
(* Addresses and sizes are natural numbers.  In the code they are 32 bits  *)
(* wide and do not wrap: the arena ends at 4MB, and the sum size + header  *)
(* + 8 of the split test is only formed after size has been found to be at *)
(* most the size of a chunk.                                               *)
(***************************************************************************)
EXTENDS Integers

CONSTANTS HeapStart,     \* address of the first header (0x300000 at boot)
          ArenaBytes,    \* initial_pages * PAGE_SIZE (1MB at boot)
          HeaderBytes,   \* sizeof(struct heap_chunk_header), 9 or more
          MinPayload,    \* the 8 spare bytes a split must leave
          RequestSizes   \* sizes callers ask kmalloc for

NULL == 0                \* nullptr

ASSUME HeapAssumption ==
    /\ HeapStart \in Nat \ {NULL}
    /\ HeaderBytes \in Nat \ {0}
    /\ MinPayload \in Nat
    /\ ArenaBytes \in Nat /\ ArenaBytes >= HeaderBytes
    /\ RequestSizes \subseteq Nat

VARIABLES chunk,     \* address of a header in the list |-> the header
          phase,     \* what is running: "idle", "scan" (kmalloc), "merge" (kfree)
          current,   \* the loop's chunk pointer
          request,   \* the size kmalloc was called with
          owned      \* pointer a caller holds |-> the size it asked for

vars == <<chunk, phase, current, request, owned>>

HeapEnd == HeapStart + ArenaBytes

\* One past the last byte of the chunk whose header is at a.
ChunkEnd(a) == a + HeaderBytes + chunk[a].size

-----------------------------------------------------------------------------
(* init_heap: one free chunk that spans the arena.                         *)

Init ==
    /\ chunk = [a \in {HeapStart} |-> [size    |-> ArenaBytes - HeaderBytes,
                                       is_free |-> TRUE,
                                       next    |-> NULL]]
    /\ phase = "idle"
    /\ current = NULL
    /\ request = 0
    /\ owned = [p \in {} |-> 0]

-----------------------------------------------------------------------------
(* kmalloc.                                                                *)

Fits_IgnoresInUse(a, n) == chunk[a].size >= n
Fits_Strict(a, n) == chunk[a].is_free /\ chunk[a].size > n
Fits(a, n) == chunk[a].is_free /\ chunk[a].size >= n

\* The chunk has room for n bytes, another header and 8 bytes after it.
WorthSplitting(a, n) == chunk[a].size >= n + HeaderBytes + MinPayload

\* chunk after the block at a gave its tail, past n bytes, to a new free chunk.
SplitAt_ForgetsHeader(a, n) ==
    LET split == a + HeaderBytes + n IN
    [x \in DOMAIN chunk \cup {split} |->
        CASE x = split -> [size    |-> chunk[a].size - n,
                           is_free |-> TRUE,
                           next    |-> chunk[a].next]
          [] x = a     -> [size |-> n, is_free |-> FALSE, next |-> split]
          [] OTHER     -> chunk[x]]
SplitAt(a, n) ==
    LET split == a + HeaderBytes + n IN
    [x \in DOMAIN chunk \cup {split} |->
        CASE x = split -> [size    |-> chunk[a].size - n - HeaderBytes,
                           is_free |-> TRUE,
                           next    |-> chunk[a].next]
          [] x = a     -> [size |-> n, is_free |-> FALSE, next |-> split]
          [] OTHER     -> chunk[x]]

Kmalloc(n) ==
    /\ phase = "idle"
    /\ phase' = "scan"
    /\ current' = HeapStart
    /\ request' = n
    /\ UNCHANGED <<chunk, owned>>

ScanNext ==
    /\ phase = "scan"
    /\ current # NULL
    /\ ~Fits(current, request)
    /\ current' = chunk[current].next
    /\ UNCHANGED <<chunk, phase, request, owned>>

\* A chunk fits: split it or take it whole, and return the address past its
\* header to the caller.
ScanTake ==
    /\ phase = "scan"
    /\ current # NULL
    /\ Fits(current, request)
    /\ chunk' = IF WorthSplitting(current, request)
                THEN SplitAt(current, request)
                ELSE [chunk EXCEPT ![current].is_free = FALSE]
    /\ owned' = [p \in DOMAIN owned \cup {current + HeaderBytes} |->
                    IF p = current + HeaderBytes THEN request ELSE owned[p]]
    /\ phase' = "idle"
    /\ UNCHANGED <<current, request>>

\* The list ended: kmalloc returns nullptr.
ScanFail ==
    /\ phase = "scan"
    /\ current = NULL
    /\ phase' = "idle"
    /\ UNCHANGED <<chunk, current, request, owned>>

-----------------------------------------------------------------------------
(* kfree.  Callers free what kmalloc gave them, once.                      *)

Kfree(p) ==
    /\ phase = "idle"
    /\ phase' = "merge"
    /\ chunk' = [chunk EXCEPT ![p - HeaderBytes].is_free = TRUE]
    /\ owned' = [q \in DOMAIN owned \ {p} |-> owned[q]]
    /\ current' = HeapStart
    /\ UNCHANGED request

BothFree(a) == chunk[a].is_free /\ chunk[chunk[a].next].is_free

\* The chunk after a is absorbed, its header with it; the loop stays at a
\* and tests the grown chunk again.
MergeAbsorb_Advances ==
    /\ phase = "merge"
    /\ current # NULL /\ chunk[current].next # NULL
    /\ BothFree(current)
    /\ LET gone == chunk[current].next IN
         chunk' = [x \in DOMAIN chunk \ {gone} |->
                     IF x = current
                     THEN [size    |-> chunk[x].size + HeaderBytes + chunk[gone].size,
                           is_free |-> chunk[x].is_free,
                           next    |-> chunk[gone].next]
                     ELSE chunk[x]]
    /\ current' = chunk'[current].next
    /\ UNCHANGED <<phase, request, owned>>
MergeAbsorb ==
    /\ phase = "merge"
    /\ current # NULL /\ chunk[current].next # NULL
    /\ BothFree(current)
    /\ LET gone == chunk[current].next IN
         chunk' = [x \in DOMAIN chunk \ {gone} |->
                     IF x = current
                     THEN [size    |-> chunk[x].size + HeaderBytes + chunk[gone].size,
                           is_free |-> chunk[x].is_free,
                           next    |-> chunk[gone].next]
                     ELSE chunk[x]]
    /\ UNCHANGED <<phase, current, request, owned>>

MergeNext_FromStart ==
    /\ phase = "merge"
    /\ current # NULL /\ chunk[current].next # NULL
    /\ ~BothFree(current)
    /\ current' = HeapStart
    /\ UNCHANGED <<chunk, phase, request, owned>>
MergeNext ==
    /\ phase = "merge"
    /\ current # NULL /\ chunk[current].next # NULL
    /\ ~BothFree(current)
    /\ current' = chunk[current].next
    /\ UNCHANGED <<chunk, phase, request, owned>>

\* The last chunk has no neighbour to merge with: kfree returns.
MergeDone ==
    /\ phase = "merge"
    /\ current # NULL => chunk[current].next = NULL
    /\ phase' = "idle"
    /\ UNCHANGED <<chunk, current, request, owned>>

-----------------------------------------------------------------------------
LoopStep == ScanNext \/ ScanTake \/ ScanFail \/ MergeAbsorb \/ MergeNext \/ MergeDone

Next ==
    \/ \E n \in RequestSizes : Kmalloc(n)
    \/ \E p \in DOMAIN owned : Kfree(p)
    \/ LoopStep

\* The CPU keeps executing the loop it is in.
Spec == Init /\ [][Next]_vars /\ WF_vars(LoopStep)

-----------------------------------------------------------------------------
(* Properties.                                                             *)

Header == [size : Nat, is_free : BOOLEAN, next : Nat]

\* The variables hold values of the C++ types they stand for.
TypeOK ==
    /\ DOMAIN chunk \subseteq Nat
    /\ chunk \in [DOMAIN chunk -> Header]
    /\ phase \in {"idle", "scan", "merge"}
    /\ current \in DOMAIN chunk \cup {NULL}
    /\ request \in Nat
    /\ DOMAIN owned \subseteq Nat
    /\ owned \in [DOMAIN owned -> Nat]

InArena ==
    /\ HeapStart \in DOMAIN chunk
    /\ \A a \in DOMAIN chunk : HeapStart <= a /\ ChunkEnd(a) <= HeapEnd

NoOverlap == \A a, b \in DOMAIN chunk : a < b => ChunkEnd(a) <= b

LinkedInOrder ==
    \A a \in DOMAIN chunk :
        \/ /\ ChunkEnd(a) = HeapEnd
           /\ chunk[a].next = NULL
        \/ /\ ChunkEnd(a) \in DOMAIN chunk
           /\ chunk[a].next = ChunkEnd(a)

\* The chunks tile the arena: they do not overlap, none leaves the arena, and
\* each one's next pointer is the address right after it, so that no byte is
\* lost between two chunks and no chunk is unlinked (the splitting arithmetic
\* of kmalloc and the absorbing arithmetic of kfree).
TilesArena == InArena /\ NoOverlap /\ LinkedInOrder

\* A chunk is in use exactly when a caller holds the pointer past its header,
\* and it is at least as large as what the caller asked for.
OwnedIsBacked ==
    /\ \A p \in DOMAIN owned :
          /\ p - HeaderBytes \in DOMAIN chunk
          /\ ~chunk[p - HeaderBytes].is_free
          /\ owned[p] <= chunk[p - HeaderBytes].size
    /\ \A a \in DOMAIN chunk : ~chunk[a].is_free => a + HeaderBytes \in DOMAIN owned

\* kmalloc returns nullptr only when no free chunk is large enough ("Out of
\* memory panic fallback handle", heap.cpp:63): the list walk skips none.
NullMeansNoFit ==
    (phase = "scan" /\ current = NULL) =>
        \A a \in DOMAIN chunk : chunk[a].is_free => chunk[a].size < request

\* Outside the merging loop no two neighbours are both free ("prevents memory
\* from getting fragmented into tiny, unusable holes", heap.cpp:82); inside
\* it, none of those the loop has passed.
Coalesced ==
    \A a \in DOMAIN chunk :
        (chunk[a].next # NULL /\ (phase = "merge" => current # NULL /\ a < current)) =>
            ~(chunk[a].is_free /\ chunk[chunk[a].next].is_free)

\* When every block has been given back the arena is one free chunk again.
AllFreedIsOneChunk ==
    (phase = "idle" /\ DOMAIN owned = {}) => DOMAIN chunk = {HeapStart}

\* Every kmalloc and every kfree returns: the list never becomes a cycle and
\* the merging loop, which does not advance when it merges, always ends.
OperationReturns == (phase # "idle") ~> (phase = "idle")

\* The heap keeps the promise of an allocator.
Abstract == INSTANCE BlockAllocator
                WITH Lo <- HeapStart, Hi <- HeapEnd, Sizes <- RequestSizes
RefinesAllocator == Abstract!Spec
=============================================================================

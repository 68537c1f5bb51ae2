---------------------------- MODULE MemoryProofs ----------------------------
(***************************************************************************)
(* Proofs about the two allocators of the kernel: the heap of module Heap, *)
(* for every arena, header size and set of requests, and, in the second    *)
(* half, the page allocator of module Pmm, for every size of the bitmap,   *)
(* of the memory and of the reserved area.                                 *)
(*                                                                         *)
(* The invariant of the heap is what the runs check, and what each of the  *)
(* two loops has established about the chunks it has passed.  That of the  *)
(* pages needs to know what a search has passed only for its nullptr.      *)
(***************************************************************************)
EXTENDS Heap, Pmm, FiniteSetTheorems, TLAPS

\* The chunks the scan of kmalloc has passed do not fit the request, which is
\* one that a caller made.
ScannedTooSmall ==
    phase = "scan" =>
        /\ request \in RequestSizes
        /\ \A a \in DOMAIN chunk :
              (current = NULL \/ a < current) =>
                  ~(chunk[a].is_free /\ chunk[a].size >= request)

\* The merging loop leaves before its pointer becomes null.
MergesAChunk == phase = "merge" => current \in DOMAIN chunk

IInv ==
    /\ TypeOK
    /\ TilesArena
    /\ OwnedIsBacked
    /\ ScannedTooSmall
    /\ Coalesced
    /\ MergesAChunk

-----------------------------------------------------------------------------
(* Lemmas about a tiled arena.                                             *)

\* No address below the end of a chunk and above its start is a chunk, and
\* what follows the last chunk is the end of the arena.
LEMMA ChunkGaps ==
    ASSUME TypeOK, TilesArena, HeapAssumption,
           NEW a \in DOMAIN chunk, NEW b \in DOMAIN chunk
    PROVE  /\ a \in Nat /\ b \in Nat /\ a # NULL /\ b # NULL
           /\ chunk[a].size \in Nat /\ chunk[a].next \in Nat
           /\ chunk[a].is_free \in BOOLEAN
           /\ ChunkEnd(a) \in Nat /\ ChunkEnd(a) > a
           /\ b < ChunkEnd(a) => b <= a
           /\ chunk[a].next = NULL => b <= a
           /\ chunk[a].next # NULL => /\ chunk[a].next = ChunkEnd(a)
                                      /\ chunk[a].next \in DOMAIN chunk
  <1>1. /\ a \in Nat /\ b \in Nat
        /\ chunk[a] \in Header /\ chunk[b] \in Header
    BY DEF TypeOK
  <1>2. /\ chunk[a].size \in Nat /\ chunk[a].next \in Nat
        /\ chunk[a].is_free \in BOOLEAN /\ chunk[b].size \in Nat
    BY <1>1 DEF Header
  <1>3. a # NULL /\ b # NULL
    BY <1>1 DEF HeapAssumption, TilesArena, InArena, NULL
  <1>4. /\ ChunkEnd(a) \in Nat /\ ChunkEnd(a) > a
        /\ ChunkEnd(b) \in Nat /\ ChunkEnd(b) > b
    BY <1>1, <1>2 DEF ChunkEnd, HeapAssumption
  <1>5. b < ChunkEnd(a) => b <= a
    BY <1>1, <1>4 DEF TilesArena, NoOverlap
  <1>6. chunk[a].next # NULL => /\ chunk[a].next = ChunkEnd(a)
                                /\ chunk[a].next \in DOMAIN chunk
    BY DEF TilesArena, LinkedInOrder
  <1>7. ASSUME chunk[a].next = NULL PROVE b <= a
    <2>1. ChunkEnd(a) = HeapEnd
      BY <1>1, <1>4, <1>7 DEF TilesArena, LinkedInOrder, NULL
    <2>2. ChunkEnd(b) <= HeapEnd
      BY DEF TilesArena, InArena
    <2>3. HeapEnd \in Nat
      BY DEF HeapEnd, HeapAssumption
    <2> QED BY <1>1, <1>4, <1>5, <2>1, <2>2, <2>3
  <1> QED BY <1>1, <1>2, <1>3, <1>4, <1>5, <1>6, <1>7

-----------------------------------------------------------------------------
(* The invariant holds initially and every step preserves it.              *)

LEMMA InitEstablishes ==
    ASSUME HeapAssumption, Init PROVE IInv
  <1>1. TypeOK
    BY DEF HeapAssumption, Init, TypeOK, Header, NULL
  <1>2. TilesArena
    BY DEF HeapAssumption, Init, TilesArena, InArena, NoOverlap, LinkedInOrder,
           ChunkEnd, HeapEnd, NULL
  <1> QED
    BY <1>1, <1>2 DEF HeapAssumption, Init, IInv, OwnedIsBacked, ScannedTooSmall,
           Coalesced, MergesAChunk, NULL

LEMMA KmallocPreserves ==
    ASSUME HeapAssumption, IInv, NEW n \in RequestSizes, Kmalloc(n) PROVE IInv'
  <1> USE DEF IInv, Kmalloc
  <1>1. TypeOK'
    BY DEF TypeOK, HeapAssumption, TilesArena, InArena
  <1>2. TilesArena'
    BY DEF TilesArena, InArena, NoOverlap, LinkedInOrder, ChunkEnd
  <1>3. OwnedIsBacked'
    BY DEF OwnedIsBacked
  <1>4. ScannedTooSmall'
    BY DEF ScannedTooSmall, TilesArena, InArena, HeapAssumption, TypeOK, NULL
  <1>5. Coalesced' /\ MergesAChunk'
    BY DEF Coalesced, MergesAChunk
  <1> QED BY <1>1, <1>2, <1>3, <1>4, <1>5

LEMMA ScanNextPreserves ==
    ASSUME HeapAssumption, IInv, ScanNext PROVE IInv'
  <1> USE DEF IInv, ScanNext
  <1>0. current \in DOMAIN chunk
    BY DEF TypeOK
  <1>1. TypeOK'
    BY <1>0, ChunkGaps DEF TypeOK
  <1>2. TilesArena'
    BY DEF TilesArena, InArena, NoOverlap, LinkedInOrder, ChunkEnd
  <1>3. OwnedIsBacked'
    BY DEF OwnedIsBacked
  <1>4. ScannedTooSmall'
    <2> SUFFICES ASSUME NEW a \in DOMAIN chunk, current' = NULL \/ a < current'
                 PROVE  ~(chunk[a].is_free /\ chunk[a].size >= request)
      BY DEF ScannedTooSmall
    <2>1. a <= current
      BY <1>0, ChunkGaps
    <2>2. a \in Nat /\ current \in Nat
      BY <1>0, ChunkGaps
    <2>3. CASE a = current
      BY <2>3 DEF Fits
    <2>4. CASE a < current
      BY <2>4 DEF ScannedTooSmall
    <2> QED BY <2>1, <2>2, <2>3, <2>4
  <1>5. Coalesced' /\ MergesAChunk'
    BY DEF Coalesced, MergesAChunk
  <1> QED BY <1>1, <1>2, <1>3, <1>4, <1>5

LEMMA ScanTakePreserves ==
    ASSUME HeapAssumption, IInv, ScanTake PROVE IInv'
  <1> USE DEF IInv, ScanTake
  <1> DEFINE a == current
             n == request
             split == a + HeaderBytes + n
  <1>0. /\ a \in DOMAIN chunk /\ a \in Nat /\ a # NULL
        /\ n \in Nat /\ HeaderBytes \in Nat \ {0}
        /\ chunk[a].is_free /\ chunk[a].size >= n
        /\ chunk[a].size \in Nat /\ chunk[a].next \in Nat
    BY ChunkGaps DEF TypeOK, Fits, HeapAssumption
  <1>1. OwnedIsBacked => \A p \in DOMAIN owned : p - HeaderBytes # a
    BY <1>0 DEF OwnedIsBacked
  <1>2. a + HeaderBytes \in Nat /\ (a + HeaderBytes) - HeaderBytes = a
    BY <1>0
  <1>3. CASE WorthSplitting(a, n)
    <2>0. /\ split \in Nat /\ split > a /\ split # NULL
          /\ split + HeaderBytes <= ChunkEnd(a)
          /\ chunk[a].size - n - HeaderBytes \in Nat
      BY <1>0, <1>3 DEF WorthSplitting, HeapAssumption, ChunkEnd, NULL
    <2>1. split \notin DOMAIN chunk
      <3> SUFFICES ASSUME split \in DOMAIN chunk PROVE FALSE
        OBVIOUS
      <3> split < ChunkEnd(a)
        BY <1>0, <2>0, ChunkGaps
      <3> split <= a
        BY <1>0, ChunkGaps
      <3> QED BY <1>0, <2>0
    <2>2. /\ DOMAIN chunk' = DOMAIN chunk \cup {split}
          /\ chunk'[split] = [size    |-> chunk[a].size - n - HeaderBytes,
                              is_free |-> TRUE,
                              next    |-> chunk[a].next]
          /\ chunk'[a] = [size |-> n, is_free |-> FALSE, next |-> split]
          /\ \A x \in DOMAIN chunk \ {a} : chunk'[x] = chunk[x]
          /\ chunk' = [x \in DOMAIN chunk' |-> chunk'[x]]
      BY <1>0, <1>3, <2>0, <2>1 DEF SplitAt
    <2>3. /\ ChunkEnd(a)' = split
          /\ ChunkEnd(split)' = ChunkEnd(a)
          /\ \A x \in DOMAIN chunk \ {a} : ChunkEnd(x)' = ChunkEnd(x)
      BY <1>0, <2>0, <2>2 DEF ChunkEnd
    <2>4. TypeOK'
      <3>1. \A x \in DOMAIN chunk' : chunk'[x] \in Header
        <4>1. chunk'[split] \in Header
          <5> HIDE DEF IInv, ScanTake, a, n, split
          <5> QED BY <1>0, <2>0, <2>2 DEF Header
        <4>2. chunk'[a] \in Header
          <5> HIDE DEF IInv, ScanTake, a, n, split
          <5> QED BY <1>0, <2>0, <2>2 DEF Header
        <4>3. \A x \in DOMAIN chunk \ {a} : chunk'[x] \in Header
          BY <2>2 DEF TypeOK
        <4> QED BY <2>2, <4>1, <4>2, <4>3
      <3>2. DOMAIN chunk' \subseteq Nat
        BY <2>0, <2>2 DEF TypeOK
      <3>3. chunk' \in [DOMAIN chunk' -> Header]
        BY <2>2, <3>1
      <3>4. DOMAIN owned' \subseteq Nat /\ owned' \in [DOMAIN owned' -> Nat]
        BY <1>0, <1>2 DEF TypeOK
      <3>5. current' \in DOMAIN chunk' \cup {NULL} /\ request' \in Nat
        BY <2>2 DEF TypeOK
      <3> QED BY <3>2, <3>3, <3>4, <3>5 DEF TypeOK
    <2>5. TilesArena'
      <3>1. InArena'
        <4>1. ChunkEnd(a) <= HeapEnd /\ HeapStart <= a /\ HeapStart \in DOMAIN chunk
          BY <1>0 DEF TilesArena, InArena
        <4>2. HeapEnd \in Nat /\ HeapStart \in Nat /\ ChunkEnd(a) \in Nat
          BY <1>0, ChunkGaps DEF HeapEnd, HeapAssumption
        <4>3. HeapEnd' = HeapEnd
          BY DEF HeapEnd
        <4>4. ASSUME NEW x \in DOMAIN chunk'
              PROVE  HeapStart <= x /\ ChunkEnd(x)' <= HeapEnd
          <5>1. CASE x = a
            BY <1>0, <2>0, <2>3, <4>1, <4>2, <5>1
          <5>2. CASE x = split
            BY <1>0, <2>0, <2>3, <4>1, <4>2, <5>2
          <5>3. CASE x \in DOMAIN chunk \ {a}
            BY <2>3, <5>3 DEF TilesArena, InArena
          <5> QED BY <2>2, <5>1, <5>2, <5>3
        <4> QED BY <2>2, <4>1, <4>3, <4>4 DEF InArena
      <3>2. NoOverlap'
        <4> SUFFICES ASSUME NEW x \in DOMAIN chunk', NEW y \in DOMAIN chunk', x < y
                     PROVE  ChunkEnd(x)' <= y
          BY DEF NoOverlap
        <4>1. /\ ChunkEnd(a) \in Nat
              /\ \A z \in DOMAIN chunk : z \in Nat /\ ChunkEnd(z) \in Nat
          BY <1>0, ChunkGaps
        <4>2. CASE x = a
          <5>1. CASE y = split
            BY <2>3, <4>1, <4>2, <5>1, <2>0
          <5>2. CASE y \in DOMAIN chunk
            <6>1. ChunkEnd(a) <= y
              BY <1>0, <4>2, <5>2 DEF TilesArena, NoOverlap
            <6> QED BY <2>0, <2>3, <1>0, <4>1, <4>2, <5>2, <6>1
          <5> QED BY <2>2, <5>1, <5>2
        <4>3. CASE x = split
          <5>1. y \in DOMAIN chunk
            BY <2>2, <4>3, <2>0
          <5>2. a < y
            BY <1>0, <2>0, <4>3, <4>1, <5>1
          <5> QED BY <1>0, <2>3, <4>3, <5>1, <5>2 DEF TilesArena, NoOverlap
        <4>4. CASE x \in DOMAIN chunk \ {a}
          <5>1. CASE y = split
            <6>1. x < ChunkEnd(a)
              BY <2>0, <4>1, <4>4, <5>1, <1>0
            <6>2. x <= a
              BY <1>0, <4>4, <6>1, ChunkGaps
            <6>3. ChunkEnd(x) <= a
              BY <1>0, <4>1, <4>4, <6>2 DEF TilesArena, NoOverlap
            <6> QED BY <1>0, <2>0, <2>3, <4>1, <4>4, <5>1, <6>3
          <5>2. CASE y \in DOMAIN chunk
            BY <2>3, <4>4, <5>2 DEF TilesArena, NoOverlap
          <5> QED BY <2>2, <5>1, <5>2
        <4> QED BY <2>2, <4>2, <4>3, <4>4
      <3>3. LinkedInOrder'
        <4> SUFFICES ASSUME NEW x \in DOMAIN chunk'
                     PROVE  \/ ChunkEnd(x)' = HeapEnd /\ chunk'[x].next = NULL
                            \/ /\ ChunkEnd(x)' \in DOMAIN chunk'
                               /\ chunk'[x].next = ChunkEnd(x)'
          BY DEF LinkedInOrder, HeapEnd
        <4>1. CASE x = a
          BY <2>2, <2>3, <4>1
        <4>2. CASE x = split
          BY <1>0, <2>2, <2>3, <4>2 DEF TilesArena, LinkedInOrder
        <4>3. CASE x \in DOMAIN chunk \ {a}
          BY <2>2, <2>3, <4>3 DEF TilesArena, LinkedInOrder
        <4> QED BY <2>2, <4>1, <4>2, <4>3
      <3> QED BY <3>1, <3>2, <3>3 DEF TilesArena
    <2>6. OwnedIsBacked'
      <3>1. ASSUME NEW p \in DOMAIN owned'
            PROVE  /\ p - HeaderBytes \in DOMAIN chunk'
                   /\ ~chunk'[p - HeaderBytes].is_free
                   /\ owned'[p] <= chunk'[p - HeaderBytes].size
        <4>1. CASE p = a + HeaderBytes
          BY <1>0, <1>2, <2>2, <4>1
        <4>2. CASE p # a + HeaderBytes
          <5>1. p \in DOMAIN owned /\ owned'[p] = owned[p]
            BY <4>2
          <5>2. p - HeaderBytes \in DOMAIN chunk \ {a}
            BY <1>1, <5>1 DEF OwnedIsBacked
          <5> QED BY <2>2, <5>1, <5>2 DEF OwnedIsBacked
        <4> QED BY <4>1, <4>2
      <3>2. ASSUME NEW x \in DOMAIN chunk', ~chunk'[x].is_free
            PROVE  x + HeaderBytes \in DOMAIN owned'
        <4>1. CASE x = a
          BY <4>1
        <4>2. CASE x # a
          <5>1. x \in DOMAIN chunk /\ ~chunk[x].is_free
            BY <2>2, <3>2, <4>2
          <5> QED BY <5>1 DEF OwnedIsBacked
        <4> QED BY <4>1, <4>2
      <3> QED BY <3>1, <3>2 DEF OwnedIsBacked
    <2>7. Coalesced'
      <3> SUFFICES ASSUME NEW x \in DOMAIN chunk', chunk'[x].next # NULL,
                          chunk'[x].is_free, chunk'[chunk'[x].next].is_free
                   PROVE  FALSE
        BY DEF Coalesced
      <3>1. x # a
        BY <2>2
      <3>2. CASE x = split
        <4>1. chunk[a].next \in DOMAIN chunk \ {a}
          BY <1>0, <2>2, <3>2, ChunkGaps
        <4> QED BY <1>0, <2>2, <3>2, <4>1 DEF Coalesced
      <3>3. CASE x \in DOMAIN chunk \ {a}
        <4>1. chunk[x].next \in DOMAIN chunk /\ chunk'[x] = chunk[x]
          BY <2>2, <3>3, ChunkGaps
        <4>2. chunk[x].next # a
          BY <2>2, <4>1
        <4> QED BY <2>2, <3>3, <4>1, <4>2 DEF Coalesced
      <3> QED BY <2>2, <3>1, <3>2, <3>3
    <2>8. ScannedTooSmall' /\ MergesAChunk'
      BY DEF ScannedTooSmall, MergesAChunk
    <2> QED BY <2>4, <2>5, <2>6, <2>7, <2>8
  <1>4. CASE ~WorthSplitting(a, n)
    <2>1. /\ DOMAIN chunk' = DOMAIN chunk
          /\ chunk'[a] = [chunk[a] EXCEPT !.is_free = FALSE]
          /\ \A x \in DOMAIN chunk \ {a} : chunk'[x] = chunk[x]
          /\ chunk' = [x \in DOMAIN chunk |-> chunk'[x]]
      BY <1>0, <1>4
    <2>2. /\ chunk'[a] \in Header /\ ~chunk'[a].is_free
          /\ chunk'[a].size = chunk[a].size /\ chunk'[a].next = chunk[a].next
      <3>1. chunk[a] \in Header
        BY <1>0 DEF TypeOK
      <3>2. chunk'[a] \in Header
        <4> HIDE DEF IInv, ScanTake, a, n
        <4> QED BY <2>1, <3>1 DEF Header
      <3>3. chunk'[a].is_free = FALSE
        <4> HIDE DEF IInv, ScanTake, a, n
        <4> QED BY <2>1, <3>1 DEF Header
      <3>4. chunk'[a].size = chunk[a].size /\ chunk'[a].next = chunk[a].next
        BY <2>1, <3>1 DEF Header
      <3> QED BY <3>2, <3>3, <3>4
    <2>3. \A x \in DOMAIN chunk : /\ ChunkEnd(x)' = ChunkEnd(x)
                                  /\ chunk'[x].next = chunk[x].next
      BY <2>1, <2>2 DEF ChunkEnd
    <2>4. TypeOK'
      <3>1. \A x \in DOMAIN chunk : chunk'[x] \in Header
        BY <2>1, <2>2 DEF TypeOK
      <3>2. chunk' \in [DOMAIN chunk' -> Header]
        BY <2>1, <3>1
      <3>4. DOMAIN owned' \subseteq Nat /\ owned' \in [DOMAIN owned' -> Nat]
        BY <1>0, <1>2 DEF TypeOK
      <3> QED BY <2>1, <3>2, <3>4 DEF TypeOK
    <2>5. TilesArena'
      BY <2>1, <2>3 DEF TilesArena, InArena, NoOverlap, LinkedInOrder, HeapEnd
    <2>6. OwnedIsBacked'
      <3>1. ASSUME NEW p \in DOMAIN owned'
            PROVE  /\ p - HeaderBytes \in DOMAIN chunk'
                   /\ ~chunk'[p - HeaderBytes].is_free
                   /\ owned'[p] <= chunk'[p - HeaderBytes].size
        <4>1. CASE p = a + HeaderBytes
          BY <1>0, <1>2, <2>1, <2>2, <4>1
        <4>2. CASE p # a + HeaderBytes
          <5>1. p \in DOMAIN owned /\ owned'[p] = owned[p]
            BY <4>2
          <5>2. p - HeaderBytes \in DOMAIN chunk \ {a}
            BY <1>1, <5>1 DEF OwnedIsBacked
          <5> QED BY <2>1, <5>1, <5>2 DEF OwnedIsBacked
        <4> QED BY <4>1, <4>2
      <3>2. ASSUME NEW x \in DOMAIN chunk', ~chunk'[x].is_free
            PROVE  x + HeaderBytes \in DOMAIN owned'
        BY <2>1, <3>2 DEF OwnedIsBacked
      <3> QED BY <3>1, <3>2 DEF OwnedIsBacked
    <2>7. Coalesced'
      <3> SUFFICES ASSUME NEW x \in DOMAIN chunk', chunk'[x].next # NULL,
                          chunk'[x].is_free, chunk'[chunk'[x].next].is_free
                   PROVE  FALSE
        BY DEF Coalesced
      <3>1. x \in DOMAIN chunk \ {a}
        BY <2>1, <2>2
      <3>2. chunk[x].next \in DOMAIN chunk \ {a}
        BY <2>1, <2>2, <3>1, ChunkGaps
      <3> QED BY <2>1, <3>1, <3>2 DEF Coalesced
    <2>8. ScannedTooSmall' /\ MergesAChunk'
      BY DEF ScannedTooSmall, MergesAChunk
    <2> QED BY <2>4, <2>5, <2>6, <2>7, <2>8
  <1> QED BY <1>3, <1>4

LEMMA ScanFailPreserves ==
    ASSUME HeapAssumption, IInv, ScanFail PROVE IInv'
  <1> USE DEF IInv, ScanFail
  <1>1. TypeOK'
    BY DEF TypeOK
  <1>2. TilesArena'
    BY DEF TilesArena, InArena, NoOverlap, LinkedInOrder, ChunkEnd, HeapEnd
  <1> QED
    BY <1>1, <1>2 DEF OwnedIsBacked, ScannedTooSmall, Coalesced, MergesAChunk

LEMMA KfreePreserves ==
    ASSUME HeapAssumption, IInv, NEW p \in DOMAIN owned, Kfree(p) PROVE IInv'
  <1> DEFINE a == p - HeaderBytes
  <1>0. /\ a \in DOMAIN chunk /\ p \in Nat /\ HeaderBytes \in Nat
        /\ HeapStart \in DOMAIN chunk /\ HeapStart \in Nat /\ HeapStart # NULL
    BY DEF IInv, OwnedIsBacked, TypeOK, HeapAssumption, TilesArena, InArena
  <1>1. /\ phase' = "merge" /\ current' = HeapStart /\ request' = request
        /\ owned' = [q \in DOMAIN owned \ {p} |-> owned[q]]
        /\ DOMAIN chunk' = DOMAIN chunk
        /\ chunk'[a] = [chunk[a] EXCEPT !.is_free = TRUE]
        /\ \A x \in DOMAIN chunk \ {a} : chunk'[x] = chunk[x]
        /\ chunk' = [x \in DOMAIN chunk |-> chunk'[x]]
    BY <1>0 DEF Kfree
  <1>2. chunk[a] \in Header
    BY <1>0 DEF IInv, TypeOK
  <1> HIDE DEF a
  <1>3. chunk'[a] \in Header
    BY <1>1, <1>2 DEF Header
  <1>4. chunk'[a].is_free = TRUE
    BY <1>1, <1>2 DEF Header
  <1>5. \A x \in DOMAIN chunk : /\ chunk'[x].size = chunk[x].size
                                /\ chunk'[x].next = chunk[x].next
    BY <1>1, <1>2 DEF Header
  <1>6. TypeOK'
    <2>1. \A x \in DOMAIN chunk : chunk'[x] \in Header
      BY <1>1, <1>3 DEF IInv, TypeOK
    <2>2. chunk' \in [DOMAIN chunk' -> Header]
      BY <1>1, <2>1
    <2>3. DOMAIN owned' \subseteq Nat /\ owned' \in [DOMAIN owned' -> Nat]
      BY <1>1 DEF IInv, TypeOK
    <2> QED BY <1>0, <1>1, <2>2, <2>3 DEF IInv, TypeOK
  <1>7. TilesArena'
    BY <1>1, <1>5 DEF IInv, TilesArena, InArena, NoOverlap, LinkedInOrder, ChunkEnd,
                      HeapEnd
  <1>8. OwnedIsBacked'
    <2>1. ASSUME NEW q \in DOMAIN owned'
          PROVE  /\ q - HeaderBytes \in DOMAIN chunk'
                 /\ ~chunk'[q - HeaderBytes].is_free
                 /\ owned'[q] <= chunk'[q - HeaderBytes].size
      <3>1. q \in DOMAIN owned /\ q # p /\ q \in Nat /\ owned'[q] = owned[q]
        BY <1>1 DEF IInv, TypeOK
      <3>2. q - HeaderBytes # a
        BY <1>0, <3>1 DEF a
      <3> QED BY <1>1, <3>1, <3>2 DEF IInv, OwnedIsBacked
    <2>2. ASSUME NEW x \in DOMAIN chunk', ~chunk'[x].is_free
          PROVE  x + HeaderBytes \in DOMAIN owned'
      <3>1. x \in DOMAIN chunk \ {a} /\ ~chunk[x].is_free /\ x \in Nat
        BY <1>1, <1>4, <2>2 DEF IInv, TypeOK
      <3>2. x + HeaderBytes # p
        BY <1>0, <3>1 DEF a
      <3> QED BY <1>1, <3>1, <3>2 DEF IInv, OwnedIsBacked
    <2> QED BY <2>1, <2>2 DEF OwnedIsBacked
  <1>9. Coalesced'
    <2>1. \A x \in DOMAIN chunk : HeapStart <= x /\ x \in Nat
      BY DEF IInv, TilesArena, InArena, TypeOK
    <2> QED BY <1>0, <1>1, <2>1 DEF Coalesced
  <1> QED
    BY <1>0, <1>1, <1>6, <1>7, <1>8, <1>9 DEF IInv, ScannedTooSmall, MergesAChunk

LEMMA MergeAbsorbPreserves ==
    ASSUME HeapAssumption, IInv, MergeAbsorb PROVE IInv'
  <1>a. PICK a \in DOMAIN chunk : a = current
    BY DEF MergeAbsorb, IInv, TypeOK
  <1>g. PICK gone : gone = chunk[a].next
    OBVIOUS
  <1>0. /\ a \in DOMAIN chunk /\ gone \in DOMAIN chunk /\ gone = ChunkEnd(a)
        /\ a \in Nat /\ gone \in Nat /\ a < gone /\ HeaderBytes \in Nat \ {0}
        /\ chunk[a] \in Header /\ chunk[gone] \in Header
        /\ ChunkEnd(gone) \in Nat /\ gone < ChunkEnd(gone)
    <2>1. a \in DOMAIN chunk /\ gone # NULL
      BY <1>a, <1>g DEF MergeAbsorb, IInv, TypeOK
    <2>2. gone \in DOMAIN chunk /\ gone = ChunkEnd(a)
      BY <1>g, <2>1, ChunkGaps DEF IInv
    <2>3. chunk[a] \in Header /\ chunk[gone] \in Header
      BY <2>1, <2>2 DEF IInv, TypeOK
    <2> QED BY <2>1, <2>2, <2>3, ChunkGaps DEF IInv, HeapAssumption
  <1>1. /\ phase = "merge" /\ phase' = "merge" /\ current' = current
        /\ request' = request /\ owned' = owned
        /\ chunk[a].is_free /\ chunk[gone].is_free
        /\ DOMAIN chunk' = DOMAIN chunk \ {gone}
        /\ chunk'[a] = [size    |-> chunk[a].size + HeaderBytes + chunk[gone].size,
                        is_free |-> chunk[a].is_free,
                        next    |-> chunk[gone].next]
        /\ \A x \in DOMAIN chunk \ {a, gone} : chunk'[x] = chunk[x]
        /\ chunk' = [x \in DOMAIN chunk' |-> chunk'[x]]
    <2>1. /\ phase = "merge" /\ phase' = "merge" /\ current' = current
          /\ request' = request /\ owned' = owned
          /\ chunk[a].is_free /\ chunk[gone].is_free
      BY <1>a, <1>g DEF MergeAbsorb, BothFree
    <2>2. chunk' = [x \in DOMAIN chunk \ {gone} |->
                      IF x = a
                      THEN [size    |-> chunk[x].size + HeaderBytes + chunk[gone].size,
                            is_free |-> chunk[x].is_free,
                            next    |-> chunk[gone].next]
                      ELSE chunk[x]]
      BY <1>a, <1>g DEF MergeAbsorb
    <2>3. DOMAIN chunk' = DOMAIN chunk \ {gone}
      BY <2>2
    <2>4. chunk' = [x \in DOMAIN chunk' |-> chunk'[x]]
      BY <2>2
    <2>5. chunk'[a] = [size    |-> chunk[a].size + HeaderBytes + chunk[gone].size,
                       is_free |-> chunk[a].is_free,
                       next    |-> chunk[gone].next]
      <3>1. a \in DOMAIN chunk \ {gone}
        BY <1>0
      <3> QED BY <2>2, <3>1
    <2>6. \A x \in DOMAIN chunk \ {a, gone} : chunk'[x] = chunk[x]
      BY <2>2
    <2> QED BY <2>1, <2>3, <2>4, <2>5, <2>6
  <1>2. /\ ChunkEnd(a)' = ChunkEnd(gone)
        /\ \A x \in DOMAIN chunk \ {a, gone} : ChunkEnd(x)' = ChunkEnd(x)
    <2>1. chunk[a].size \in Nat /\ chunk[gone].size \in Nat
      BY <1>0 DEF Header
    <2> QED BY <1>0, <1>1, <2>1 DEF ChunkEnd
  <1>3. \A x \in DOMAIN chunk : x \in Nat /\ ChunkEnd(x) \in Nat
    BY ChunkGaps DEF IInv
  <1>4. TypeOK'
    <2>1. chunk'[a] \in Header
      BY <1>0, <1>1 DEF Header
    <2>2. \A x \in DOMAIN chunk' : chunk'[x] \in Header
      BY <1>1, <2>1 DEF IInv, TypeOK
    <2>3. chunk' \in [DOMAIN chunk' -> Header]
      BY <1>1, <2>2
    <2>4. current' \in DOMAIN chunk'
      BY <1>a, <1>0, <1>1
    <2> QED BY <1>1, <2>3, <2>4 DEF IInv, TypeOK
  <1>5. TilesArena'
    <2>1. InArena'
      <3>1. HeapStart \in DOMAIN chunk /\ HeapStart \in Nat /\ HeapStart <= a
        BY <1>0 DEF IInv, TilesArena, InArena, HeapAssumption
      <3>2. HeapStart \in DOMAIN chunk'
        BY <1>0, <1>1, <3>1
      <3> QED BY <1>0, <1>1, <1>2, <3>2 DEF IInv, TilesArena, InArena, HeapEnd
    <2>2. NoOverlap'
      <3> SUFFICES ASSUME NEW x \in DOMAIN chunk', NEW y \in DOMAIN chunk', x < y
                   PROVE  ChunkEnd(x)' <= y
        BY DEF NoOverlap
      <3>1. CASE x = a
        <4>1. gone <= y
          BY <1>0, <1>1, <3>1 DEF IInv, TilesArena, NoOverlap
        <4>2. gone < y
          BY <1>0, <1>1, <1>3, <4>1
        <4> QED BY <1>0, <1>1, <1>2, <3>1, <4>2 DEF IInv, TilesArena, NoOverlap
      <3>2. CASE x # a
        BY <1>1, <1>2, <3>2 DEF IInv, TilesArena, NoOverlap
      <3> QED BY <3>1, <3>2
    <2>3. LinkedInOrder'
      <3> SUFFICES ASSUME NEW x \in DOMAIN chunk'
                   PROVE  \/ ChunkEnd(x)' = HeapEnd /\ chunk'[x].next = NULL
                          \/ /\ ChunkEnd(x)' \in DOMAIN chunk'
                             /\ chunk'[x].next = ChunkEnd(x)'
        BY DEF LinkedInOrder, HeapEnd
      <3>1. CASE x = a
        BY <1>0, <1>1, <1>2, <3>1 DEF IInv, TilesArena, LinkedInOrder
      <3>2. CASE x # a
        <4>1. x \in DOMAIN chunk \ {a, gone}
          BY <1>1, <3>2
        <4>2. ChunkEnd(x) # gone
          <5>1. CASE x < a
            <6>1. ChunkEnd(x) <= a
              BY <1>0, <4>1, <5>1 DEF IInv, TilesArena, NoOverlap
            <6> QED BY <1>0, <1>3, <4>1, <6>1
          <5>2. CASE a < x
            <6>1. x < ChunkEnd(x)
              BY <4>1, ChunkGaps DEF IInv
            <6>2. gone <= x
              BY <1>0, <4>1, <5>2 DEF IInv, TilesArena, NoOverlap
            <6> QED BY <1>0, <1>3, <4>1, <6>1, <6>2
          <5> QED BY <1>0, <1>3, <4>1, <5>1, <5>2
        <4> QED BY <1>1, <1>2, <4>1, <4>2 DEF IInv, TilesArena, LinkedInOrder
      <3> QED BY <3>1, <3>2
    <2> QED BY <2>1, <2>2, <2>3 DEF TilesArena
  <1>6. OwnedIsBacked'
    <2>1. ASSUME NEW p \in DOMAIN owned
          PROVE  p - HeaderBytes \in DOMAIN chunk \ {a, gone}
      BY <1>1, <2>1 DEF IInv, OwnedIsBacked
    <2> QED BY <1>1, <2>1 DEF IInv, OwnedIsBacked
  <1>7. Coalesced'
    <2> SUFFICES ASSUME NEW x \in DOMAIN chunk', chunk'[x].next # NULL, x < a,
                        chunk'[x].is_free, chunk'[chunk'[x].next].is_free
                 PROVE  FALSE
      BY <1>a, <1>1 DEF Coalesced
    <2>1. x \in DOMAIN chunk \ {a, gone} /\ chunk'[x] = chunk[x]
      BY <1>0, <1>1
    <2>2. chunk[x].next = ChunkEnd(x) /\ chunk[x].next \in DOMAIN chunk
      BY <2>1, ChunkGaps DEF IInv
    <2>3. ChunkEnd(x) <= a
      BY <1>0, <2>1 DEF IInv, TilesArena, NoOverlap
    <2>4. chunk[x].next # gone
      BY <1>0, <1>3, <2>1, <2>2, <2>3
    <2>5. chunk[chunk[x].next].is_free
      <3>1. CASE chunk[x].next = a
        BY <1>1, <3>1
      <3>2. CASE chunk[x].next # a
        BY <1>1, <2>1, <2>2, <2>4, <3>2
      <3> QED BY <3>1, <3>2
    <2>6. current # NULL /\ x < current
      BY <1>a DEF MergeAbsorb
    <2> QED BY <1>1, <2>1, <2>2, <2>5, <2>6 DEF IInv, Coalesced
  <1> QED
    BY <1>a, <1>0, <1>1, <1>4, <1>5, <1>6, <1>7 DEF IInv, ScannedTooSmall, MergesAChunk

LEMMA MergeNextPreserves ==
    ASSUME HeapAssumption, IInv, MergeNext PROVE IInv'
  <1> USE DEF IInv, MergeNext
  <1>0. current \in DOMAIN chunk
    BY DEF MergesAChunk
  <1>1. chunk[current].next \in DOMAIN chunk
    BY <1>0, ChunkGaps
  <1>2. TypeOK'
    BY <1>1 DEF TypeOK
  <1>3. TilesArena'
    BY DEF TilesArena, InArena, NoOverlap, LinkedInOrder, ChunkEnd
  <1>4. OwnedIsBacked' /\ ScannedTooSmall' /\ MergesAChunk'
    BY <1>1 DEF OwnedIsBacked, ScannedTooSmall, MergesAChunk
  <1>5. Coalesced'
    <2> SUFFICES ASSUME NEW a \in DOMAIN chunk, chunk[a].next # NULL,
                        a < chunk[current].next
                 PROVE  ~(chunk[a].is_free /\ chunk[chunk[a].next].is_free)
      BY DEF Coalesced
    <2>1. a <= current /\ a \in Nat /\ current \in Nat
      BY <1>0, ChunkGaps
    <2>2. CASE a = current
      BY <2>2 DEF BothFree
    <2>3. CASE a < current
      BY <2>3 DEF Coalesced
    <2> QED BY <2>1, <2>2, <2>3
  <1> QED BY <1>2, <1>3, <1>4, <1>5

LEMMA MergeDonePreserves ==
    ASSUME HeapAssumption, IInv, MergeDone PROVE IInv'
  <1> USE DEF IInv, MergeDone
  <1>0. current \in DOMAIN chunk /\ current # NULL
    BY ChunkGaps DEF MergesAChunk
  <1>1. TypeOK'
    BY DEF TypeOK
  <1>2. TilesArena'
    BY DEF TilesArena, InArena, NoOverlap, LinkedInOrder, ChunkEnd
  <1>3. OwnedIsBacked' /\ ScannedTooSmall' /\ MergesAChunk'
    BY DEF OwnedIsBacked, ScannedTooSmall, MergesAChunk
  <1>4. Coalesced'
    <2> SUFFICES ASSUME NEW a \in DOMAIN chunk, chunk[a].next # NULL
                 PROVE  ~(chunk[a].is_free /\ chunk[chunk[a].next].is_free)
      BY DEF Coalesced
    <2>1. chunk[current].next = NULL
      BY <1>0
    <2>2. a <= current /\ a # current /\ a \in Nat /\ current \in Nat
      BY <1>0, <2>1, ChunkGaps
    <2>3. a < current
      BY <2>2
    <2> QED BY <1>0, <2>3 DEF Coalesced
  <1> QED BY <1>1, <1>2, <1>3, <1>4

-----------------------------------------------------------------------------
\* Every reachable state of the heap satisfies the inductive invariant.
THEOREM Invariance == Spec => []IInv
  <1>1. Init => IInv
    BY HeapAssumption, InitEstablishes
  <1>2. IInv /\ [Next]_vars => IInv'
    <2> SUFFICES ASSUME IInv, [Next]_vars PROVE IInv'
      OBVIOUS
    <2> USE HeapAssumption
    <2>1. ASSUME NEW n \in RequestSizes, Kmalloc(n) PROVE IInv'
      BY <2>1, KmallocPreserves
    <2>2. ASSUME NEW p \in DOMAIN owned, Kfree(p) PROVE IInv'
      BY <2>2, KfreePreserves
    <2>3. CASE ScanNext
      BY <2>3, ScanNextPreserves
    <2>4. CASE ScanTake
      BY <2>4, ScanTakePreserves
    <2>5. CASE ScanFail
      BY <2>5, ScanFailPreserves
    <2>6. CASE MergeAbsorb
      BY <2>6, MergeAbsorbPreserves
    <2>7. CASE MergeNext
      BY <2>7, MergeNextPreserves
    <2>8. CASE MergeDone
      BY <2>8, MergeDonePreserves
    <2>9. CASE UNCHANGED vars
      <3>1. TypeOK'
        BY <2>9 DEF IInv, TypeOK, vars
      <3>2. TilesArena'
        BY <2>9 DEF IInv, TilesArena, InArena, NoOverlap, LinkedInOrder, ChunkEnd,
                    HeapEnd, vars
      <3> QED
        BY <2>9, <3>1, <3>2 DEF IInv, OwnedIsBacked, ScannedTooSmall, Coalesced,
                    MergesAChunk, vars
    <2> QED BY <2>1, <2>2, <2>3, <2>4, <2>5, <2>6, <2>7, <2>8, <2>9 DEF Next, LoopStep
  <1> QED BY <1>1, <1>2, PTL DEF Spec

\* The variables keep their C++ types.
THEOREM TypeCorrect == Spec => []TypeOK
  BY Invariance, PTL DEF IInv

\* The chunks tile the arena in every state, whatever is allocated and freed
\* (the arithmetic of splitting and merging never loses a byte or overlaps).
THEOREM ArenaIsTiled == Spec => []TilesArena
  BY Invariance, PTL DEF IInv

\* Every block a caller holds is a chunk of its own that is large enough, and
\* no chunk is in use that nobody holds.
THEOREM BlocksAreBacked == Spec => []OwnedIsBacked
  BY Invariance, PTL DEF IInv

\* No two neighbours stay free after kfree: the heap does not fragment.
THEOREM NeighboursMerged == Spec => []Coalesced
  BY Invariance, PTL DEF IInv

\* kmalloc returns nullptr only when no free chunk is large enough.
THEOREM NullIsHonest == Spec => []NullMeansNoFit
  <1>1. IInv => NullMeansNoFit
    <2> SUFFICES ASSUME IInv, phase = "scan", current = NULL,
                        NEW a \in DOMAIN chunk, chunk[a].is_free
                 PROVE  chunk[a].size < request
      BY DEF NullMeansNoFit
    <2>1. ~(chunk[a].size >= request)
      BY DEF IInv, ScannedTooSmall
    <2>2. chunk[a].size \in Nat /\ request \in Nat
      BY HeapAssumption, ChunkGaps DEF IInv, TypeOK
    <2> QED BY <2>1, <2>2
  <1> QED BY <1>1, Invariance, PTL

\* When every block has been given back the arena is one free chunk again.
THEOREM NoLeak == Spec => []AllFreedIsOneChunk
  <1>1. IInv => AllFreedIsOneChunk
    <2> SUFFICES ASSUME IInv, phase = "idle", DOMAIN owned = {}
                 PROVE  DOMAIN chunk = {HeapStart}
      BY DEF AllFreedIsOneChunk
    <2>1. HeapStart \in DOMAIN chunk
      BY DEF IInv, TilesArena, InArena
    <2>2. \A a \in DOMAIN chunk : chunk[a].is_free
      BY DEF IInv, OwnedIsBacked
    <2>3. chunk[HeapStart].next = NULL
      <3> SUFFICES ASSUME chunk[HeapStart].next # NULL PROVE FALSE
        OBVIOUS
      <3>1. chunk[HeapStart].next \in DOMAIN chunk
        BY <2>1, HeapAssumption, ChunkGaps DEF IInv
      <3> QED BY <2>1, <2>2, <3>1 DEF IInv, Coalesced
    <2>4. ASSUME NEW b \in DOMAIN chunk PROVE b = HeapStart
      <3>1. b <= HeapStart /\ b \in Nat /\ HeapStart \in Nat
        BY <2>1, <2>3, HeapAssumption, ChunkGaps DEF IInv
      <3>2. HeapStart <= b
        BY DEF IInv, TilesArena, InArena
      <3> QED BY <3>1, <3>2
    <2> QED BY <2>1, <2>4
  <1> QED BY <1>1, Invariance, PTL

-----------------------------------------------------------------------------
(* Refinement.                                                             *)

\* kmalloc and kfree keep the promise of BlockAllocator: the block returned
\* lies in the arena and touches no block another caller holds.
THEOREM ImplementsAllocator == Spec => RefinesAllocator
  <1>1. Init => Abstract!Init
    BY DEF Init, Abstract!Init
  <1>2. IInv /\ [Next]_vars => [Abstract!Next]_owned
    <2> SUFFICES ASSUME IInv, [Next]_vars PROVE [Abstract!Next]_owned
      OBVIOUS
    <2>1. ASSUME ScanTake PROVE Abstract!Next
      <3> DEFINE p == current + HeaderBytes
      <3>1. /\ current \in DOMAIN chunk /\ chunk[current].is_free
            /\ chunk[current].size >= request /\ request \in RequestSizes
        BY <2>1 DEF ScanTake, Fits, IInv, TypeOK, ScannedTooSmall
      <3>2. /\ current \in Nat /\ chunk[current].size \in Nat /\ request \in Nat
            /\ HeaderBytes \in Nat \ {0} /\ HeapStart \in Nat /\ HeapEnd \in Nat
            /\ ChunkEnd(current) \in Nat
        BY <3>1, HeapAssumption, ChunkGaps DEF IInv, TypeOK, HeapAssumption, HeapEnd
      <3>3. HeapStart <= current /\ p + request <= ChunkEnd(current)
                                 /\ ChunkEnd(current) <= HeapEnd
        BY <3>1, <3>2 DEF IInv, TilesArena, InArena, ChunkEnd
      <3>4. p \in HeapStart .. HeapEnd
        BY <3>2, <3>3
      <3>5. ASSUME NEW q \in DOMAIN owned
            PROVE  /\ p # q
                   /\ p + request <= q \/ q + owned[q] <= p
        <4> DEFINE b == q - HeaderBytes
        <4>1. /\ b \in DOMAIN chunk /\ ~chunk[b].is_free
              /\ owned[q] <= chunk[b].size
          BY DEF IInv, OwnedIsBacked
        <4>2. /\ b \in Nat /\ chunk[b].size \in Nat /\ ChunkEnd(b) \in Nat
              /\ q \in Nat /\ owned[q] \in Nat
          BY <4>1, HeapAssumption, ChunkGaps DEF IInv, TypeOK
        <4>3. b # current
          BY <3>1, <4>1
        <4>4. q + owned[q] <= ChunkEnd(b)
          BY <3>2, <4>1, <4>2 DEF ChunkEnd
        <4>5. CASE b < current
          <5>1. ChunkEnd(b) <= current
            BY <3>1, <4>1, <4>5 DEF IInv, TilesArena, NoOverlap
          <5> QED BY <3>2, <4>2, <4>4, <4>5, <5>1
        <4>6. CASE current < b
          <5>1. ChunkEnd(current) <= b
            BY <3>1, <4>1, <4>6 DEF IInv, TilesArena, NoOverlap
          <5> QED BY <3>2, <3>3, <4>2, <4>6, <5>1
        <4> QED BY <3>2, <4>2, <4>3, <4>5, <4>6
      <3>6. Abstract!Available(p, request)
        BY <3>2, <3>3, <3>5 DEF Abstract!Available
      <3>7. owned' = [q \in DOMAIN owned \cup {p} |->
                        IF q = p THEN request ELSE owned[q]]
        BY <2>1 DEF ScanTake
      <3> QED BY <3>1, <3>4, <3>6, <3>7 DEF Abstract!Next, Abstract!Alloc
    <2>2. ASSUME NEW p \in DOMAIN owned, Kfree(p) PROVE Abstract!Next
      BY <2>2 DEF Kfree, Abstract!Next, Abstract!Free
    <2>3. ASSUME ~ScanTake, ~(\E p \in DOMAIN owned : Kfree(p)) PROVE UNCHANGED owned
      BY <2>3 DEF Next, LoopStep, vars, Kmalloc, ScanNext, ScanFail, MergeAbsorb,
                  MergeNext, MergeDone
    <2> QED BY <2>1, <2>2, <2>3
  <1> QED BY <1>1, <1>2, Invariance, PTL DEF Spec, RefinesAllocator, Abstract!Spec

-----------------------------------------------------------------------------
(* Pages.                                                                  *)

USE PmmAssumption DEF PmmAssumption, BitsPerByte

\* Inside pmm_alloc_page, every page before the one it looks at is taken.
PassedAreTaken ==
    search = "running" => \A p \in 0 .. i - 1 : bitmap_test(pmm_bitmap, p)

PagesIInv == PmmTypeOK /\ BitmapAgrees /\ PassedAreTaken

-----------------------------------------------------------------------------
(* Bits.                                                                   *)

\* Every page has a bit in the bitmap, and no two pages share one.
LEMMA BitsOfPages ==
    /\ \A p \in Pages : p \div 8 \in Bytes /\ p % 8 \in 0 .. 7
    /\ \A p, q \in Pages : p \div 8 = q \div 8 /\ p % 8 = q % 8 => p = q
BY DEF Pages, Bytes

\* Setting the bit of a page sets that bit only.
LEMMA SetOneBit ==
    ASSUME NEW b \in [Bytes -> SUBSET (0 .. 7)], NEW p \in Pages
    PROVE  /\ bitmap_set(b, p) \in [Bytes -> SUBSET (0 .. 7)]
           /\ \A q \in Pages :
                 bitmap_test(bitmap_set(b, p), q)
                   <=> q = p \/ bitmap_test(b, q)
<1> DEFINE y == p \div 8
           c == bitmap_set(b, p)
<1>1. y \in Bytes /\ p % 8 \in 0 .. 7
    BY BitsOfPages
<1>2. c = [b EXCEPT ![y] = b[y] \cup {p % 8}]
    BY DEF bitmap_set
<1>3. c \in [Bytes -> SUBSET (0 .. 7)]
    BY <1>1, <1>2
<1>4. ASSUME NEW q \in Pages
      PROVE  bitmap_test(c, q) <=> q = p \/ bitmap_test(b, q)
    <2>1. q \div 8 \in Bytes
        BY BitsOfPages
    <2>2. CASE q \div 8 = y
        <3>1. c[q \div 8] = b[y] \cup {p % 8}
            BY <1>1, <1>2, <2>2
        <3>2. q % 8 = p % 8 <=> q = p
            BY <2>2, BitsOfPages
        <3> QED BY <2>2, <3>1, <3>2 DEF bitmap_test
    <2>3. CASE q \div 8 # y
        <3>1. c[q \div 8] = b[q \div 8]
            BY <1>1, <1>2, <2>1, <2>3
        <3> QED BY <2>3, <3>1 DEF bitmap_test
    <2> QED BY <2>2, <2>3
<1> QED BY <1>3, <1>4

\* Clearing the bit of a page clears that bit only.
LEMMA ClearOneBit ==
    ASSUME NEW b \in [Bytes -> SUBSET (0 .. 7)], NEW p \in Pages
    PROVE  /\ bitmap_clear(b, p) \in [Bytes -> SUBSET (0 .. 7)]
           /\ \A q \in Pages :
                 bitmap_test(bitmap_clear(b, p), q)
                   <=> q # p /\ bitmap_test(b, q)
<1> DEFINE y == p \div 8
           c == bitmap_clear(b, p)
<1>1. y \in Bytes /\ p % 8 \in 0 .. 7
    BY BitsOfPages
<1>2. c = [b EXCEPT ![y] = b[y] \ {p % 8}]
    BY DEF bitmap_clear
<1>3. c \in [Bytes -> SUBSET (0 .. 7)]
    BY <1>1, <1>2
<1>4. ASSUME NEW q \in Pages
      PROVE  bitmap_test(c, q) <=> q # p /\ bitmap_test(b, q)
    <2>1. q \div 8 \in Bytes
        BY BitsOfPages
    <2>2. CASE q \div 8 = y
        <3>1. c[q \div 8] = b[y] \ {p % 8}
            BY <1>1, <1>2, <2>2
        <3>2. q % 8 = p % 8 <=> q = p
            BY <2>2, BitsOfPages
        <3> QED BY <2>2, <3>1, <3>2 DEF bitmap_test
    <2>3. CASE q \div 8 # y
        <3>1. c[q \div 8] = b[q \div 8]
            BY <1>1, <1>2, <2>1, <2>3
        <3> QED BY <2>3, <3>1 DEF bitmap_test
    <2> QED BY <2>2, <2>3
<1> QED BY <1>3, <1>4

-----------------------------------------------------------------------------
(* Counting.                                                               *)

\* pmm_get_used_pages counts the reserved pages and those that callers hold.
LEMMA UsedPages ==
    ASSUME PmmTypeOK, BitmapAgrees
    PROVE  /\ pmm_get_used_pages = ReservedPages + Cardinality(held)
           /\ pmm_get_used_pages \in 0 .. TotalPages
<1>1. Reserved \subseteq Pages /\ held \subseteq Pages
    BY DEF Reserved, Pages, PmmTypeOK
<1>2. {p \in Pages : bitmap_test(pmm_bitmap, p)} = Reserved \cup held
    BY <1>1 DEF BitmapAgrees
<1>3. IsFiniteSet(Pages) /\ Cardinality(Pages) = TotalPages
    BY FS_Interval DEF Pages
<1>4. IsFiniteSet(Reserved) /\ Cardinality(Reserved) = ReservedPages
    BY FS_Interval DEF Reserved
<1>5. IsFiniteSet(held) /\ Cardinality(held) \in Nat
    BY <1>1, <1>3, FS_Subset, FS_CardinalityType
<1>6. Cardinality(Reserved \cup held) = ReservedPages + Cardinality(held)
    <2>1. Reserved \cap held = {}
        BY DEF BitmapAgrees
    <2>2. Cardinality(Reserved \cup held)
            = Cardinality(Reserved) + Cardinality(held)
              - Cardinality(Reserved \cap held)
        BY <1>4, <1>5, FS_Union
    <2>3. Cardinality({}) = 0
        BY FS_EmptySet
    <2>4. Cardinality(Reserved \cap held) = 0
        BY <2>1, <2>3
    <2> HIDE DEF Reserved
    <2> QED BY <1>4, <1>5, <2>2, <2>4
<1>7. Cardinality(Reserved \cup held) <= TotalPages
    BY <1>1, <1>3, FS_Subset
<1>8. pmm_get_used_pages = ReservedPages + Cardinality(held)
    BY <1>2, <1>6 DEF pmm_get_used_pages
<1> QED BY <1>5, <1>6, <1>7, <1>8

-----------------------------------------------------------------------------
(* The invariant.                                                          *)

\* init_pmm establishes it: the loop over the reserved pages sets their bits.
LEMMA BootEstablishes == PmmInit => PagesIInv
<1> SUFFICES ASSUME PmmInit PROVE PagesIInv
    OBVIOUS
<1>1. PmmTypeOK
    BY SMT DEF PmmInit, PmmTypeOK
<1>2. \A p \in Pages : bitmap_test(pmm_bitmap, p) <=> p \in Reserved
    <2> TAKE p \in Pages
    <2>1. p \div 8 \in Bytes /\ p % 8 \in 0 .. 7 /\ 8 * (p \div 8) + (p % 8) = p
        BY DEF Pages, Bytes
    <2>2. pmm_bitmap[p \div 8] = {k \in 0 .. 7 : 8 * (p \div 8) + k \in Reserved}
        BY <2>1 DEF PmmInit
    <2> QED BY <2>1, <2>2 DEF bitmap_test
<1> QED BY <1>1, <1>2 DEF PmmInit, PagesIInv, BitmapAgrees, PassedAreTaken

\* A search starts with nothing passed.
LEMMA AllocCallPreserves ==
    ASSUME PagesIInv, AllocCall PROVE PagesIInv'
BY DEF PagesIInv, AllocCall, PmmTypeOK, BitmapAgrees, PassedAreTaken, bitmap_test

\* An iteration passes a page whose bit is set.
LEMMA SearchNextPreserves ==
    ASSUME PagesIInv, SearchNext PROVE PagesIInv'
BY DEF PagesIInv, SearchNext, PmmTypeOK, BitmapAgrees, PassedAreTaken, bitmap_test

\* Taking a page sets its bit and makes the caller its holder.
LEMMA SearchTakePreserves ==
    ASSUME PagesIInv, SearchTake PROVE PagesIInv'
<1>1. i \in Pages
    BY DEF PagesIInv, PmmTypeOK, SearchTake, Pages
<1>2. pmm_bitmap \in [Bytes -> SUBSET (0 .. 7)]
    BY DEF PagesIInv, PmmTypeOK
<1>3. /\ pmm_bitmap' \in [Bytes -> SUBSET (0 .. 7)]
      /\ \A q \in Pages :
            bitmap_test(pmm_bitmap', q) <=> q = i \/ bitmap_test(pmm_bitmap, q)
    BY <1>1, <1>2, SetOneBit DEF SearchTake
<1>4. i \notin Reserved
    BY <1>1 DEF PagesIInv, BitmapAgrees, SearchTake
<1>5. PmmTypeOK'
    BY <1>1, <1>3 DEF PagesIInv, PmmTypeOK, SearchTake
<1>6. BitmapAgrees'
    BY <1>3, <1>4 DEF PagesIInv, BitmapAgrees, SearchTake
<1> QED BY <1>5, <1>6 DEF PagesIInv, PassedAreTaken, SearchTake

\* A search that fails changes nothing.
LEMMA SearchFailPreserves ==
    ASSUME PagesIInv, SearchFail PROVE PagesIInv'
BY DEF PagesIInv, SearchFail, PmmTypeOK, BitmapAgrees, PassedAreTaken, bitmap_test

\* A page that is given back loses its bit and its holder.
LEMMA FreePreserves ==
    ASSUME PagesIInv, NEW p \in held, pmm_free_page(p) PROVE PagesIInv'
<1>1. p \in Pages /\ p \notin Reserved
    BY DEF PagesIInv, PmmTypeOK, BitmapAgrees
<1>2. pmm_bitmap \in [Bytes -> SUBSET (0 .. 7)]
    BY DEF PagesIInv, PmmTypeOK
<1>3. /\ pmm_bitmap' \in [Bytes -> SUBSET (0 .. 7)]
      /\ \A q \in Pages :
            bitmap_test(pmm_bitmap', q) <=> q # p /\ bitmap_test(pmm_bitmap, q)
    BY <1>1, <1>2, ClearOneBit DEF pmm_free_page
<1>4. PmmTypeOK'
    BY <1>3 DEF PagesIInv, PmmTypeOK, pmm_free_page
<1>5. BitmapAgrees'
    BY <1>1, <1>3 DEF PagesIInv, BitmapAgrees, pmm_free_page
<1> QED BY <1>4, <1>5 DEF PagesIInv, PassedAreTaken, pmm_free_page

\* meminfo only reads.
LEMMA MeminfoPreserves ==
    ASSUME PagesIInv, Meminfo PROVE PagesIInv'
<1>1. reported' \in 0 .. TotalPages
    BY UsedPages DEF PagesIInv, Meminfo
<1> QED BY <1>1 DEF PagesIInv, Meminfo, PmmTypeOK, BitmapAgrees, PassedAreTaken, bitmap_test

\* The inductive invariant of the page allocator holds in every reachable state.
THEOREM PagesInvariance == PmmSpec => []PagesIInv
<1>1. PmmInit => PagesIInv
    BY BootEstablishes
<1>2. PagesIInv /\ [PmmNext]_pmm_vars => PagesIInv'
    <2> SUFFICES ASSUME PagesIInv, [PmmNext]_pmm_vars PROVE PagesIInv'
        OBVIOUS
    <2>1. CASE AllocCall   BY <2>1, AllocCallPreserves
    <2>2. CASE SearchNext  BY <2>2, SearchNextPreserves
    <2>3. CASE SearchTake  BY <2>3, SearchTakePreserves
    <2>4. CASE SearchFail  BY <2>4, SearchFailPreserves
    <2>5. ASSUME NEW p \in held, pmm_free_page(p) PROVE PagesIInv'
        BY <2>5, FreePreserves
    <2>6. CASE Meminfo     BY <2>6, MeminfoPreserves
    <2>7. CASE UNCHANGED pmm_vars
        BY <2>7 DEF pmm_vars, PagesIInv, PmmTypeOK, BitmapAgrees, PassedAreTaken, bitmap_test
    <2> QED BY <2>1, <2>2, <2>3, <2>4, <2>5, <2>6, <2>7 DEF PmmNext, Search
<1> QED BY <1>1, <1>2, PTL DEF PmmSpec

-----------------------------------------------------------------------------
(* What follows from it.                                                   *)

\* Every variable keeps its type: in particular the count that meminfo prints
\* never exceeds the memory.
THEOREM PagesTypeCorrect == PmmSpec => []PmmTypeOK
BY PagesInvariance, PTL DEF PagesIInv

\* A page is marked exactly when it is reserved or held: no page is handed out
\* twice, none is lost, and freeing one does not touch its neighbours in the byte.
THEOREM BitmapIsTrue == PmmSpec => []BitmapAgrees
BY PagesInvariance, PTL DEF PagesIInv

\* pmm_alloc_page returns nullptr only when every page is marked.
THEOREM NoPageMeansFull == PmmSpec => NullMeansFull
<1>1. PagesIInv /\ [PmmNext]_pmm_vars
        => [SearchFail =>
              \A p \in Pages : bitmap_test(pmm_bitmap, p)]_pmm_vars
    BY DEF PagesIInv, PmmTypeOK, PassedAreTaken, SearchFail, Pages
<1> QED BY <1>1, PagesInvariance, PTL DEF PmmSpec, NullMeansFull

\* meminfo reports exactly the reserved pages and the held ones.
THEOREM ReportIsTrue == PmmSpec => ReportIsExact
<1>1. PagesIInv /\ [PmmNext]_pmm_vars
        => [Meminfo => reported' = ReservedPages + Cardinality(held)]_pmm_vars
    BY UsedPages DEF PagesIInv, Meminfo
<1> QED BY <1>1, PagesInvariance, PTL DEF PmmSpec, ReportIsExact
=============================================================================

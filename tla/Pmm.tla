-------------------------------- MODULE Pmm --------------------------------
(***************************************************************************)
(* The physical page allocator of kernel/pmm.cpp: one bit per page, packed *)
(* eight to a byte; the pages of the first two megabytes are reserved for  *)
(* the kernel.  Pages are named by their index; the address of page i is   *)
(* i * PAGE_SIZE, and so is page 0 the null pointer.                       *)
(*                                                                         *)
(* The search of pmm_alloc_page is modelled one iteration per step because *)
(* an interrupt can land between two of them: "meminfo" counts the used    *)
(* pages from the keyboard handler.                                        *)
(***************************************************************************)
EXTENDS Integers, FiniteSets

CONSTANTS BitmapBytes,    \* BITMAP_SIZE (4096)
          TotalPages,     \* memory_size_bytes / PAGE_SIZE (16384 at boot)
          ReservedPages   \* the first 2MB (512 pages)

BitsPerByte == 8

ASSUME PmmAssumption ==
    /\ BitmapBytes \in Nat
    /\ TotalPages \in Nat /\ TotalPages <= BitsPerByte * BitmapBytes
    /\ ReservedPages \in Nat \ {0} /\ ReservedPages <= TotalPages

VARIABLES pmm_bitmap,   \* byte |-> the bits that are set in it
          search,       \* "idle", or "running" inside pmm_alloc_page
          i,            \* the page the search looks at
          held,         \* pages that callers of pmm_alloc_page hold
          reported      \* what pmm_get_used_pages last returned

pmm_vars == <<pmm_bitmap, search, i, held, reported>>

Pages == 0 .. TotalPages - 1
Bytes == 0 .. BitmapBytes - 1

-----------------------------------------------------------------------------
(* Bits.                                                                   *)

bitmap_set(b, p) ==
    [b EXCEPT ![p \div BitsPerByte] = @ \cup {p % BitsPerByte}]

bitmap_clear_Byte(b, p) ==
    [b EXCEPT ![p \div BitsPerByte] = {}]
bitmap_clear(b, p) ==
    [b EXCEPT ![p \div BitsPerByte] = @ \ {p % BitsPerByte}]

bitmap_test(b, p) == p % BitsPerByte \in b[p \div BitsPerByte]

-----------------------------------------------------------------------------
Reserved == 0 .. ReservedPages - 1

\* init_pmm: every bit is cleared, then those of the reserved pages are set.
PmmInit ==
    /\ pmm_bitmap = [y \in Bytes |->
                       {k \in 0 .. BitsPerByte - 1 : BitsPerByte * y + k \in Reserved}]
    /\ search = "idle"
    /\ i = 0
    /\ held = {}
    /\ reported = 0           \* nothing yet

AllocCall ==
    /\ search = "idle"
    /\ search' = "running"
    /\ i' = 0
    /\ UNCHANGED <<pmm_bitmap, held, reported>>

SearchNext ==
    /\ search = "running"
    /\ i < TotalPages
    /\ bitmap_test(pmm_bitmap, i)
    /\ i' = i + 1
    /\ UNCHANGED <<pmm_bitmap, search, held, reported>>

\* The first clear bit is set and the address of its page returned.
SearchTake_LeavesBit ==
    /\ search = "running"
    /\ i < TotalPages
    /\ ~bitmap_test(pmm_bitmap, i)
    /\ held' = held \cup {i}
    /\ search' = "idle"
    /\ UNCHANGED <<pmm_bitmap, i, reported>>
SearchTake ==
    /\ search = "running"
    /\ i < TotalPages
    /\ ~bitmap_test(pmm_bitmap, i)
    /\ pmm_bitmap' = bitmap_set(pmm_bitmap, i)
    /\ held' = held \cup {i}
    /\ search' = "idle"
    /\ UNCHANGED <<i, reported>>

\* No bit is clear: nullptr.
SearchFail_Early ==
    /\ search = "running"
    /\ i >= TotalPages - 1
    /\ search' = "idle"
    /\ UNCHANGED <<pmm_bitmap, i, held, reported>>
SearchFail ==
    /\ search = "running"
    /\ i >= TotalPages
    /\ search' = "idle"
    /\ UNCHANGED <<pmm_bitmap, i, held, reported>>

\* pmm_free_page checks nothing; its callers free pages they hold.
pmm_free_page(p) ==
    /\ search = "idle"
    /\ pmm_bitmap' = bitmap_clear(pmm_bitmap, p)
    /\ held' = held \ {p}
    /\ UNCHANGED <<search, i, reported>>

pmm_get_used_pages == Cardinality({p \in Pages : bitmap_test(pmm_bitmap, p)})

\* The keyboard interrupt, at any moment.
Meminfo ==
    /\ reported' = pmm_get_used_pages
    /\ UNCHANGED <<pmm_bitmap, search, i, held>>

Search == SearchNext \/ SearchTake \/ SearchFail

PmmNext ==
    \/ AllocCall \/ Search
    \/ \E p \in held : pmm_free_page(p)
    \/ Meminfo

PmmSpec == PmmInit /\ [][PmmNext]_pmm_vars /\ WF_pmm_vars(Search)

-----------------------------------------------------------------------------
(* Properties.                                                             *)

\* Every variable holds a value of its type.
PmmTypeOK ==
    /\ pmm_bitmap \in [Bytes -> SUBSET (0 .. BitsPerByte - 1)]
    /\ search \in {"idle", "running"}
    /\ i \in 0 .. TotalPages
    /\ held \subseteq Pages
    /\ reported \in 0 .. TotalPages

\* The bits and the callers agree: a page is marked exactly when it is reserved
\* or somebody holds it.  So no page is handed out twice, none is lost, freeing
\* one page leaves its seven neighbours in the byte alone, and no reserved page
\* is ever handed out; page 0 among them, so that nullptr is never a page.
BitmapAgrees ==
    /\ held \cap Reserved = {}
    /\ \A p \in Pages : bitmap_test(pmm_bitmap, p) <=> p \in Reserved \cup held

\* pmm_alloc_page returns nullptr only when every page is taken, although pages
\* before the one it looks at may not be looked at again.
NullMeansFull ==
    [][SearchFail => \A p \in Pages : bitmap_test(pmm_bitmap, p)]_pmm_vars

\* meminfo reports the reserved pages and those in use, whenever the interrupt
\* lands (keyboard.cpp:206-208).
ReportIsExact ==
    [][Meminfo => reported' = ReservedPages + Cardinality(held)]_pmm_vars

=============================================================================

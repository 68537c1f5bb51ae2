------------------------------ MODULE MCMemory ------------------------------
(* The two allocators, which share nothing: one is explored while the other *)
(* stays as it is at boot.                                                  *)
(*                                                                          *)
(* The heap is small enough for TLC: headers of 2 bytes in an arena that    *)
(* holds up to four blocks, and requests that are empty, that leave a hole  *)
(* too small for a split, or that only fit once neighbours have been        *)
(* merged.  The frames are ten pages in two bytes of bitmap, three of them  *)
(* reserved: the pages that are handed out lie in both bytes, and the last  *)
(* byte is only partly used.                                                *)
EXTENDS Heap, Pmm

MCRequestSizes == {0, 1, 3, 6}

VARIABLE part                      \* the allocator that is called

MCInit == part \in {"heap", "frames"} /\ Init /\ PmmInit

MCNext ==
    /\ \/ part = "heap" /\ Next /\ UNCHANGED pmm_vars
       \/ part = "frames" /\ PmmNext /\ UNCHANGED vars
    /\ UNCHANGED part

MCSpec ==
    /\ MCInit /\ [][MCNext]_<<part, vars, pmm_vars>>
    /\ WF_vars(part = "heap" /\ LoopStep)
    /\ WF_pmm_vars(part = "frames" /\ Search)
=============================================================================

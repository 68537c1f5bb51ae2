------------------------------ MODULE Catalog ------------------------------
(***************************************************************************)
(* What the RAM disk promises the workstation: a list of files that only   *)
(* grows, up to a fixed number of them.  A file keeps its place, its       *)
(* folder, its name and its content for ever; a file too many is dropped   *)
(* without a word.  src/vfat.cpp implements this (see Vfat).               *)
(***************************************************************************)
EXTENDS Naturals, Sequences

CONSTANTS Capacity,   \* how many files there is room for
          Files       \* what a file can be

VARIABLE catalog      \* the files, oldest first

Init == catalog = << >>

Add(file) == Len(catalog) < Capacity /\ catalog' = Append(catalog, file)

Next == \E file \in Files : Add(file)

Spec == Init /\ [][Next]_catalog
=============================================================================

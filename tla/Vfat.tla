-------------------------------- MODULE Vfat --------------------------------
(***************************************************************************)
(* The virtual RAM disk of src/vfat.cpp: a table of file entries in which  *)
(* create_virtual_file takes the first one that is not active, and queries *)
(* that count or pick the active entries of a folder, in table order.      *)
(* Nothing removes a file.                                                 *)
(*                                                                         *)
(* A string is a text and a length: safe_string_copy keeps the beginning   *)
(* of the text, as much of it as fits before a terminating zero.           *)
(***************************************************************************)
EXTENDS Integers, Sequences, FiniteSets

CONSTANTS MaxFileEntries,   \* MAX_FILE_ENTRIES (8)
          MaxFilenameLen,   \* MAX_FILENAME_LEN (12)
          MaxPayloadLen,    \* sizeof(data_payload) (64)
          Folders,          \* folder indexes callers use
          NoFolder,         \* 0xFFFFFFFF
          Names, Contents   \* strings callers pass

ASSUME VfatAssumption ==
    /\ MaxFileEntries \in Nat
    /\ MaxFilenameLen \in Nat \ {0}
    /\ MaxPayloadLen \in Nat \ {0}
    /\ NoFolder \notin Folders
    /\ \A s \in Names \cup Contents : s = [text |-> s.text, len |-> s.len] /\ s.len \in Nat

VARIABLES files,                \* slot |-> VFileEntry
          active_files_count

vfat_vars == <<files, active_files_count>>

Slots == 0 .. MaxFileEntries - 1
NoSlot == MaxFileEntries        \* 0xFFFFFFFF, or a null pointer

Shorter(m, n) == IF m <= n THEN m ELSE n

\* At most max_len - 1 characters of the source, and a zero.
safe_string_copy(src, max_len) == [src EXCEPT !.len = Shorter(src.len, max_len - 1)]

NoString == [text |-> "", len |-> 0]

\* init_vfat_disk.
VfatInit ==
    /\ files = [s \in Slots |-> [is_active          |-> FALSE,
                                 filename           |-> NoString,
                                 data_payload       |-> NoString,
                                 folder_index_owner |-> NoFolder,
                                 file_size_bytes    |-> 0]]
    /\ active_files_count = 0

-----------------------------------------------------------------------------
FreeSlots == {s \in Slots : ~files[s].is_active}

\* The loop takes the first entry that is not active.
TargetSlot_Last == CHOOSE s \in FreeSlots : \A t \in FreeSlots : t <= s
TargetSlot == CHOOSE s \in FreeSlots : \A t \in FreeSlots : s <= t

\* The size is counted up to the payload's capacity, its last byte included.
Entry(name, folder, content) ==
    [is_active          |-> TRUE,
     filename           |-> safe_string_copy(name, MaxFilenameLen),
     data_payload       |-> safe_string_copy(content, MaxPayloadLen),
     folder_index_owner |-> folder,
     file_size_bytes    |-> Shorter(content.len, MaxPayloadLen)]

Full == active_files_count >= MaxFileEntries \/ FreeSlots = {}

\* A full table is left as it is, and the caller is not told.
create_virtual_file(name, folder, content) ==
    \/ /\ ~Full
       /\ files' = [files EXCEPT ![TargetSlot] = Entry(name, folder, content)]
       /\ active_files_count' = active_files_count + 1
    \/ Full /\ UNCHANGED vfat_vars

VfatNext == \E n \in Names, f \in Folders, c \in Contents : create_virtual_file(n, f, c)

VfatSpec == VfatInit /\ [][VfatNext]_vfat_vars

-----------------------------------------------------------------------------
(* Queries.                                                                *)

Owned(s, folder) == files[s].is_active /\ files[s].folder_index_owner = folder

get_folder_file_count(folder) == Cardinality({s \in Slots : Owned(s, folder)})

\* structural_matches when the loop is at slot s.
MatchesBefore_Inclusive(s, folder) == Cardinality({t \in 0 .. s : Owned(t, folder)})
MatchesBefore(s, folder) == Cardinality({t \in 0 .. s - 1 : Owned(t, folder)})

\* The slot whose name or content the queries return, NoSlot for a null pointer.
Lookup(index, folder) ==
    LET found == {s \in Slots : Owned(s, folder) /\ MatchesBefore(s, folder) = index} IN
    IF found = {} THEN NoSlot ELSE CHOOSE s \in found : \A t \in found : s <= t

get_virtual_file_name(index, folder) == files[Lookup(index, folder)].filename
get_virtual_file_content(index, folder) == files[Lookup(index, folder)].data_payload

-----------------------------------------------------------------------------
(* Properties.                                                             *)

Entries ==
    [is_active : BOOLEAN,
     filename : {NoString} \cup {safe_string_copy(n, MaxFilenameLen) : n \in Names},
     data_payload : {NoString} \cup {safe_string_copy(c, MaxPayloadLen) : c \in Contents},
     folder_index_owner : Folders \cup {NoFolder},
     file_size_bytes : 0 .. MaxPayloadLen]

\* Every variable holds a value of its type.
VfatTypeOK ==
    /\ files \in [Slots -> Entries]
    /\ active_files_count \in 0 .. MaxFileEntries

\* The active entries are the first active_files_count ones, so that the two
\* tests for a full table agree and the search never fails after the first.
ActiveIsPrefix == \A s \in Slots : files[s].is_active <=> s < active_files_count

\* The queries agree: an index names a file of the folder exactly when it is
\* below the folder's count, and no two indexes name the same file.  main.cpp
\* loops to the count and only then tests the pointers.
QueriesAgree ==
    \A f \in Folders :
        /\ \A i \in 0 .. MaxFileEntries :
              Lookup(i, f) # NoSlot <=> i < get_folder_file_count(f)
        /\ \A i, j \in 0 .. get_folder_file_count(f) - 1 :
              i < j => Lookup(i, f) < Lookup(j, f)

\* A file keeps its index in its folder, its name and its content, whatever is
\* created after it: the workstation may look a file up again in every frame.
IndexesAreStable ==
    [][\A f \in Folders, i \in 0 .. MaxFileEntries :
          Lookup(i, f) # NoSlot =>
              /\ Lookup(i, f)' = Lookup(i, f)
              /\ files'[Lookup(i, f)] = files[Lookup(i, f)]]_vfat_vars

\* The table keeps the promise of a catalogue.
StoredFiles ==
    {Entry(n, f, c) : n \in Names, f \in Folders, c \in Contents}
Abstract == INSTANCE Catalog
                WITH Capacity <- MaxFileEntries, Files <- StoredFiles,
                     catalog <- [k \in 1 .. active_files_count |-> files[k - 1]]
RefinesCatalog == Abstract!Spec

=============================================================================

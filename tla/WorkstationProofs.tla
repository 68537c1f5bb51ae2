-------------------------- MODULE WorkstationProofs --------------------------
(***************************************************************************)
(* Proofs about the loop of the shipped system (Workstation) and about the *)
(* RAM disk below it (Vfat), for all constants.                            *)
(*                                                                         *)
(* The disk comes first, for any folders and files.  Everything about it   *)
(* rests on one fact that the code never states: the active entries are a  *)
(* prefix of the table, so that the first entry that is not active is the  *)
(* one after them.  The loop uses what is proved of the queries: first the *)
(* keys, whose invariant is about the bytes that wait in the controller,   *)
(* then the screen, whose invariant is about what a frame is drawn from.   *)
(***************************************************************************)
EXTENDS Workstation, IntervalInduction, SequenceTheorems, TLAPS

-----------------------------------------------------------------------------
(* The RAM disk: the invariant.                                            *)

TableInv == VfatTypeOK /\ ActiveIsPrefix

USE VfatAssumption DEF VfatAssumption

\* A call that changes the table appends an entry to its active prefix.
AppendsEntry(n, f, c) ==
    /\ active_files_count < MaxFileEntries
    /\ files' = [files EXCEPT ![active_files_count] = Entry(n, f, c)]
    /\ active_files_count' = active_files_count + 1

\* In a table whose active entries are a prefix, create_virtual_file appends.
LEMMA CreateAppends ==
    ASSUME TableInv, NEW n, NEW f, NEW c, create_virtual_file(n, f, c)
    PROVE  AppendsEntry(n, f, c) \/ UNCHANGED vfat_vars
<1>1. CASE Full /\ UNCHANGED vfat_vars
    BY <1>1
<1>2. CASE /\ ~Full
           /\ files' = [files EXCEPT ![TargetSlot] = Entry(n, f, c)]
           /\ active_files_count' = active_files_count + 1
    <2>1. active_files_count \in Nat /\ active_files_count < MaxFileEntries
        BY <1>2 DEF TableInv, VfatTypeOK, Full
    <2>2. FreeSlots = active_files_count .. MaxFileEntries - 1
        BY <2>1 DEF TableInv, ActiveIsPrefix, FreeSlots, Slots
    <2>3. TargetSlot = active_files_count
        BY <2>1, <2>2 DEF TargetSlot
    <2> QED BY <1>2, <2>1, <2>3 DEF AppendsEntry
<1> QED BY <1>1, <1>2 DEF create_virtual_file

\* What create_virtual_file stores is an active entry of the right type.
LEMMA EntryType ==
    ASSUME NEW n \in Names, NEW f \in Folders, NEW c \in Contents
    PROVE  Entry(n, f, c) \in Entries /\ Entry(n, f, c).is_active
<1>1. Shorter(c.len, MaxPayloadLen) \in 0 .. MaxPayloadLen
    BY DEF Shorter
<1> QED BY <1>1 DEF Entry, Entries

\* An appended entry keeps the invariant.
LEMMA AppendPreserves ==
    ASSUME TableInv,
           NEW n \in Names, NEW f \in Folders, NEW c \in Contents,
           AppendsEntry(n, f, c)
    PROVE  TableInv'
<1>1. active_files_count \in Slots
    BY DEF TableInv, VfatTypeOK, AppendsEntry, Slots
<1>2. Entry(n, f, c) \in Entries /\ Entry(n, f, c).is_active
    BY EntryType
<1>3. VfatTypeOK'
    BY <1>1, <1>2 DEF TableInv, VfatTypeOK, AppendsEntry, Slots
<1>4. ActiveIsPrefix'
    <2> SUFFICES ASSUME NEW s \in Slots
                 PROVE  files'[s].is_active <=> s < active_files_count + 1
        BY DEF ActiveIsPrefix, AppendsEntry
    <2>1. CASE s = active_files_count
        BY <1>1, <1>2, <2>1 DEF TableInv, VfatTypeOK, AppendsEntry, Slots
    <2>2. CASE s # active_files_count
        <3>1. files'[s] = files[s]
            BY <2>2 DEF TableInv, VfatTypeOK, AppendsEntry
        <3> QED BY <1>1, <2>2, <3>1 DEF TableInv, ActiveIsPrefix, Slots
    <2> QED BY <2>1, <2>2
<1> QED BY <1>3, <1>4 DEF TableInv

\* Every entry in use is in the prefix, always.
THEOREM TableInvariance == VfatSpec => []TableInv
<1>1. VfatInit => TableInv
    BY DEF VfatInit, TableInv, VfatTypeOK, ActiveIsPrefix, Entries, Slots
<1>2. TableInv /\ [VfatNext]_vfat_vars => TableInv'
    <2> SUFFICES ASSUME TableInv, [VfatNext]_vfat_vars PROVE TableInv'
        OBVIOUS
    <2>1. ASSUME UNCHANGED vfat_vars PROVE TableInv'
        BY <2>1 DEF vfat_vars, TableInv, VfatTypeOK, ActiveIsPrefix
    <2>2. ASSUME NEW n \in Names, NEW f \in Folders, NEW c \in Contents,
                 create_virtual_file(n, f, c)
          PROVE  TableInv'
        BY <2>1, <2>2, CreateAppends, AppendPreserves
    <2> QED BY <2>1, <2>2 DEF VfatNext
<1> QED BY <1>1, <1>2, PTL DEF VfatSpec

\* Every variable keeps its type: no name or content is longer than its array.
THEOREM TableTypeCorrect == VfatSpec => []VfatTypeOK
BY TableInvariance, PTL DEF TableInv

\* The two tests for a full table, of the counter and of the search, agree.
THEOREM PrefixIsActive == VfatSpec => []ActiveIsPrefix
BY TableInvariance, PTL DEF TableInv

-----------------------------------------------------------------------------
(* Stability.                                                              *)

Found(i, f) == {s \in Slots : Owned(s, f) /\ MatchesBefore(s, f) = i}

\* An index names at most one entry of a folder: of two entries of the folder
\* the later one has more entries of the folder before it.
LEMMA FoundIsUnique ==
    ASSUME MaxFileEntries \in Nat,
           NEW i, NEW f, NEW s \in Found(i, f), NEW t \in Found(i, f)
    PROVE  s = t
<1> SUFFICES ASSUME NEW x \in Slots, NEW y \in Slots, x < y, Owned(x, f)
             PROVE  MatchesBefore(x, f) # MatchesBefore(y, f)
    BY DEF Found, Slots
<1> DEFINE A == {u \in 0 .. x - 1 : Owned(u, f)}
           B == {u \in 0 .. y - 1 : Owned(u, f)}
<1>1. A \subseteq B /\ x \in B /\ x \notin A
    BY DEF Slots
<1>2. IsFiniteSet(B)
    <2>1. 0 \in Int /\ y - 1 \in Int
        BY DEF Slots
    <2>2. IsFiniteSet(0 .. y - 1)
        BY <2>1, FS_Interval
    <2> QED BY <2>2, FS_Subset
<1>3. Cardinality(A) < Cardinality(B)
    <2>1. IsFiniteSet(A) /\ Cardinality(A) <= Cardinality(B)
          /\ (Cardinality(A) = Cardinality(B) => A = B)
        BY <1>1, <1>2, FS_Subset
    <2>2. Cardinality(A) \in Nat /\ Cardinality(B) \in Nat
        BY <1>2, <2>1, FS_CardinalityType
    <2> QED BY <1>1, <2>1, <2>2
<1>4. Cardinality(A) \in Nat
    BY <1>1, <1>2, FS_Subset, FS_CardinalityType
<1>5. Cardinality(B) \in Nat
    BY <1>2, FS_CardinalityType
<1> QED BY <1>3, <1>4, <1>5 DEF MatchesBefore

\* So a query returns the one entry found, or none.
LEMMA LookupFinds ==
    ASSUME MaxFileEntries \in Nat
    PROVE  \A i, f : \A s \in Found(i, f) : Lookup(i, f) = s
<1> TAKE i, f
<1> TAKE s \in Found(i, f)
<1>1. Found(i, f) = {s}
    BY FoundIsUnique
<1>2. s \in Slots
    BY DEF Found
<1>3. Lookup(i, f) = CHOOSE u \in Found(i, f) : \A t \in Found(i, f) : u <= t
    BY <1>1 DEF Lookup, Found
<1> QED BY <1>1, <1>2, <1>3 DEF Slots

\* An index that names no entry is answered with no slot.
LEMMA LookupFails ==
    ASSUME MaxFileEntries \in Nat, NEW i, NEW f, Found(i, f) = {}
    PROVE  Lookup(i, f) = NoSlot
BY DEF Lookup, Found

\* A file keeps its index, its name and its content, whatever is created later.
THEOREM FilesStay == VfatSpec => IndexesAreStable
<1> DEFINE Kept ==
        \A f \in Folders, i \in 0 .. MaxFileEntries :
            Lookup(i, f) # NoSlot =>
                /\ Lookup(i, f)' = Lookup(i, f)
                /\ files'[Lookup(i, f)] = files[Lookup(i, f)]
<1>0. (\A i, f : \A s \in Found(i, f) : Lookup(i, f) = s)'
    <2>1. \A i, f : \A s \in Found(i, f) : Lookup(i, f) = s
        BY LookupFinds
    <2> QED BY <2>1, PTL
<1>1. ASSUME TableInv, NEW n \in Names, NEW g \in Folders, NEW c \in Contents,
             AppendsEntry(n, g, c),
             NEW f, NEW i, Lookup(i, f) # NoSlot
      PROVE  /\ Lookup(i, f)' = Lookup(i, f)
             /\ files'[Lookup(i, f)] = files[Lookup(i, f)]
    <2>1. PICK s \in Found(i, f) : TRUE
        BY <1>1, LookupFails
    <2>2. Lookup(i, f) = s
        BY <2>1, LookupFinds
    <2>3. s \in Slots /\ s < active_files_count /\ active_files_count \in Nat
        BY <1>1, <2>1 DEF Found, Owned, TableInv, VfatTypeOK, ActiveIsPrefix
    <2>4. \A t \in Slots : t <= s => files'[t] = files[t]
        BY <1>1, <2>3 DEF AppendsEntry, TableInv, VfatTypeOK, Slots
    <2>5. Owned(s, f)'
        BY <2>1, <2>3, <2>4 DEF Found, Owned, Slots
    <2>6. {t \in 0 .. s - 1 : Owned(t, f)}' = {t \in 0 .. s - 1 : Owned(t, f)}
        <3>1. \A t \in 0 .. s - 1 : Owned(t, f)' <=> Owned(t, f)
            BY <2>3, <2>4 DEF Owned, Slots
        <3> QED BY <3>1
    <2>7. MatchesBefore(s, f)' = MatchesBefore(s, f)
        BY <2>6 DEF MatchesBefore
    <2>8. s \in Found(i, f)'
        BY <2>1, <2>3, <2>5, <2>7 DEF Found
    <2>9. Lookup(i, f)' = s
        BY <1>0, <2>8
    <2> QED BY <2>2, <2>3, <2>4, <2>9 DEF Slots
<1>2. TableInv /\ [VfatNext]_vfat_vars => [Kept]_vfat_vars
    <2> SUFFICES ASSUME TableInv, [VfatNext]_vfat_vars PROVE [Kept]_vfat_vars
        OBVIOUS
    <2>1. ASSUME NEW n \in Names, NEW g \in Folders, NEW c \in Contents,
                 create_virtual_file(n, g, c)
          PROVE  Kept \/ UNCHANGED vfat_vars
        BY <1>1, <2>1, CreateAppends
    <2> QED BY <2>1 DEF VfatNext
<1> QED BY <1>2, TableInvariance, PTL DEF VfatSpec, IndexesAreStable

-----------------------------------------------------------------------------
(* The queries.                                                            *)

\* The loop of a query counts: nothing before the first entry, one more after an
\* entry of the folder, and all of them at the end of the table.
LEMMA MatchesCount ==
    ASSUME MaxFileEntries \in Nat, NEW f
    PROVE  /\ \A s \in 0 .. MaxFileEntries : MatchesBefore(s, f) \in Nat
           /\ MatchesBefore(0, f) = 0
           /\ \A s \in Slots :
                 MatchesBefore(s + 1, f)
                   = IF Owned(s, f) THEN MatchesBefore(s, f) + 1
                                        ELSE MatchesBefore(s, f)
           /\ \A s, t \in 0 .. MaxFileEntries :
                 s <= t => MatchesBefore(s, f) <= MatchesBefore(t, f)
           /\ MatchesBefore(MaxFileEntries, f) = get_folder_file_count(f)
<1> DEFINE Before(s) == {u \in 0 .. s - 1 : Owned(u, f)}
<1>1. ASSUME NEW s \in 0 .. MaxFileEntries
      PROVE  /\ IsFiniteSet(Before(s)) /\ Cardinality(Before(s)) \in Nat
             /\ MatchesBefore(s, f) = Cardinality(Before(s))
    <2>1. IsFiniteSet(0 .. s - 1)
        <3>1. 0 \in Int /\ s - 1 \in Int
            OBVIOUS
        <3> QED BY <3>1, FS_Interval
    <2>2. IsFiniteSet(Before(s))
        BY <2>1, FS_Subset
    <2> QED BY <2>2, FS_CardinalityType DEF MatchesBefore
<1>2. Before(0) = {} /\ 0 \in 0 .. MaxFileEntries
    OBVIOUS
<1>3. ASSUME NEW s \in Slots
      PROVE  MatchesBefore(s + 1, f)
                = IF Owned(s, f) THEN MatchesBefore(s, f) + 1
                                     ELSE MatchesBefore(s, f)
    <2>1. s \in 0 .. MaxFileEntries /\ s + 1 \in 0 .. MaxFileEntries
        BY DEF Slots
    <2>2. s \notin Before(s)
        BY <2>1
    <2>3. CASE Owned(s, f)
        <3>1. Before(s + 1) = Before(s) \cup {s}
            BY <2>1, <2>3
        <3> HIDE DEF Before
        <3> QED BY <1>1, <2>1, <2>2, <2>3, <3>1, FS_AddElement
    <2>4. CASE ~Owned(s, f)
        <3>1. Before(s + 1) = Before(s)
            BY <2>1, <2>4
        <3> HIDE DEF Before
        <3> QED BY <1>1, <2>1, <2>4, <3>1
    <2> QED BY <2>3, <2>4
<1>4. ASSUME NEW s \in 0 .. MaxFileEntries, NEW t \in 0 .. MaxFileEntries, s <= t
      PROVE  MatchesBefore(s, f) <= MatchesBefore(t, f)
    <2>1. Before(s) \subseteq Before(t)
        BY <1>4
    <2> HIDE DEF Before
    <2> QED BY <1>1, <2>1, FS_Subset
<1>5. MatchesBefore(MaxFileEntries, f) = get_folder_file_count(f)
    BY DEF MatchesBefore, get_folder_file_count, Slots
<1>6. MatchesBefore(0, f) = 0
    BY <1>1, <1>2, FS_EmptySet
<1> HIDE DEF Before
<1> QED BY <1>1, <1>3, <1>4, <1>5, <1>6

\* An index is found exactly below the number of entries of the folder: the count
\* grows by one at a time, and so reaches every index on its way.
LEMMA FoundBelowCount ==
    ASSUME MaxFileEntries \in Nat, NEW f, NEW i \in Nat
    PROVE  Found(i, f) # {} <=> i < get_folder_file_count(f)
<1>0. \A s \in Slots :
         s \in 0 .. MaxFileEntries /\ s + 1 \in 0 .. MaxFileEntries
    BY DEF Slots
<1>1. ASSUME NEW s \in Found(i, f) PROVE i < get_folder_file_count(f)
    <2>1. s \in Slots /\ Owned(s, f) /\ MatchesBefore(s, f) = i
        BY DEF Found
    <2>2. MatchesBefore(s + 1, f) = i + 1
        BY <2>1, MatchesCount
    <2>3. MatchesBefore(s + 1, f) <= get_folder_file_count(f)
          /\ get_folder_file_count(f) \in Nat
        <3>1. s + 1 \in 0 .. MaxFileEntries /\ s + 1 <= MaxFileEntries
              /\ MaxFileEntries \in 0 .. MaxFileEntries
            BY <1>0, <2>1
        <3> QED BY <3>1, MatchesCount
    <2> QED BY <2>2, <2>3
<1>2. ASSUME i < get_folder_file_count(f) PROVE Found(i, f) # {}
    <2> DEFINE T == {s \in 0 .. MaxFileEntries : i < MatchesBefore(s, f)}
    <2>1. T \subseteq Nat /\ MaxFileEntries \in T
        BY <1>0, <1>2, MatchesCount
    <2>2. PICK m \in T : \A s \in T : m <= s
        <3> HIDE DEF T
        <3> QED BY <2>1, Smallest
    <2>3. m \in 0 .. MaxFileEntries /\ i < MatchesBefore(m, f) /\ m # 0
        BY MatchesCount
    <2>4. PICK k \in Slots : m = k + 1
        <3>1. m - 1 \in Slots /\ m = (m - 1) + 1
            BY <1>0, <2>3 DEF Slots
        <3> QED BY <3>1
    <2>5. k \in 0 .. MaxFileEntries /\ k \notin T
        BY <1>0, <2>2, <2>3, <2>4
    <2>6. /\ MatchesBefore(k, f) \in Nat /\ MatchesBefore(k, f) <= i
          /\ MatchesBefore(m, f)
               = IF Owned(k, f) THEN MatchesBefore(k, f) + 1
                                    ELSE MatchesBefore(k, f)
        BY <2>4, <2>5, MatchesCount
    <2>7. Owned(k, f) /\ MatchesBefore(k, f) = i
        BY <2>3, <2>6
    <2> QED BY <2>7 DEF Found
<1> QED BY <1>1, <1>2

\* The queries agree, in every table: main.cpp may loop to the count of a folder and
\* use what the queries return for each index below it.
THEOREM QueriesAlwaysAgree == VfatSpec => []QueriesAgree
<1>1. QueriesAgree
    <2> SUFFICES ASSUME NEW f \in Folders
                 PROVE  /\ \A i \in 0 .. MaxFileEntries :
                              Lookup(i, f) # NoSlot <=> i < get_folder_file_count(f)
                        /\ \A i, j \in 0 .. get_folder_file_count(f) - 1 :
                              i < j => Lookup(i, f) < Lookup(j, f)
        BY DEF QueriesAgree
    <2>1. ASSUME NEW i \in Nat, Found(i, f) # {}
          PROVE  /\ Lookup(i, f) \in Slots /\ Lookup(i, f) # NoSlot
                 /\ MatchesBefore(Lookup(i, f), f) = i
        <3>1. PICK s \in Found(i, f) : TRUE
            BY <2>1
        <3>2. Lookup(i, f) = s
            BY LookupFinds
        <3> QED BY <3>2 DEF Found, Slots, NoSlot
    <2>2. ASSUME NEW i \in 0 .. MaxFileEntries
          PROVE  Lookup(i, f) # NoSlot <=> i < get_folder_file_count(f)
        <3>1. i \in Nat
            OBVIOUS
        <3> QED BY <2>1, <3>1, FoundBelowCount, LookupFails
    <2>3. ASSUME NEW i \in 0 .. get_folder_file_count(f) - 1,
                 NEW j \in 0 .. get_folder_file_count(f) - 1, i < j
          PROVE  Lookup(i, f) < Lookup(j, f)
        <3>1. get_folder_file_count(f) \in Nat
            <4>1. MaxFileEntries \in 0 .. MaxFileEntries
                OBVIOUS
            <4> QED BY <4>1, MatchesCount
        <3>2. /\ i \in Nat /\ i < get_folder_file_count(f)
              /\ j \in Nat /\ j < get_folder_file_count(f)
            BY <3>1
        <3>3. Lookup(i, f) \in Slots /\ MatchesBefore(Lookup(i, f), f) = i
            BY <2>1, <3>2, FoundBelowCount
        <3>4. Lookup(j, f) \in Slots /\ MatchesBefore(Lookup(j, f), f) = j
            BY <2>1, <3>2, FoundBelowCount
        <3>5. Lookup(j, f) <= Lookup(i, f) => j <= i
            BY <3>3, <3>4, MatchesCount DEF Slots
        <3> QED BY <2>3, <3>2, <3>3, <3>4, <3>5 DEF Slots
    <2> QED BY <2>2, <2>3
<1> QED BY <1>1, PTL

-----------------------------------------------------------------------------
(* The refinement.                                                         *)

catalog == [k \in 1 .. active_files_count |-> files[k - 1]]

\* The table of the RAM disk implements a bounded list that only grows.
THEOREM ImplementsCatalog == VfatSpec => RefinesCatalog
<1>1. VfatInit => Abstract!Init
    BY DEF VfatInit, Abstract!Init
<1>2. ASSUME TableInv, NEW n \in Names, NEW f \in Folders, NEW c \in Contents,
             AppendsEntry(n, f, c)
      PROVE  Abstract!Next
    <2> DEFINE e == Entry(n, f, c)
               m == active_files_count
    <2>1. m \in Nat /\ m \in Slots
        BY <1>2 DEF TableInv, VfatTypeOK, AppendsEntry, Slots
    <2>2. Len(catalog) = m
        BY <2>1 DEF catalog
    <2>3. \A k \in 1 .. m : files'[k - 1] = files[k - 1]
        BY <1>2, <2>1 DEF AppendsEntry, TableInv, VfatTypeOK, Slots
    <2>4. files'[m] = e
        <3>1. files \in [Slots -> Entries]
            BY <1>2 DEF TableInv, VfatTypeOK
        <3>2. files' = [files EXCEPT ![active_files_count] = Entry(n, f, c)]
            BY <1>2 DEF AppendsEntry
        <3> QED BY <2>1, <3>1, <3>2
    <2>5. catalog' = [k \in 1 .. m + 1 |-> files'[k - 1]]
        BY <1>2 DEF catalog, AppendsEntry
    <2>6. catalog \in Seq(Entries)
        <3>1. files \in [Slots -> Entries]
            BY <1>2 DEF TableInv, VfatTypeOK
        <3>2. \A k \in 1 .. m : k - 1 \in Slots
            BY <2>1 DEF Slots
        <3>3. catalog \in [1 .. m -> Entries]
            BY <3>1, <3>2 DEF catalog
        <3> QED BY <2>1, <3>3
    <2>7. catalog' = Append(catalog, e)
        <3>1. /\ Append(catalog, e) \in Seq(Entries)
              /\ Len(Append(catalog, e)) = m + 1
              /\ \A k \in 1 .. m : Append(catalog, e)[k] = catalog[k]
              /\ Append(catalog, e)[m + 1] = e
            BY <2>2, <2>6, EntryType, AppendProperties
        <3>2. catalog' \in Seq(Entries) /\ Len(catalog') = m + 1
            <4>1. files' \in [Slots -> Entries]
                BY <1>2, AppendPreserves DEF TableInv, VfatTypeOK
            <4>2. \A k \in 1 .. m + 1 : k - 1 \in Slots
                BY <2>1 DEF Slots
            <4>3. catalog' \in [1 .. m + 1 -> Entries]
                BY <2>5, <4>1, <4>2
            <4> QED BY <2>1, <4>3
        <3>3. \A k \in 1 .. m + 1 : catalog'[k] = files'[k - 1]
            BY <2>5
        <3>4. \A k \in 1 .. m : catalog[k] = files[k - 1]
            BY DEF catalog
        <3>5. ASSUME NEW k \in 1 .. m + 1
              PROVE  catalog'[k] = Append(catalog, e)[k]
            <4>1. CASE k \in 1 .. m
                BY <2>3, <3>1, <3>3, <3>4, <4>1
            <4>2. CASE k = m + 1
                BY <2>1, <2>4, <3>1, <3>3, <4>2
            <4>3. k \in 1 .. m \/ k = m + 1
                BY <2>1
            <4> QED BY <4>1, <4>2, <4>3
        <3> HIDE DEF e, m
        <3> QED BY <3>1, <3>2, <3>5, SeqEqual
    <2>8. e \in StoredFiles
        BY DEF StoredFiles
    <2>9. Abstract!Add(e)
        BY <1>2, <2>2, <2>7 DEF Abstract!Add, AppendsEntry, catalog
    <2> QED BY <2>8, <2>9 DEF Abstract!Next
<1>3. TableInv /\ [VfatNext]_vfat_vars => [Abstract!Next]_catalog
    <2> SUFFICES ASSUME TableInv, [VfatNext]_vfat_vars PROVE [Abstract!Next]_catalog
        OBVIOUS
    <2>1. UNCHANGED vfat_vars => UNCHANGED catalog
        BY DEF vfat_vars, catalog
    <2>2. ASSUME NEW n \in Names, NEW f \in Folders, NEW c \in Contents,
                 create_virtual_file(n, f, c)
          PROVE  [Abstract!Next]_catalog
        BY <1>2, <2>1, <2>2, CreateAppends
    <2> QED BY <2>1, <2>2 DEF VfatNext
<1> QED BY <1>1, <1>3, TableInvariance, PTL DEF VfatSpec, RefinesCatalog,
    Abstract!Spec, catalog

-----------------------------------------------------------------------------
(* The loop: keys.                                                         *)

HIDE VfatAssumption DEF VfatAssumption

Scancode == [scancode : Nat, press : Nat]

Codes == {k.code : k \in Keys}

IsMake(b) == b.scancode \in Codes /\ b.press \in 1 .. presses

\* A release, or the prefix of an extended key.
IsBreak(b) == b.scancode >= ReleasedBit /\ b.press = NoPress

\* The scancode of the byte before the next one to be read, or before the n-th of
\* the queue: what the debouncer will compare the byte after it with.
Code(n) == IF n = 0 THEN last_scancode ELSE wire[n].scancode
LatestCode == Code(Len(wire))
IsNew(n) == Code(n - 1) # wire[n].scancode

ActedPresses == {acted[i] : i \in 1 .. Len(acted)}

\* The presses that were acted upon or are told by the first n bytes of the queue.
Told(n) == ActedPresses \cup {wire[j].press : j \in 1 .. n}
AllTold == Told(Len(wire))

KeyTypes ==
    /\ presses \in Nat /\ last_scancode \in Nat
    /\ latch \in Scancode /\ wire \in Seq(Scancode)
    /\ \A n \in 1 .. Len(wire) : IsMake(wire[n]) \/ IsBreak(wire[n])
    /\ acted \in Seq(Nat) /\ ActedPresses \subseteq 1 .. presses
    /\ held \subseteq Keys
    /\ repeating.press \in Nat
    /\ repeating.press # NoPress => repeating.key \in Keys /\ repeating.press \in 1 .. presses
    /\ extended_presses \subseteq 1 .. presses
    /\ prefixed \in BOOLEAN /\ lost \in BOOLEAN
    /\ overlapped \in BOOLEAN /\ collided \in BOOLEAN

\* The last byte that was read is the one the debouncer remembers; before the first
\* poll it is a release, or none.
LatchIsRemembered ==
    latch.scancode = last_scancode \/ (last_scancode = 0 /\ latch.scancode >= ReleasedBit)

\* A byte the debouncer is going to drop tells of a press that an earlier byte told of.
DropsKnown ==
    \A n \in 1 .. Len(wire) :
        wire[n].press # NoPress => IsNew(n) \/ wire[n].press \in Told(n - 1)

\* A byte it is going to pass tells of a later press than every byte before it, or
\* of the same one when its key is an extended one.
PassesInOrder ==
    \A n \in 1 .. Len(wire) :
        wire[n].press # NoPress /\ IsNew(n) =>
            \A p \in Told(n - 1) : Precedes(p, wire[n].press)

\* While no byte was lost and no two keys of the same code were down, every press was
\* told of, and the latest byte does not look like the next press of a key that is up.
NothingSwallowed ==
    /\ DropsKnown
    /\ 1 .. presses \subseteq AllTold
    /\ LatestCode \in Codes => \E j \in held : j.code = LatestCode
    /\ repeating.press # NoPress => repeating.key \in held

\* The byte that is sent again is dropped, or none of its press got through; unless
\* its key is an extended one, or a prefix says that it is not the next to send.
RepeatIsKnown ==
    \/ repeating.press \in extended_presses
    \/ prefixed
    \/ LatestCode = repeating.key.code
    \/ \A p \in AllTold : p < repeating.press

\* While keys are pressed one at a time, the latest press is the one that repeats.
NothingTwice ==
    /\ ActsInOrder
    /\ PassesInOrder
    /\ repeating.press # NoPress =>
          /\ RepeatIsKnown
          /\ repeating.press = presses
          /\ repeating.key.extended => repeating.press \in extended_presses
    /\ held = IF repeating.press = NoPress THEN {} ELSE {repeating.key}

KeyInv ==
    /\ KeyTypes
    /\ LatchIsRemembered
    /\ ~lost /\ ~collided => NothingSwallowed
    /\ ~overlapped => NothingTwice

\* What a poll does to the bytes: it takes one, remembers it, and acts upon it when
\* it is a press and differs from the one before.
Consumes ==
    /\ ReadPort
    /\ last_scancode' = live_scancode
    /\ acted' = IF Fresh /\ ~IsRelease THEN Append(acted, Answer.press) ELSE acted
    /\ UNCHANGED keyboard

\* What a byte that is sent does: it is queued, or lost.
Sends(b) ==
    /\ \/ wire' = Append(wire, b) /\ lost' = lost
       \/ wire' = wire /\ lost' = TRUE
    /\ UNCHANGED <<latch, last_scancode, acted>>

Presses(k) ==
    /\ prefixed = k.extended /\ prefixed' = FALSE
    /\ k \notin held
    /\ held' = held \cup {k}
    /\ presses' = presses + 1
    /\ extended_presses' = IF k.extended THEN extended_presses \cup {presses + 1}
                                         ELSE extended_presses
    /\ repeating' = [key |-> k, press |-> presses + 1]
    /\ overlapped' = (overlapped \/ held # {})
    /\ collided' = (collided \/ \E j \in held : j.code = k.code)
    /\ Sends(Byte(k.code, presses + 1))

Releases(k) ==
    /\ prefixed' = FALSE
    /\ k \in held
    /\ held' = held \ {k}
    /\ repeating' = IF repeating.key = k THEN [key |-> NoKey, press |-> NoPress] ELSE repeating
    /\ Sends(Byte(k.code + ReleasedBit, NoPress))
    /\ UNCHANGED <<presses, overlapped, collided, extended_presses>>

Repeats ==
    /\ repeating.press # NoPress
    /\ prefixed = repeating.key.extended /\ prefixed' = FALSE
    /\ Sends(Byte(repeating.key.code, repeating.press))
    /\ UNCHANGED <<held, repeating, presses, overlapped, collided, extended_presses>>

Prefixes ==
    /\ prefixed' = TRUE
    /\ Sends(Byte(PrefixCode, NoPress))
    /\ UNCHANGED <<held, repeating, presses, overlapped, collided, extended_presses>>

Untouched == UNCHANGED <<wire, latch, last_scancode, acted, prefixed, held, repeating,
                         presses, lost, overlapped, collided, extended_presses>>

\* Every step is one of these.
LEMMA StepsOfKeys ==
    ASSUME [Next]_vars
    PROVE  \/ Consumes
           \/ \E k \in Keys : Presses(k) \/ Releases(k)
           \/ Repeats
           \/ Prefixes
           \/ Untouched
<1>1. CASE PollSame
    BY <1>1 DEF PollSame, StartOfFrame, Consumes, Fresh
<1>2. CASE PollRelease
    BY <1>2 DEF PollRelease, StartOfFrame, Consumes, Remembered
<1>3. CASE PollPress
    BY <1>3 DEF PollPress, StartOfFrame, Consumes, Remembered
<1>4. CASE Seed \/ Draw \/ UNCHANGED vars
    BY <1>4 DEF Seed, Draw, vars, keyboard, Untouched
<1>5. ASSUME NEW k \in Keys, KeyDown(k) PROVE Presses(k)
    BY <1>5 DEF KeyDown, CodeFollows, Send, Sends, Presses
<1>6. ASSUME NEW k \in Keys, KeyUp(k) PROVE Releases(k)
    BY <1>6 DEF KeyUp, CodeFollows, Send, Sends, Releases
<1>7. ASSUME Repeat PROVE Repeats
    BY <1>7 DEF Repeat, CodeFollows, Send, Sends, Repeats
<1>8. ASSUME Prefix PROVE Prefixes
    BY <1>8 DEF Prefix, Send, Sends, Prefixes
<1> QED BY <1>1, <1>2, <1>3, <1>4, <1>5, <1>6, <1>7, <1>8 DEF Next, Loop

\* A scancode of a key is no release, and not the byte of a controller that never
\* had one.
LEMMA KeyCodes ==
    /\ \A c \in Codes : c \in Nat /\ c # 0 /\ c < 128
    /\ \A k \in Keys : k.code \in Codes /\ k.extended \in BOOLEAN
<1>1. \A k \in Keys : k.code \in 1 .. 127 /\ k.extended \in BOOLEAN
    BY WorkstationAssumption DEF WorkstationAssumption, ReleasedBit
<1> QED BY <1>1 DEF Codes

\* An index of the longer sequence is the last one, or one of the shorter.
LEMMA LastOrBefore ==
    ASSUME NEW n \in Nat, NEW j \in 1 .. n + 1
    PROVE  j \in 1 .. n \/ j = n + 1
OBVIOUS

\* A press that is acted upon is added to those that were.
LEMMA ActingAdds ==
    ASSUME acted \in Seq(Nat), NEW p \in Nat, acted' = Append(acted, p),
           extended_presses' = extended_presses
    PROVE  /\ acted' \in Seq(Nat)
           /\ ActedPresses' = ActedPresses \cup {p}
           /\ ActsInOrder /\ (\A q \in ActedPresses : Precedes(q, p)) => ActsInOrder'
<1>1. /\ acted' \in Seq(Nat) /\ Len(acted) \in Nat /\ Len(acted') = Len(acted) + 1
      /\ \A i \in 1 .. Len(acted) : acted'[i] = acted[i]
      /\ acted'[Len(acted) + 1] = p
    BY AppendProperties, LenProperties
<1>2. ActedPresses' = ActedPresses \cup {p}
    <2>1. ASSUME NEW q \in ActedPresses PROVE q \in ActedPresses'
        <3>1. PICK i \in 1 .. Len(acted) : q = acted[i]
            BY <2>1 DEF ActedPresses
        <3>2. i \in 1 .. Len(acted') /\ acted'[i] = q
            BY <1>1, <3>1
        <3> QED BY <3>2 DEF ActedPresses
    <2>2. p \in ActedPresses'
        <3>1. Len(acted) + 1 \in 1 .. Len(acted')
            BY <1>1
        <3> QED BY <1>1, <3>1 DEF ActedPresses
    <2>3. ASSUME NEW q \in ActedPresses' PROVE q \in ActedPresses \/ q = p
        <3>1. PICK i \in 1 .. Len(acted') : q = acted'[i]
            BY <2>3 DEF ActedPresses
        <3>2. i \in 1 .. Len(acted) \/ i = Len(acted) + 1
            BY <1>1
        <3> QED BY <1>1, <3>1, <3>2 DEF ActedPresses
    <2> QED BY <2>1, <2>2, <2>3
<1>3. ASSUME ActsInOrder, \A q \in ActedPresses : Precedes(q, p) PROVE ActsInOrder'
    <2> SUFFICES ASSUME NEW i \in 1 .. Len(acted'), NEW j \in 1 .. Len(acted'), i < j
                 PROVE  Precedes(acted'[i], acted'[j])
        BY DEF ActsInOrder, Precedes
    <2>1. CASE j \in 1 .. Len(acted)
        <3>1. i \in 1 .. Len(acted)
            BY <1>1, <2>1
        <3> QED BY <1>1, <1>3, <2>1, <3>1 DEF ActsInOrder
    <2>2. CASE j = Len(acted) + 1
        <3>1. i \in 1 .. Len(acted) /\ acted[i] \in ActedPresses
            BY <1>1, <2>2 DEF ActedPresses
        <3> QED BY <1>1, <1>3, <2>2, <3>1
    <2>3. j \in 1 .. Len(acted) \/ j = Len(acted) + 1
        <3>1. PICK n \in Nat : n = Len(acted) /\ n + 1 = Len(acted')
            BY <1>1
        <3>2. j \in 1 .. n + 1
            BY <3>1
        <3>3. j \in 1 .. n \/ j = n + 1
            BY <3>2, LastOrBefore
        <3> QED BY <3>1, <3>3
    <2> QED BY <2>1, <2>2, <2>3
<1> QED BY <1>1, <1>2, <1>3

\* A poll of an empty controller reads the last byte again, and drops it unless it is
\* the release from before the first poll.
LEMMA PollsEmpty ==
    ASSUME KeyTypes, LatchIsRemembered, Consumes, wire = << >>
    PROVE  /\ wire' = << >> /\ latch' = latch /\ acted' = acted
           /\ last_scancode' = latch.scancode /\ UNCHANGED keyboard
BY DEF KeyTypes, LatchIsRemembered, Consumes, ReadPort, Answer, live_scancode, Fresh,
       IsRelease, Scancode, ReleasedBit

\* A poll of one that is not takes the first byte of its queue.
LEMMA PollsByte ==
    ASSUME KeyTypes, Consumes, wire # << >>
    PROVE  /\ Len(wire) \in Nat \ {0} /\ wire[1] \in Scancode
           /\ wire' \in Seq(Scancode) /\ Len(wire') = Len(wire) - 1
           /\ \A n \in 1 .. Len(wire') : wire'[n] = wire[n + 1]
           /\ latch' = wire[1] /\ last_scancode' = wire[1].scancode
           /\ acted' = IF IsNew(1) /\ wire[1].press # NoPress
                       THEN Append(acted, wire[1].press) ELSE acted
           /\ UNCHANGED keyboard
<1>1. /\ wire \in Seq(Scancode) /\ Len(wire) \in Nat \ {0}
      /\ Head(wire) = wire[1] /\ wire[1] \in Scancode
      /\ Tail(wire) \in Seq(Scancode) /\ Len(Tail(wire)) = Len(wire) - 1
      /\ \A n \in 1 .. Len(Tail(wire)) : Tail(wire)[n] = wire[n + 1]
    BY HeadTailProperties, LenProperties, EmptySeq, ElementOfSeq DEF KeyTypes
<1>2. Answer = wire[1] /\ live_scancode = wire[1].scancode
    BY <1>1 DEF Answer, live_scancode
<1>3. presses \in Nat /\ (IsMake(wire[1]) \/ IsBreak(wire[1]))
    BY <1>1 DEF KeyTypes
<1>4. IsRelease <=> wire[1].press = NoPress
    <2>1. wire[1].scancode \in Nat /\ wire[1].press \in Nat
        BY <1>1 DEF Scancode
    <2>2. IsMake(wire[1]) => wire[1].scancode < 128 /\ wire[1].press # 0
        BY <1>3, KeyCodes DEF IsMake
    <2>3. IsBreak(wire[1]) => wire[1].scancode >= 128 /\ wire[1].press = 0
        BY DEF IsBreak, ReleasedBit, NoPress
    <2> QED BY <1>2, <1>3, <2>1, <2>2, <2>3 DEF IsRelease, ReleasedBit, NoPress
<1>5. Fresh <=> IsNew(1)
    BY <1>2 DEF Fresh, IsNew, Code
<1> QED BY <1>1, <1>2, <1>4, <1>5 DEF Consumes, ReadPort, Answer

\* After a byte was taken every byte is compared with the one before it, as it would
\* have been, and what the bytes up to one tell of is what they and the byte told of.
LEMMA ReadingShifts ==
    ASSUME KeyTypes, Consumes, wire # << >>
    PROVE  /\ \A n \in 0 .. Len(wire') : Code(n)' = Code(n + 1)
           /\ \A n \in 1 .. Len(wire') : IsNew(n)' <=> IsNew(n + 1)
           /\ \A n \in 0 .. Len(wire') : Told(n)' \subseteq Told(n + 1)
           /\ (wire[1].press # NoPress => IsNew(1) \/ wire[1].press \in Told(0))
                => \A n \in 0 .. Len(wire') : Told(n + 1) \subseteq Told(n)' \cup {NoPress}
<1>1. /\ Len(wire) \in Nat \ {0} /\ wire[1] \in Scancode
      /\ Len(wire') = Len(wire) - 1
      /\ \A n \in 1 .. Len(wire') : wire'[n] = wire[n + 1]
      /\ last_scancode' = wire[1].scancode
      /\ acted' = IF IsNew(1) /\ wire[1].press # NoPress
                  THEN Append(acted, wire[1].press) ELSE acted
    BY PollsByte
<1>2. /\ acted \in Seq(Nat) /\ wire[1].press \in Nat
    BY <1>1 DEF KeyTypes, Scancode
<1>3. /\ \A n \in 0 .. Len(wire') : Code(n)' = Code(n + 1)
      /\ \A n \in 1 .. Len(wire') : IsNew(n)' <=> IsNew(n + 1)
    <2>1. ASSUME NEW n \in 0 .. Len(wire') PROVE Code(n)' = Code(n + 1)
        BY <1>1 DEF Code
    <2>2. ASSUME NEW n \in 1 .. Len(wire') PROVE IsNew(n)' <=> IsNew(n + 1)
        <3>1. n - 1 \in 0 .. Len(wire') /\ (n - 1) + 1 = n /\ (n + 1) - 1 = n
            BY <1>1
        <3>2. Code(n - 1)' = Code(n) /\ wire'[n] = wire[n + 1]
            BY <1>1, <2>1, <3>1
        <3> QED BY <3>1, <3>2 DEF IsNew
    <2> QED BY <2>1, <2>2
<1>4. ActedPresses' = IF IsNew(1) /\ wire[1].press # NoPress
                      THEN ActedPresses \cup {wire[1].press} ELSE ActedPresses
    <2>1. CASE IsNew(1) /\ wire[1].press # NoPress
        BY <1>1, <1>2, <2>1, ActingAdds DEF Consumes, keyboard
    <2>2. CASE ~(IsNew(1) /\ wire[1].press # NoPress)
        BY <1>1, <2>2 DEF ActedPresses
    <2> QED BY <2>1, <2>2
<1>5. ASSUME NEW n \in 0 .. Len(wire') PROVE Told(n)' \subseteq Told(n + 1)
    <2>1. ASSUME NEW p \in Told(n)' PROVE p \in Told(n + 1)
        <3>1. CASE p \in ActedPresses'
            <4>1. 1 \in 1 .. n + 1
                OBVIOUS
            <4> QED BY <1>4, <3>1, <4>1 DEF Told
        <3>2. ASSUME NEW j \in 1 .. n, p = wire'[j].press PROVE p \in Told(n + 1)
            <4>1. j \in 1 .. Len(wire') /\ j + 1 \in 1 .. n + 1
                BY <1>1
            <4> QED BY <1>1, <3>2, <4>1 DEF Told
        <3> QED BY <2>1, <3>1, <3>2 DEF Told
    <2> QED BY <2>1
<1>6. ASSUME wire[1].press # NoPress => IsNew(1) \/ wire[1].press \in Told(0),
             NEW n \in 0 .. Len(wire'), NEW p \in Told(n + 1), p # NoPress
      PROVE  p \in Told(n)'
    <2>1. CASE p \in ActedPresses
        BY <1>4, <2>1 DEF Told
    <2>2. CASE p = wire[1].press
        <3>1. Told(0) = ActedPresses
            BY DEF Told
        <3> QED BY <1>4, <1>6, <2>2, <3>1 DEF Told
    <2>3. ASSUME NEW j \in 1 .. n + 1, j # 1, p = wire[j].press PROVE p \in Told(n)'
        <3>1. j - 1 \in 1 .. n /\ j - 1 \in 1 .. Len(wire') /\ (j - 1) + 1 = j
            BY <1>1, <2>3
        <3>2. wire'[j - 1] = wire[j]
            BY <1>1, <3>1
        <3> QED BY <2>3, <3>1, <3>2 DEF Told
    <2> QED BY <1>6, <2>1, <2>2, <2>3 DEF Told
<1> QED BY <1>3, <1>5, <1>6

\* Polling an empty controller keeps the invariant.
LEMMA EmptyPollKeeps ==
    ASSUME KeyInv, Consumes, wire = << >>
    PROVE  KeyInv'
<1>1. /\ wire' = << >> /\ latch' = latch /\ acted' = acted
      /\ last_scancode' = latch.scancode /\ UNCHANGED keyboard
    BY PollsEmpty DEF KeyInv
<1>2. KeyTypes'
    BY <1>1 DEF KeyInv, KeyTypes, Scancode, keyboard, IsMake, IsBreak, ActedPresses
<1>3. LatchIsRemembered'
    BY <1>1 DEF LatchIsRemembered
<1>4. /\ Len(wire) = 0 /\ Len(wire') = 0
      /\ LatestCode = last_scancode /\ LatestCode' = latch.scancode
    BY <1>1 DEF LatestCode, Code
<1>5. AllTold' = AllTold
    BY <1>1, <1>4 DEF AllTold, Told, ActedPresses
<1>6. LatestCode' \in Codes \/ LatestCode \in Codes => LatestCode' = LatestCode
    <2>1. \A c \in Codes : c # 0 /\ c \in Nat /\ c < 128
        BY KeyCodes
    <2> QED BY <1>4, <2>1 DEF KeyInv, LatchIsRemembered, ReleasedBit
<1>7. ASSUME ~lost', ~collided' PROVE NothingSwallowed'
    <2>1. NothingSwallowed
        BY <1>1, <1>7 DEF KeyInv, keyboard
    <2>2. 1 .. presses' \subseteq AllTold'
        BY <1>1, <1>5, <2>1 DEF NothingSwallowed, DropsKnown, keyboard
    <2> QED BY <1>1, <1>4, <1>6, <2>1, <2>2 DEF NothingSwallowed, DropsKnown, keyboard
<1>8. ASSUME ~overlapped' PROVE NothingTwice'
    <2>1. NothingTwice
        BY <1>1, <1>8 DEF KeyInv, keyboard
    <2>2. repeating.press # NoPress => repeating.key.code \in Codes
        BY KeyCodes DEF KeyInv, KeyTypes
    <2>3. repeating.press # NoPress => RepeatIsKnown'
        BY <1>1, <1>5, <1>6, <2>1, <2>2 DEF NothingTwice, RepeatIsKnown, keyboard
    <2>4. ActsInOrder'
        BY <1>1, <2>1 DEF NothingTwice, ActsInOrder, Precedes, keyboard
    <2>5. PassesInOrder'
        BY <1>4 DEF PassesInOrder
    <2> QED BY <1>1, <2>1, <2>3, <2>4, <2>5 DEF NothingTwice, keyboard
<1> QED BY <1>2, <1>3, <1>7, <1>8 DEF KeyInv

\* Taking a byte keeps the invariant.
LEMMA PollKeeps ==
    ASSUME KeyInv, Consumes, wire # << >>
    PROVE  KeyInv'
<1>1. /\ Len(wire) \in Nat \ {0} /\ wire[1] \in Scancode
      /\ wire' \in Seq(Scancode) /\ Len(wire') = Len(wire) - 1
      /\ \A n \in 1 .. Len(wire') : wire'[n] = wire[n + 1]
      /\ latch' = wire[1] /\ last_scancode' = wire[1].scancode
      /\ acted' = IF IsNew(1) /\ wire[1].press # NoPress
                  THEN Append(acted, wire[1].press) ELSE acted
      /\ UNCHANGED keyboard
    BY PollsByte DEF KeyInv
<1>2. /\ \A n \in 0 .. Len(wire') : Code(n)' = Code(n + 1)
      /\ \A n \in 1 .. Len(wire') : IsNew(n)' <=> IsNew(n + 1)
      /\ \A n \in 0 .. Len(wire') : Told(n)' \subseteq Told(n + 1)
      /\ (wire[1].press # NoPress => IsNew(1) \/ wire[1].press \in Told(0))
           => \A n \in 0 .. Len(wire') : Told(n + 1) \subseteq Told(n)' \cup {NoPress}
    BY ReadingShifts DEF KeyInv
<1>3. /\ LatestCode' = LatestCode
      /\ AllTold' \subseteq AllTold
      /\ (wire[1].press # NoPress => IsNew(1) \/ wire[1].press \in Told(0))
           => AllTold \subseteq AllTold' \cup {NoPress}
    <2>1. PICK m \in Nat : m = Len(wire') /\ m + 1 = Len(wire)
        BY <1>1
    <2>2. LatestCode' = Code(m)' /\ AllTold' = Told(m)'
        BY <2>1 DEF LatestCode, Code, AllTold, Told
    <2>3. LatestCode = Code(m + 1) /\ AllTold = Told(m + 1)
        BY <2>1 DEF LatestCode, AllTold
    <2>4. m \in 0 .. Len(wire')
        BY <2>1
    <2> QED BY <1>2, <2>2, <2>3, <2>4
<1>4. UNCHANGED <<prefixed, held, repeating, presses, lost, overlapped, collided,
                  extended_presses>>
    BY <1>1 DEF keyboard
<1>5. \A n \in 1 .. Len(wire) : IsMake(wire[n]) \/ IsBreak(wire[n])
    BY DEF KeyInv, KeyTypes
<1>6. /\ acted \in Seq(Nat) /\ wire[1].press \in Nat /\ presses \in Nat
      /\ ActedPresses \subseteq 1 .. presses
      /\ wire[1].press # NoPress => wire[1].press \in 1 .. presses
    <2>1. Len(wire) \in Nat \ {0} /\ wire[1] \in Scancode
        BY <1>1
    <2>2. IsMake(wire[1]) \/ IsBreak(wire[1])
        BY <1>5, <2>1
    <2>3. acted \in Seq(Nat) /\ presses \in Nat /\ ActedPresses \subseteq 1 .. presses
        BY DEF KeyInv, KeyTypes
    <2> QED BY <2>1, <2>2, <2>3 DEF Scancode, IsMake, IsBreak
<1>7. /\ acted' \in Seq(Nat)
      /\ ActedPresses' = IF IsNew(1) /\ wire[1].press # NoPress
                         THEN ActedPresses \cup {wire[1].press} ELSE ActedPresses
    <2>1. CASE IsNew(1) /\ wire[1].press # NoPress
        BY <1>1, <1>4, <1>6, <2>1, ActingAdds
    <2>2. CASE ~(IsNew(1) /\ wire[1].press # NoPress)
        BY <1>1, <1>6, <2>2 DEF ActedPresses
    <2> QED BY <2>1, <2>2
<1>8. KeyTypes'
    <2>1. ActedPresses' \subseteq 1 .. presses'
        BY <1>4, <1>6, <1>7
    <2>2. (\A n \in 1 .. Len(wire) : IsMake(wire[n]) \/ IsBreak(wire[n]))'
        BY <1>1, <1>4, <1>5 DEF IsMake, IsBreak
    <2>3. last_scancode' \in Nat /\ latch' \in Scancode
        BY <1>1 DEF Scancode
    <2> QED BY <1>1, <1>4, <1>7, <2>1, <2>2, <2>3 DEF KeyInv, KeyTypes, IsMake
<1>9. LatchIsRemembered'
    BY <1>1 DEF LatchIsRemembered
<1>10. ASSUME ~lost', ~collided' PROVE NothingSwallowed'
    <2>1. NothingSwallowed
        BY <1>4, <1>10 DEF KeyInv
    <2>2. \A n \in 0 .. Len(wire') : Told(n + 1) \subseteq Told(n)' \cup {NoPress}
        <3>1. 1 \in 1 .. Len(wire) /\ 1 - 1 = 0
            BY <1>1
        <3> QED BY <1>2, <2>1, <3>1 DEF NothingSwallowed, DropsKnown
    <2>3. ASSUME NEW n \in 1 .. Len(wire'), wire'[n].press # NoPress
          PROVE  IsNew(n)' \/ wire'[n].press \in Told(n - 1)'
        <3>1. n + 1 \in 1 .. Len(wire) /\ (n + 1) - 1 = n
              /\ n - 1 \in 0 .. Len(wire') /\ (n - 1) + 1 = n
            BY <1>1
        <3>2. IsNew(n + 1) \/ wire[n + 1].press \in Told(n)
            BY <1>1, <2>1, <2>3, <3>1 DEF NothingSwallowed, DropsKnown
        <3>3. Told(n) \subseteq Told(n - 1)' \cup {NoPress}
            BY <2>2, <3>1
        <3> QED BY <1>1, <1>2, <2>3, <3>2, <3>3
    <2>4. 1 .. presses' \subseteq AllTold'
        <3>1. AllTold \subseteq AllTold' \cup {NoPress}
            <4>1. 1 \in 1 .. Len(wire) /\ 1 - 1 = 0
                BY <1>1
            <4> QED BY <1>3, <2>1, <4>1 DEF NothingSwallowed, DropsKnown
        <3>2. 1 .. presses \subseteq AllTold /\ NoPress \notin 1 .. presses
            BY <1>6, <2>1 DEF NothingSwallowed, DropsKnown, NoPress
        <3> QED BY <1>4, <3>1, <3>2
    <2> QED BY <1>3, <1>4, <2>1, <2>3, <2>4 DEF NothingSwallowed, DropsKnown
<1>11. ASSUME ~overlapped' PROVE NothingTwice'
    <2>1. NothingTwice
        BY <1>4, <1>11 DEF KeyInv
    <2>2. ASSUME NEW n \in 1 .. Len(wire'), wire'[n].press # NoPress, IsNew(n)',
                 NEW p \in Told(n - 1)'
          PROVE  Precedes(p, wire'[n].press)
        <3>1. n + 1 \in 1 .. Len(wire) /\ (n + 1) - 1 = n
              /\ n - 1 \in 0 .. Len(wire') /\ (n - 1) + 1 = n
            BY <1>1
        <3>2. p \in Told(n) /\ IsNew(n + 1) /\ wire'[n] = wire[n + 1]
            BY <1>1, <1>2, <2>2, <3>1
        <3> QED BY <2>1, <2>2, <3>1, <3>2 DEF NothingTwice, PassesInOrder
    <2>3. PassesInOrder'
        BY <1>4, <2>2 DEF PassesInOrder, Precedes
    <2>4. ActsInOrder'
        <3>1. CASE IsNew(1) /\ wire[1].press # NoPress
            <4>1. 1 \in 1 .. Len(wire) /\ 1 - 1 = 0
                BY <1>1
            <4>2. \A p \in Told(0) : Precedes(p, wire[1].press)
                BY <2>1, <3>1, <4>1 DEF NothingTwice, PassesInOrder
            <4>3. \A p \in ActedPresses : Precedes(p, wire[1].press)
                BY <4>2 DEF Told
            <4> QED BY <1>1, <1>4, <1>6, <2>1, <3>1, <4>3, ActingAdds DEF NothingTwice
        <3>2. CASE ~(IsNew(1) /\ wire[1].press # NoPress)
            BY <1>1, <1>4, <2>1, <3>2 DEF NothingTwice, ActsInOrder, Precedes
        <3> QED BY <3>1, <3>2
    <2>5. repeating.press # NoPress => RepeatIsKnown'
        BY <1>3, <1>4, <2>1 DEF NothingTwice, RepeatIsKnown
    <2> QED BY <1>4, <2>1, <2>3, <2>4, <2>5 DEF NothingTwice
<1> QED BY <1>8, <1>9, <1>10, <1>11 DEF KeyInv

\* What is told, and how the bytes compare, when a byte is sent.
LEMMA SendingExtends ==
    ASSUME KeyTypes, NEW b \in Scancode, Sends(b), extended_presses \subseteq extended_presses'
    PROVE  \/ /\ lost' = lost /\ wire' \in Seq(Scancode)
              /\ Len(wire) \in Nat /\ Len(wire') = Len(wire) + 1
              /\ \A n \in 1 .. Len(wire) : wire'[n] = wire[n]
              /\ wire'[Len(wire) + 1] = b
              /\ LatestCode' = b.scancode /\ AllTold' = AllTold \cup {b.press}
              /\ DropsKnown /\ (b.press # NoPress => LatestCode # b.scancode
                                                     \/ b.press \in AllTold)
                   => DropsKnown'
              /\ PassesInOrder
                 /\ (b.press # NoPress => \/ LatestCode = b.scancode
                                          \/ \A p \in AllTold : Precedes(p, b.press)')
                   => PassesInOrder'
           \/ /\ lost' = TRUE /\ wire' = wire
              /\ LatestCode' = LatestCode /\ AllTold' = AllTold
              /\ PassesInOrder => PassesInOrder'
<1>1. UNCHANGED <<last_scancode, acted>>
    BY DEF Sends
<1>2. CASE wire' = Append(wire, b) /\ lost' = lost
    <2>1. /\ wire' \in Seq(Scancode) /\ Len(wire) \in Nat /\ Len(wire') = Len(wire) + 1
          /\ \A n \in 1 .. Len(wire) : wire'[n] = wire[n]
          /\ wire'[Len(wire) + 1] = b
        BY <1>2, AppendProperties, LenProperties DEF KeyTypes
    <2>2. PICK m \in Nat : m = Len(wire) /\ m + 1 = Len(wire')
        BY <2>1
    <2>3. \A n \in 0 .. m : Code(n)' = Code(n)
        BY <1>1, <2>1, <2>2 DEF Code
    <2>4. \A n \in 0 .. m : Told(n)' = Told(n)
        <3> SUFFICES ASSUME NEW n \in 0 .. m PROVE Told(n)' = Told(n)
            OBVIOUS
        <3>1. {wire'[j].press : j \in 1 .. n} = {wire[j].press : j \in 1 .. n}
            BY <2>1, <2>2
        <3> QED BY <1>1, <3>1 DEF Told, ActedPresses
    <2>5. LatestCode = Code(m) /\ AllTold = Told(m)
        BY <2>2 DEF LatestCode, AllTold
    <2>6. LatestCode' = b.scancode /\ wire'[m + 1] = b
        BY <2>1, <2>2 DEF LatestCode, Code
    <2>7. AllTold' = AllTold \cup {b.press}
        <3>1. 1 .. m + 1 = 1 .. m \cup {m + 1}
            BY <2>2
        <3>2. {wire'[j].press : j \in 1 .. m + 1} = {wire[j].press : j \in 1 .. m} \cup {b.press}
            BY <2>1, <2>2, <2>6, <3>1
        <3> QED BY <1>1, <2>2, <2>5, <3>2 DEF AllTold, Told, ActedPresses
    <2>8. ASSUME NEW n \in 1 .. m + 1, n # m + 1
          PROVE  /\ n \in 1 .. Len(wire) /\ wire'[n] = wire[n]
                 /\ IsNew(n)' <=> IsNew(n)
                 /\ Told(n - 1)' = Told(n - 1)
        <3>1. n \in 1 .. Len(wire) /\ n - 1 \in 0 .. m
            BY <2>2, <2>8
        <3> QED BY <2>1, <2>3, <2>4, <3>1 DEF IsNew
    <2>9. ASSUME NEW n \in 1 .. m + 1, n = m + 1
          PROVE  /\ wire'[n] = b
                 /\ IsNew(n)' <=> LatestCode # b.scancode
                 /\ Told(n - 1)' = AllTold
        <3>1. n - 1 = m /\ m \in 0 .. m
            BY <2>2, <2>9
        <3> QED BY <2>3, <2>4, <2>5, <2>6, <2>9, <3>1 DEF IsNew
    <2>10. ASSUME DropsKnown, b.press # NoPress => LatestCode # b.scancode \/ b.press \in AllTold
           PROVE  DropsKnown'
        <3> SUFFICES ASSUME NEW n \in 1 .. m + 1, wire'[n].press # NoPress
                     PROVE  IsNew(n)' \/ wire'[n].press \in Told(n - 1)'
            BY <2>2 DEF DropsKnown
        <3> QED BY <2>8, <2>9, <2>10 DEF DropsKnown
    <2>11. ASSUME PassesInOrder,
                  b.press # NoPress => \/ LatestCode = b.scancode
                                       \/ \A p \in AllTold : Precedes(p, b.press)'
           PROVE  PassesInOrder'
        <3> SUFFICES ASSUME NEW n \in 1 .. m + 1, wire'[n].press # NoPress, IsNew(n)',
                            NEW p \in Told(n - 1)'
                     PROVE  (\E q \in {wire[n].press} : Precedes(p, q))'
            BY <2>2 DEF PassesInOrder
        <3>1. CASE n = m + 1
            BY <2>9, <2>11, <3>1
        <3>2. CASE n # m + 1
            <4>1. n \in 1 .. Len(wire) /\ wire'[n] = wire[n] /\ IsNew(n) /\ p \in Told(n - 1)
                BY <2>8, <3>2
            <4>2. Precedes(p, wire[n].press)
                BY <2>11, <4>1 DEF PassesInOrder
            <4> QED BY <4>1, <4>2 DEF Precedes
        <3> QED BY <3>1, <3>2
    <2> QED BY <1>2, <2>1, <2>6, <2>7, <2>10, <2>11
<1>3. CASE wire' = wire /\ lost' = TRUE
    <2>1. PassesInOrder => PassesInOrder'
        <3> SUFFICES ASSUME PassesInOrder, NEW n \in 1 .. Len(wire), wire[n].press # NoPress,
                            IsNew(n), NEW p \in Told(n - 1)
                     PROVE  Precedes(p, wire[n].press)'
            BY <1>1, <1>3 DEF PassesInOrder, Told, ActedPresses, IsNew, Code
        <3>1. Precedes(p, wire[n].press)
            BY DEF PassesInOrder
        <3> QED BY <1>3, <3>1 DEF Precedes
    <2>2. LatestCode' = LatestCode /\ AllTold' = AllTold
        BY <1>1, <1>3 DEF LatestCode, Code, AllTold, Told, ActedPresses
    <2> QED BY <1>3, <2>1, <2>2
<1> QED BY <1>2, <1>3 DEF Sends

\* The types survive a byte that says what the keyboard did.
LEMMA SendingKeepsTypes ==
    ASSUME KeyTypes, NEW b \in Scancode, Sends(b),
           presses' \in Nat, presses <= presses',
           IsMake(b)' \/ IsBreak(b),
           held' \subseteq Keys, repeating'.press \in Nat,
           repeating'.press # NoPress =>
               repeating'.key \in Keys /\ repeating'.press \in 1 .. presses',
           extended_presses \subseteq extended_presses',
           extended_presses' \subseteq 1 .. presses',
           prefixed' \in BOOLEAN, overlapped' \in BOOLEAN, collided' \in BOOLEAN
    PROVE  KeyTypes'
<1>1. /\ UNCHANGED <<latch, last_scancode, acted>>
      /\ lost' \in BOOLEAN
    BY DEF Sends, KeyTypes
<1>2. ActedPresses' = ActedPresses /\ 1 .. presses \subseteq 1 .. presses'
    BY <1>1 DEF ActedPresses, KeyTypes
<1>3. /\ wire' \in Seq(Scancode)
      /\ (\A n \in 1 .. Len(wire) : IsMake(wire[n]) \/ IsBreak(wire[n]))'
    <2>1. CASE wire' = wire
        BY <1>2, <2>1 DEF KeyTypes, IsMake, IsBreak
    <2>2. CASE wire' # wire
        <3>1. /\ wire' \in Seq(Scancode) /\ Len(wire) \in Nat /\ Len(wire') = Len(wire) + 1
              /\ \A n \in 1 .. Len(wire) : wire'[n] = wire[n]
              /\ wire'[Len(wire) + 1] = b
            BY <2>2, SendingExtends
        <3>2. (\A n \in 1 .. Len(wire) : IsMake(wire[n]) \/ IsBreak(wire[n]))'
            <4> SUFFICES ASSUME NEW n \in 1 .. Len(wire')
                         PROVE  (IsMake(wire[n]) \/ IsBreak(wire[n]))'
                OBVIOUS
            <4>1. CASE n \in 1 .. Len(wire)
                BY <1>2, <3>1, <4>1 DEF KeyTypes, IsMake, IsBreak
            <4>2. CASE n = Len(wire) + 1
                BY <3>1, <4>2 DEF IsMake, IsBreak
            <4> QED BY <3>1, <4>1, <4>2
        <3> QED BY <3>1, <3>2
    <2> QED BY <2>1, <2>2
<1> QED BY <1>1, <1>2, <1>3 DEF KeyTypes

\* What has been told of is told by presses.
LEMMA ToldArePresses ==
    ASSUME KeyTypes
    PROVE  \A p \in AllTold : p \in Nat /\ p <= presses
<1>1. \A p \in ActedPresses : p \in Nat /\ p <= presses
    BY DEF KeyTypes
<1>2. \A n \in 1 .. Len(wire) : wire[n].press \in Nat /\ wire[n].press <= presses
    BY DEF KeyTypes, IsMake, IsBreak, NoPress
<1> QED BY <1>1, <1>2 DEF AllTold, Told

\* A byte that is sent is one.
LEMMA ByteIsScancode ==
    ASSUME NEW c \in Nat, NEW n \in Nat
    PROVE  \E b \in Scancode : b = Byte(c, n) /\ b.scancode = c /\ b.press = n
<1>1. Byte(c, n) \in Scancode /\ Byte(c, n).scancode = c /\ Byte(c, n).press = n
    BY DEF Scancode, Byte
<1> QED BY <1>1

\* A key goes down.
LEMMA PressKeeps ==
    ASSUME KeyInv, NEW k \in Keys, Presses(k)
    PROVE  KeyInv'
<1>0. k.code \in Codes /\ k.code \in Nat /\ presses \in Nat
    BY KeyCodes DEF KeyInv, KeyTypes
<1>1. PICK b \in Scancode :
        b = Byte(k.code, presses + 1) /\ b.scancode = k.code /\ b.press = presses + 1
    BY <1>0, ByteIsScancode
<1>2. /\ KeyTypes /\ Sends(b) /\ presses' = presses + 1
      /\ repeating'.key = k /\ repeating'.press = b.press
      /\ extended_presses \subseteq extended_presses'
    BY <1>1 DEF KeyInv, Presses
<1>3. b.press # NoPress /\ b.press \in 1 .. presses' /\ presses <= presses'
    BY <1>0, <1>1, <1>2 DEF NoPress
<1>4. IsMake(b)'
    BY <1>0, <1>1, <1>2, <1>3 DEF IsMake, Codes
<1>5. KeyTypes'
    <2>1. /\ held' \subseteq Keys /\ presses' \in Nat
          /\ prefixed' \in BOOLEAN /\ overlapped' \in BOOLEAN /\ collided' \in BOOLEAN
        <3>1. held' \subseteq Keys /\ presses' \in Nat
            BY <1>0, <1>2 DEF KeyTypes, Presses
        <3>2. prefixed' \in BOOLEAN /\ overlapped' \in BOOLEAN /\ collided' \in BOOLEAN
            BY Zenon DEF Presses
        <3> QED BY <3>1, <3>2
    <2>2. extended_presses' \subseteq 1 .. presses'
        BY <1>0, <1>2 DEF KeyTypes, Presses
    <2>3. repeating'.press \in Nat /\ repeating'.key \in Keys /\ repeating'.press \in 1 .. presses'
        BY <1>0, <1>1, <1>2, <1>3
    <2> QED BY <1>2, <1>3, <1>4, <2>1, <2>2, <2>3, SendingKeepsTypes
<1>6. LatchIsRemembered'
    BY <1>2 DEF KeyInv, LatchIsRemembered, Sends
<1>7. ASSUME ~lost', ~collided' PROVE NothingSwallowed'
    <2>1. /\ lost' = lost /\ LatestCode' = k.code /\ AllTold' = AllTold \cup {presses'}
          /\ DropsKnown /\ (b.press # NoPress => LatestCode # b.scancode
                                                 \/ b.press \in AllTold)
               => DropsKnown'
        BY <1>1, <1>2, <1>7, SendingExtends
    <2>2. NothingSwallowed /\ \A j \in held : j.code # k.code
        BY <1>7, <2>1 DEF KeyInv, Presses
    <2>3. LatestCode # k.code
        BY <1>0, <2>2 DEF NothingSwallowed
    <2>4. DropsKnown'
        BY <1>1, <2>1, <2>2, <2>3 DEF NothingSwallowed
    <2>5. 1 .. presses' \subseteq AllTold'
        <3>1. 1 .. presses' = 1 .. presses \cup {presses'}
            BY <1>0, <1>2
        <3> QED BY <2>1, <2>2, <3>1 DEF NothingSwallowed
    <2>6. k \in held'
        BY DEF Presses
    <2> QED BY <1>2, <2>1, <2>4, <2>5, <2>6 DEF NothingSwallowed
<1>8. ASSUME ~overlapped' PROVE NothingTwice'
    <2>1. ~overlapped /\ held = {} /\ NothingTwice
        BY <1>8 DEF KeyInv, Presses
    <2>2. \A p \in AllTold : p < b.press
        BY <1>0, <1>1, <1>2, ToldArePresses
    <2>3. PassesInOrder'
        <3>1. \A p \in AllTold : Precedes(p, b.press)'
            BY <2>2 DEF Precedes
        <3> QED BY <1>2, <2>1, <3>1, SendingExtends DEF NothingTwice
    <2>4. RepeatIsKnown'
        <3>1. LatestCode' = k.code \/ AllTold' = AllTold
            BY <1>1, <1>2, SendingExtends
        <3> QED BY <1>2, <2>2, <3>1 DEF RepeatIsKnown
    <2>5. ActsInOrder'
        BY <1>2, <2>1 DEF Sends, NothingTwice, ActsInOrder, Precedes
    <2>6. held' = {repeating'.key} /\ (k.extended => repeating'.press \in extended_presses')
        BY <1>1, <1>2, <2>1 DEF Presses
    <2> QED BY <1>1, <1>2, <1>3, <2>3, <2>4, <2>5, <2>6 DEF NothingTwice
<1> QED BY <1>5, <1>6, <1>7, <1>8 DEF KeyInv

\* A key goes up.
LEMMA ReleaseKeeps ==
    ASSUME KeyInv, NEW k \in Keys, Releases(k)
    PROVE  KeyInv'
<1>1. PICK b \in Scancode : /\ b = Byte(k.code + ReleasedBit, NoPress)
                            /\ b.scancode >= ReleasedBit /\ b.press = NoPress
    BY KeyCodes, ByteIsScancode DEF ReleasedBit, NoPress
<1>2. /\ KeyTypes /\ Sends(b) /\ presses \in Nat /\ b.scancode \notin Codes
      /\ UNCHANGED <<presses, overlapped, collided, extended_presses>>
    BY <1>1, KeyCodes DEF KeyInv, KeyTypes, Releases, ReleasedBit
<1>3. IsBreak(b)
    BY <1>1 DEF IsBreak
<1>4. /\ repeating'.press \in Nat
      /\ repeating'.press # NoPress => repeating' = repeating /\ repeating.key # k
      /\ repeating.key = k => repeating'.press = NoPress
    BY <1>2 DEF KeyTypes, Releases, NoPress
<1>5. KeyTypes'
    <2>1. held' \subseteq Keys /\ prefixed' \in BOOLEAN
        BY <1>2 DEF KeyTypes, Releases
    <2>2. repeating'.press # NoPress =>
              repeating'.key \in Keys /\ repeating'.press \in 1 .. presses'
        BY <1>2, <1>4 DEF KeyTypes
    <2>3. /\ presses' \in Nat /\ presses <= presses' /\ extended_presses' \subseteq 1 .. presses'
          /\ overlapped' \in BOOLEAN /\ collided' \in BOOLEAN
        BY <1>2 DEF KeyTypes
    <2> QED BY <1>2, <1>3, <1>4, <2>1, <2>2, <2>3, SendingKeepsTypes
<1>6. LatchIsRemembered'
    BY <1>2 DEF KeyInv, LatchIsRemembered, Sends
<1>7. ASSUME ~lost', ~collided' PROVE NothingSwallowed'
    <2>1. /\ lost' = lost /\ LatestCode' = b.scancode /\ AllTold' = AllTold \cup {b.press}
          /\ DropsKnown => DropsKnown'
        BY <1>1, <1>2, <1>7, SendingExtends
    <2>2. NothingSwallowed
        BY <1>2, <1>7, <2>1 DEF KeyInv
    <2>3. repeating'.press # NoPress => repeating'.key \in held'
        BY <1>4, <2>2 DEF NothingSwallowed, Releases
    <2> QED BY <1>2, <2>1, <2>2, <2>3 DEF NothingSwallowed
<1>8. ASSUME ~overlapped' PROVE NothingTwice'
    <2>1. NothingTwice
        BY <1>2, <1>8 DEF KeyInv
    <2>2. repeating'.press = NoPress /\ held' = {}
        <3>1. repeating.key = k /\ held = {k}
            BY <2>1 DEF NothingTwice, Releases
        <3> QED BY <1>4, <3>1 DEF Releases
    <2>3. PassesInOrder'
        BY <1>1, <1>2, <2>1, SendingExtends DEF NothingTwice
    <2>4. ActsInOrder'
        BY <1>2, <2>1 DEF Sends, NothingTwice, ActsInOrder, Precedes
    <2> QED BY <2>2, <2>3, <2>4 DEF NothingTwice
<1> QED BY <1>5, <1>6, <1>7, <1>8 DEF KeyInv

\* The key that is held repeats.
LEMMA RepeatKeeps ==
    ASSUME KeyInv, Repeats
    PROVE  KeyInv'
<1>0. /\ KeyTypes /\ repeating.press # NoPress /\ repeating.press \in 1 .. presses
      /\ repeating.key \in Keys /\ presses \in Nat
      /\ UNCHANGED <<held, repeating, presses, overlapped, collided, extended_presses>>
    BY DEF KeyInv, KeyTypes, Repeats
<1>1. PICK b \in Scancode : /\ b = Byte(repeating.key.code, repeating.press)
                            /\ b.scancode = repeating.key.code /\ b.press = repeating.press
    BY <1>0, KeyCodes, ByteIsScancode DEF KeyTypes
<1>2. Sends(b) /\ IsMake(b)' /\ b.scancode \in Codes
    BY <1>0, <1>1, KeyCodes DEF Repeats, IsMake, Codes
<1>3. KeyTypes'
    <2>1. /\ held' \subseteq Keys /\ prefixed' \in BOOLEAN /\ overlapped' \in BOOLEAN
          /\ collided' \in BOOLEAN
        BY <1>0 DEF KeyTypes, Repeats
    <2>2. /\ presses' \in Nat /\ presses <= presses' /\ extended_presses' \subseteq 1 .. presses'
          /\ repeating'.press \in Nat
          /\ repeating'.key \in Keys /\ repeating'.press \in 1 .. presses'
        BY <1>0 DEF KeyTypes
    <2> QED BY <1>0, <1>2, <2>1, <2>2, SendingKeepsTypes
<1>4. LatchIsRemembered'
    BY <1>2 DEF KeyInv, LatchIsRemembered, Sends
<1>5. ASSUME ~lost', ~collided' PROVE NothingSwallowed'
    <2>1. /\ lost' = lost /\ LatestCode' = repeating.key.code
          /\ AllTold' = AllTold \cup {repeating.press}
          /\ DropsKnown /\ repeating.press \in AllTold => DropsKnown'
        BY <1>0, <1>1, <1>2, <1>5, SendingExtends
    <2>2. NothingSwallowed
        BY <1>0, <1>5, <2>1 DEF KeyInv
    <2>3. repeating.press \in AllTold /\ repeating.key \in held
        BY <1>0, <2>2 DEF NothingSwallowed
    <2> QED BY <1>0, <2>1, <2>2, <2>3 DEF NothingSwallowed
<1>6. ASSUME ~overlapped' PROVE NothingTwice'
    <2>1. NothingTwice /\ RepeatIsKnown /\ repeating.press = presses
        BY <1>0, <1>6 DEF KeyInv, NothingTwice
    <2>2. LatestCode = b.scancode \/ \A p \in AllTold : Precedes(p, b.press)'
        <3>1. CASE repeating.press \in extended_presses
            <4>1. \A p \in AllTold : p \in Nat /\ p <= b.press
                BY <1>0, <1>1, <2>1, ToldArePresses
            <4> QED BY <1>0, <1>1, <3>1, <4>1 DEF Precedes
        <3>2. CASE repeating.press \notin extended_presses
            <4>1. ~prefixed
                BY <1>0, <2>1, <3>2 DEF NothingTwice, Repeats
            <4>2. LatestCode = repeating.key.code \/ \A p \in AllTold : p < repeating.press
                BY <2>1, <3>2, <4>1 DEF RepeatIsKnown
            <4> QED BY <1>1, <4>2 DEF Precedes
        <3> QED BY <3>1, <3>2
    <2>3. PassesInOrder'
        BY <1>0, <1>2, <2>1, <2>2, SendingExtends DEF NothingTwice
    <2>4. RepeatIsKnown'
        <3>1. LatestCode' = repeating.key.code \/ (LatestCode' = LatestCode /\ AllTold' = AllTold)
            BY <1>0, <1>1, <1>2, SendingExtends
        <3>2. prefixed => repeating.press \in extended_presses
            BY <1>0, <2>1 DEF NothingTwice, Repeats
        <3> QED BY <1>0, <2>1, <3>1, <3>2 DEF RepeatIsKnown
    <2>5. ActsInOrder'
        BY <1>0, <1>2, <2>1 DEF Sends, NothingTwice, ActsInOrder, Precedes
    <2> QED BY <1>0, <2>1, <2>3, <2>4, <2>5 DEF NothingTwice
<1> QED BY <1>3, <1>4, <1>5, <1>6 DEF KeyInv

\* The prefix of an extended key.
LEMMA PrefixKeeps ==
    ASSUME KeyInv, Prefixes
    PROVE  KeyInv'
<1>1. PICK b \in Scancode : /\ b = Byte(PrefixCode, NoPress)
                            /\ b.scancode >= ReleasedBit /\ b.press = NoPress
    BY ByteIsScancode DEF ReleasedBit, PrefixCode, NoPress
<1>2. /\ KeyTypes /\ Sends(b) /\ b.scancode \notin Codes /\ prefixed' = TRUE
      /\ UNCHANGED <<held, repeating, presses, overlapped, collided, extended_presses>>
    BY <1>1, KeyCodes DEF KeyInv, Prefixes, ReleasedBit
<1>3. IsBreak(b)
    BY <1>1 DEF IsBreak
<1>4. KeyTypes'
    <2>1. /\ held' \subseteq Keys /\ prefixed' \in BOOLEAN /\ overlapped' \in BOOLEAN
          /\ collided' \in BOOLEAN
          /\ presses' \in Nat /\ presses <= presses' /\ extended_presses' \subseteq 1 .. presses'
          /\ repeating'.press \in Nat
          /\ repeating'.press # NoPress =>
                 repeating'.key \in Keys /\ repeating'.press \in 1 .. presses'
        BY <1>2 DEF KeyTypes
    <2> QED BY <1>2, <1>3, <2>1, SendingKeepsTypes
<1>5. LatchIsRemembered'
    BY <1>2 DEF KeyInv, LatchIsRemembered, Sends
<1>6. ASSUME ~lost', ~collided' PROVE NothingSwallowed'
    <2>1. /\ lost' = lost /\ LatestCode' = b.scancode /\ AllTold' = AllTold \cup {b.press}
          /\ DropsKnown => DropsKnown'
        BY <1>1, <1>2, <1>6, SendingExtends
    <2>2. NothingSwallowed
        BY <1>2, <1>6, <2>1 DEF KeyInv
    <2> QED BY <1>2, <2>1, <2>2 DEF NothingSwallowed
<1>7. ASSUME ~overlapped' PROVE NothingTwice'
    <2>1. NothingTwice
        BY <1>2, <1>7 DEF KeyInv
    <2>2. PassesInOrder'
        BY <1>1, <1>2, <2>1, SendingExtends DEF NothingTwice
    <2>3. RepeatIsKnown'
        BY <1>2 DEF RepeatIsKnown
    <2>4. ActsInOrder'
        BY <1>2, <2>1 DEF Sends, NothingTwice, ActsInOrder, Precedes
    <2> QED BY <1>2, <2>1, <2>2, <2>3, <2>4 DEF NothingTwice
<1> QED BY <1>4, <1>5, <1>6, <1>7 DEF KeyInv

\* The invariant of the keys holds in every reachable state.
THEOREM KeyInvariance == Spec => []KeyInv
<1>1. Init => KeyInv
    <2> SUFFICES ASSUME Init PROVE KeyInv
        OBVIOUS
    <2>1. KeyTypes
        <3>1. latch \in Scancode /\ repeating.press \in Nat /\ repeating.press = NoPress
            BY DEF Init, Scancode, Byte, NoPress, EnterKey, ReleasedBit
        <3>2. wire \in Seq(Scancode) /\ acted \in Seq(Nat) /\ Len(wire) = 0 /\ Len(acted) = 0
            BY EmptySeq DEF Init
        <3>3. ActedPresses = {}
            BY <3>2 DEF ActedPresses
        <3>4. /\ presses = 0 /\ last_scancode = 0 /\ held = {}
              /\ lost \in BOOLEAN /\ overlapped \in BOOLEAN
              /\ prefixed \in BOOLEAN /\ collided \in BOOLEAN /\ extended_presses = {}
            BY DEF Init
        <3> QED BY <3>1, <3>2, <3>3, <3>4 DEF KeyTypes
    <2>2. LatchIsRemembered
        BY DEF Init, LatchIsRemembered, Byte, EnterKey, ReleasedBit
    <2>3. NothingSwallowed
        <3>1. LatestCode = 0 /\ 0 \notin Codes
            BY KeyCodes DEF Init, LatestCode, Code
        <3> QED BY <3>1 DEF Init, NothingSwallowed, DropsKnown, Byte, NoPress
    <2>4. NothingTwice
        BY DEF Init, NothingTwice, PassesInOrder, ActsInOrder, NoPress
    <2> QED BY <2>1, <2>2, <2>3, <2>4 DEF KeyInv
<1>2. KeyInv /\ [Next]_vars => KeyInv'
    <2> SUFFICES ASSUME KeyInv, [Next]_vars PROVE KeyInv'
        OBVIOUS
    <2>1. ASSUME Untouched PROVE KeyInv'
        <3>1. LatestCode' = LatestCode /\ AllTold' = AllTold /\ ActedPresses' = ActedPresses
            BY <2>1 DEF Untouched, LatestCode, Code, AllTold, Told, ActedPresses
        <3>2. /\ DropsKnown' <=> DropsKnown
              /\ PassesInOrder' <=> PassesInOrder
              /\ ActsInOrder' <=> ActsInOrder
              /\ RepeatIsKnown' <=> RepeatIsKnown
            BY <2>1, <3>1 DEF Untouched, DropsKnown, PassesInOrder, ActsInOrder, Precedes,
               RepeatIsKnown, IsNew, Code, Told, ActedPresses
        <3>3. KeyTypes'
            BY <2>1, <3>1 DEF Untouched, KeyInv, KeyTypes, IsMake, IsBreak
        <3>4. LatchIsRemembered'
            BY <2>1 DEF Untouched, KeyInv, LatchIsRemembered
        <3>5. NothingSwallowed => NothingSwallowed'
            BY <2>1, <3>1, <3>2 DEF Untouched, NothingSwallowed
        <3>6. NothingTwice => NothingTwice'
            BY <2>1, <3>1, <3>2 DEF Untouched, NothingTwice
        <3> QED BY <2>1, <3>3, <3>4, <3>5, <3>6 DEF Untouched, KeyInv
    <2>2. CASE Consumes
        BY <2>2, EmptyPollKeeps, PollKeeps
    <2> QED BY <2>1, <2>2, StepsOfKeys, PressKeeps, ReleaseKeeps, RepeatKeeps, PrefixKeeps
<1> QED BY <1>1, <1>2, PTL DEF Spec

\* As long as keys are pressed one at a time, presses act in their order, and none but
\* that of an extended key acts twice, however long a key is held, whatever the loop is
\* late for and whatever the controller loses.
THEOREM NoPressActsTwice == Spec => []PressActsOnce
<1>1. KeyInv => PressActsOnce
    BY DEF KeyInv, NothingTwice, PressActsOnce
<1> QED BY <1>1, KeyInvariance, PTL

\* Unless the controller lost a byte or two keys of one code were down at once, every
\* press has been acted upon once the controller is empty, also when keys overlap.
THEOREM NoPressIsSwallowed == Spec => []PressActs
<1>1. KeyInv => PressActs
    <2> SUFFICES ASSUME KeyInv, wire = << >>, ~lost, ~collided
                 PROVE  {acted[i] : i \in 1 .. Len(acted)} = 1 .. presses
        BY DEF PressActs
    <2>1. AllTold = ActedPresses
        BY DEF AllTold, Told
    <2> QED BY <2>1 DEF KeyInv, KeyTypes, NothingSwallowed, ActedPresses
<1> QED BY <1>1, KeyInvariance, PTL

-----------------------------------------------------------------------------
(* The loop: the screen.                                                   *)

\* The loop finds a file exactly below the count of its folder.
LEMMA LoopFinds ==
    ASSUME NEW f, NEW i \in Nat
    PROVE  /\ Lookup(i, f) # NoSlot <=> i < get_folder_file_count(f)
           /\ Lookup(i, f) # NoSlot =>
                 /\ Lookup(i, f) \in Slots
                 /\ files[Lookup(i, f)].is_active
           /\ get_folder_file_count(f) \in Nat
<1>1. MaxFileEntries \in Nat
    BY VfatAssumption DEF VfatAssumption
<1>2. Found(i, f) # {} <=> i < get_folder_file_count(f)
    BY <1>1, FoundBelowCount
<1>3. Found(i, f) = {} => Lookup(i, f) = NoSlot
    BY <1>1, LookupFails
<1>4. ASSUME NEW s \in Found(i, f)
      PROVE  /\ Lookup(i, f) = s /\ s \in Slots /\ s # NoSlot
             /\ files[s].is_active
    BY <1>1, LookupFinds DEF Found, Slots, NoSlot, Owned
<1>5. get_folder_file_count(f) \in Nat
    <2>1. MaxFileEntries \in 0 .. MaxFileEntries
        BY <1>1
    <2> QED BY <1>1, <2>1, MatchesCount
<1> QED BY <1>2, <1>3, <1>4, <1>5

\* A name and a content that end before the columns of the next row that are blanked.
Fits(e) ==
    /\ e.filename.len \in Nat /\ NameAt + e.filename.len <= Columns + ClearFrom
    /\ e.data_payload.len \in Nat /\ ContentAt + e.data_payload.len <= Columns + ClearFrom

FilesFit == \A s \in Slots : files[s].is_active => Fits(files[s])

\* The cells that a name, the arrow and a content take.
NameCells(row, e) == At(row, NameAt) .. At(row, NameAt) + e.filename.len - 1
ArrowCells(row) == At(row, ContentAt - 3) .. At(row, ContentAt - 3) + 3 - 1
ContentCells(row, e) == At(row, ContentAt) .. At(row, ContentAt) + e.data_payload.len - 1
FileCells(row, e) == NameCells(row, e) \cup ArrowCells(row) \cup ContentCells(row, e)

\* Printing a file changes those cells.
LEMMA PrintFileCells ==
    ASSUME NEW on, NEW index, NEW folder, NEW c \in Cells
    PROVE  PrintFile(on, index, folder)[c]
             = IF c \in FileCells(15 + index, files[Lookup(index, folder)])
               THEN Lookup(index, folder) ELSE on[c]
BY DEF PrintFile, PrintAt, FileCells, NameCells, ArrowCells, ContentCells

\* Where the two rows of the catalogue are, and the cells of a file in them.
LEMMA Layout ==
    ASSUME NEW e, Fits(e), NEW col \in ClearFrom .. ClearTo
    PROVE  /\ At(15, col) \in Cells /\ At(16, col) \in Cells
           /\ At(16, col) \notin FileCells(15, e)
           /\ At(15, col) \notin FileCells(16, e)
           /\ At(15, ContentAt - 1) \in FileCells(15, e)
           /\ At(16, ContentAt - 1) \in FileCells(16, e)
           /\ ContentAt - 1 \in ClearFrom .. ClearTo
<1>1. /\ Columns \in Nat /\ ClearFrom \in 0 .. Columns - 1 /\ ClearTo \in 0 .. Columns - 1
      /\ NameAt \in 0 .. Columns - 1 /\ ContentAt \in 0 .. Columns - 1
      /\ ContentAt >= 3 /\ ContentAt - 1 \in ClearFrom .. ClearTo
    BY LayoutAssumption DEF LayoutAssumption
<1>2. PICK n \in Nat, m \in Nat :
          /\ n = e.filename.len /\ m = e.data_payload.len
          /\ NameAt + n <= Columns + ClearFrom /\ ContentAt + m <= Columns + ClearFrom
    BY DEF Fits
<1>3. \A x \in Int : At(15, x) = x /\ At(16, x) = Columns + x
    BY <1>1 DEF At
<1>4. /\ FileCells(15, e) = (NameAt .. NameAt + n - 1) \cup (ContentAt - 3 .. ContentAt - 1)
                            \cup (ContentAt .. ContentAt + m - 1)
      /\ FileCells(16, e) = (Columns + NameAt .. Columns + NameAt + n - 1)
                            \cup (Columns + ContentAt - 3 .. Columns + ContentAt - 1)
                            \cup (Columns + ContentAt .. Columns + ContentAt + m - 1)
    BY <1>1, <1>2, <1>3 DEF FileCells, NameCells, ArrowCells, ContentCells
<1>5. At(15, col) \in Cells /\ At(16, col) \in Cells
    BY <1>1, <1>3 DEF Cells
<1>6. col \in 0 .. Columns - 1 /\ col >= ClearFrom /\ At(15, col) = col /\ At(16, col) = Columns + col
    BY <1>1, <1>3
<1>7. At(16, col) \notin FileCells(15, e)
    BY <1>1, <1>2, <1>4, <1>6
<1>8. At(15, col) \notin FileCells(16, e)
    BY <1>1, <1>2, <1>4, <1>6
<1>9. At(15, ContentAt - 1) = ContentAt - 1 /\ At(16, ContentAt - 1) = Columns + ContentAt - 1
    BY <1>1, <1>3
<1>10. At(15, ContentAt - 1) \in FileCells(15, e)
    BY <1>1, <1>4, <1>9
<1>11. At(16, ContentAt - 1) \in FileCells(16, e)
    BY <1>1, <1>4, <1>9
<1> QED BY <1>1, <1>5, <1>7, <1>8, <1>10, <1>11

\* What ShowsActiveFolder says of the catalogue, for any rows and any folder.
RowShows(on, index, slot) ==
    LET shown == {on[At(15 + index, col)] : col \in ClearFrom .. ClearTo}
    IN  IF slot = NoSlot THEN shown \subseteq {Blank, Empty}
                              ELSE shown \subseteq {Blank, slot} /\ slot \in shown

CatalogueShown(on, folder) ==
    \A index \in {0, 1} : RowShows(on, index, Lookup(index, folder))

\* The catalogue is drawn over blank rows.
LEMMA WipedCells ==
    ASSUME NEW on, NEW col \in ClearFrom .. ClearTo
    PROVE  /\ Wiped(Wiped(on, 15), 16)[At(15, col)] = Blank
           /\ Wiped(Wiped(on, 15), 16)[At(16, col)] = Blank
<1>1. /\ Columns \in Nat /\ ClearFrom \in 0 .. Columns - 1 /\ ClearTo \in 0 .. Columns - 1
    BY LayoutAssumption DEF LayoutAssumption
<1>2. \A x \in Int : At(15, x) = x /\ At(16, x) = Columns + x
    BY <1>1 DEF At
<1>3. At(15, col) \in Cells /\ At(16, col) \in Cells
    BY <1>1, <1>2 DEF Cells
<1>4. At(15, col) \in At(15, ClearFrom) .. At(15, ClearFrom) + (ClearTo - ClearFrom + 1) - 1
    BY <1>1, <1>2
<1>5. At(16, col) \in At(16, ClearFrom) .. At(16, ClearFrom) + (ClearTo - ClearFrom + 1) - 1
    BY <1>1, <1>2
<1>6. At(15, col) \notin At(16, ClearFrom) .. At(16, ClearFrom) + (ClearTo - ClearFrom + 1) - 1
    BY <1>1, <1>2
<1> QED BY <1>3, <1>4, <1>5, <1>6 DEF Wiped, PrintAt

\* What is drawn is the folder that is active, if its count is up to date.
LEMMA ListingShows ==
    ASSUME FilesFit,
           folder_counts[active_directory_index]
               = get_folder_file_count(active_directory_index)
    PROVE  CatalogueShown(Listing(cells), active_directory_index)
<1> DEFINE f == active_directory_index
           count == get_folder_file_count(f)
           clean == Wiped(Wiped(cells, 15), 16)
           first == Lookup(0, f)
           second == Lookup(1, f)
           wide == ClearFrom .. ClearTo
           arrow == ContentAt - 1
<1>1. /\ count \in Nat
      /\ first # NoSlot <=> 0 < count
      /\ second # NoSlot <=> 1 < count
    BY LoopFinds
<1>2. 0 < count => Fits(files[first])
    BY <1>1, LoopFinds DEF FilesFit
<1>3. 1 < count => Fits(files[second])
    BY <1>1, LoopFinds DEF FilesFit
<1>4. \A col \in wide : clean[At(15, col)] = Blank /\ clean[At(16, col)] = Blank
    BY WipedCells
<1>5. arrow \in wide
    BY LayoutAssumption DEF LayoutAssumption
<1>6. \A col \in wide : At(15, col) \in Cells /\ At(16, col) \in Cells
    <2>1. /\ Columns \in Nat /\ ClearFrom \in 0 .. Columns - 1 /\ ClearTo \in 0 .. Columns - 1
        BY LayoutAssumption DEF LayoutAssumption
    <2> QED BY <2>1 DEF At, Cells
<1>7. Listing(cells) = CASE count = 0 -> PrintAt(clean, 15, NameAt, EmptyLength, Empty)
                         [] count = 1 -> PrintFile(clean, 0, f)
                         [] OTHER     -> PrintFile(PrintFile(clean, 0, f), 1, f)
    BY DEF Listing
<1>8. 15 + 0 = 15 /\ 15 + 1 = 16
    OBVIOUS
<1>9. SUFFICES RowShows(Listing(cells), 0, first) /\ RowShows(Listing(cells), 1, second)
    BY DEF CatalogueShown
<1> HIDE DEF f, count, clean, first, second, wide, arrow
<1>10. CASE count = 0
    <2>1. first = NoSlot /\ second = NoSlot
        BY <1>1, <1>10
    <2>2. Listing(cells) = PrintAt(clean, 15, NameAt, EmptyLength, Empty)
        BY <1>7, <1>10
    <2>3. \A col \in wide : /\ Listing(cells)[At(15, col)] \in {Blank, Empty}
                            /\ Listing(cells)[At(16, col)] \in {Blank, Empty}
        BY <2>2, <1>4, <1>6 DEF PrintAt
    <2> QED BY <2>1, <2>3, <1>8 DEF RowShows, wide
<1>11. CASE count = 1
    <2>1. first # NoSlot /\ second = NoSlot /\ Fits(files[first])
        BY <1>1, <1>2, <1>11
    <2>2. Listing(cells) = PrintFile(clean, 0, f)
        BY <1>7, <1>11
    <2>3. \A c \in Cells : Listing(cells)[c] = IF c \in FileCells(15, files[first])
                                               THEN first ELSE clean[c]
        BY <2>2, <1>8, PrintFileCells DEF first
    <2>4. \A col \in wide : /\ Listing(cells)[At(15, col)] \in {Blank, first}
                            /\ Listing(cells)[At(16, col)] = Blank
        <3> SUFFICES ASSUME NEW col \in wide
                     PROVE  /\ Listing(cells)[At(15, col)] \in {Blank, first}
                            /\ Listing(cells)[At(16, col)] = Blank
            OBVIOUS
        <3>1. At(16, col) \notin FileCells(15, files[first])
            BY <2>1, Layout DEF wide
        <3> QED BY <3>1, <2>3, <1>4, <1>6
    <2>5. Listing(cells)[At(15, arrow)] = first
        <3>1. At(15, arrow) \in FileCells(15, files[first])
            BY <2>1, <1>5, Layout DEF wide, arrow
        <3> QED BY <3>1, <2>3, <1>5, <1>6
    <2>6. RowShows(Listing(cells), 0, first)
        BY <2>1, <2>4, <2>5, <1>5, <1>8 DEF RowShows, wide
    <2>7. RowShows(Listing(cells), 1, second)
        BY <2>1, <2>4, <1>8 DEF RowShows, wide
    <2> QED BY <2>6, <2>7
<1>12. CASE count > 1
    <2>1. /\ first # NoSlot /\ Fits(files[first])
          /\ second # NoSlot /\ Fits(files[second])
        BY <1>1, <1>2, <1>3, <1>12
    <2>2. Listing(cells) = PrintFile(PrintFile(clean, 0, f), 1, f)
        BY <1>1, <1>7, <1>12
    <2>3. \A c \in Cells : Listing(cells)[c] = IF c \in FileCells(16, files[second])
                                               THEN second ELSE PrintFile(clean, 0, f)[c]
        BY <2>2, <1>8, PrintFileCells DEF second
    <2>4. \A c \in Cells : PrintFile(clean, 0, f)[c] = IF c \in FileCells(15, files[first])
                                                       THEN first ELSE clean[c]
        BY <1>8, PrintFileCells DEF first
    <2>5. \A col \in wide : /\ Listing(cells)[At(15, col)] \in {Blank, first}
                            /\ Listing(cells)[At(16, col)] \in {Blank, second}
        <3> SUFFICES ASSUME NEW col \in wide
                     PROVE  /\ Listing(cells)[At(15, col)] \in {Blank, first}
                            /\ Listing(cells)[At(16, col)] \in {Blank, second}
            OBVIOUS
        <3>1. /\ At(16, col) \notin FileCells(15, files[first])
              /\ At(15, col) \notin FileCells(16, files[second])
            BY <2>1, Layout DEF wide
        <3> QED BY <3>1, <2>3, <2>4, <1>4, <1>6
    <2>6. /\ Listing(cells)[At(15, arrow)] = first
          /\ Listing(cells)[At(16, arrow)] = second
        <3>1. /\ At(15, arrow) \in FileCells(15, files[first])
              /\ At(16, arrow) \in FileCells(16, files[second])
              /\ At(15, arrow) \notin FileCells(16, files[second])
            BY <2>1, <1>5, Layout DEF wide, arrow
        <3> QED BY <3>1, <2>3, <2>4, <1>5, <1>6
    <2>7. RowShows(Listing(cells), 0, first)
        BY <2>1, <2>5, <2>6, <1>5, <1>8 DEF RowShows, wide
    <2>8. RowShows(Listing(cells), 1, second)
        BY <2>1, <2>5, <2>6, <1>5, <1>8 DEF RowShows, wide
    <2> QED BY <2>7, <2>8
<1> QED BY <1>1, <1>10, <1>11, <1>12

\* What is on the screen between two frames is the folder that is active.
FolderShown ==
    /\ screen.folder = active_directory_index
    /\ screen.count = get_folder_file_count(active_directory_index)
    /\ CatalogueShown(cells, active_directory_index)

LEMMA FolderShownSays ==
    ShowsActiveFolder <=> ((pc = "poll" /\ live_distro_ticks > 0) => FolderShown)
BY DEF ShowsActiveFolder, FolderShown, CatalogueShown, RowShows

\* The inductive invariant: the counts that a frame draws from are those of the
\* files, and no file runs into the columns of the row below its own.
SeedsWait ==
    pc = "seed" => /\ live_distro_ticks = 0
                   /\ active_files_count \in 0 .. Len(Seeds) - 1

CountsFresh ==
    pc = "draw" =>
        \A f \in FolderIndexes : folder_counts[f] = get_folder_file_count(f)

FilesTyped ==
    /\ files = [s \in Slots |-> files[s]]
    /\ \A s \in Slots : files[s].is_active \in BOOLEAN

ScreenInv ==
    /\ pc \in {"seed", "poll", "draw", "halted"}
    /\ live_distro_ticks \in Nat
    /\ active_directory_index \in FolderIndexes
    /\ SeedsWait
    /\ FilesTyped
    /\ FilesFit
    /\ CountsFresh
    /\ ShowsActiveFolder

\* What is drawn from, and what is drawn.
drawn == <<pc, disk, live_distro_ticks, active_directory_index, folder_counts, view>>

\* With the same files the queries answer the same.
LEMMA SameFiles ==
    ASSUME files' = files
    PROVE  /\ \A i, f : Lookup(i, f)' = Lookup(i, f)
           /\ \A f : get_folder_file_count(f)' = get_folder_file_count(f)
<1>1. \A i, f : Lookup(i, f)' = Lookup(i, f)
    BY DEF Lookup, NoSlot, Slots, Owned, MatchesBefore
<1>2. \A f : get_folder_file_count(f)' = get_folder_file_count(f)
    BY DEF get_folder_file_count, Slots, Owned
<1> QED BY <1>1, <1>2

\* The catalogue that was put on the screen is the one that is on it.
LEMMA ShownKept ==
    ASSUME files' = files, active_directory_index' = active_directory_index,
           CatalogueShown(cells', active_directory_index)
    PROVE  CatalogueShown(cells, active_directory_index)'
<1>1. ASSUME NEW index \in {0, 1}
      PROVE  RowShows(cells, index, Lookup(index, active_directory_index))'
    <2>1. RowShows(cells', index, Lookup(index, active_directory_index))
        BY <1>1 DEF CatalogueShown
    <2>2. Lookup(index, active_directory_index)'
             = Lookup(index, active_directory_index)
        BY SameFiles
    <2> QED BY <2>1, <2>2 DEF RowShows, NoSlot
<1> QED BY <1>1 DEF CatalogueShown

\* A step that leaves the screen and what it is drawn from alone.
LEMMA DrawnKept ==
    ASSUME ScreenInv, UNCHANGED drawn
    PROVE  ScreenInv'
<1>1. /\ pc' = pc /\ files' = files /\ active_files_count' = active_files_count
      /\ live_distro_ticks' = live_distro_ticks
      /\ active_directory_index' = active_directory_index
      /\ folder_counts' = folder_counts /\ screen' = screen /\ cells' = cells
    BY DEF drawn, disk, view
<1>2. FilesTyped' /\ FilesFit'
    BY <1>1 DEF ScreenInv, FilesTyped, FilesFit, Fits, Slots
<1>3. SeedsWait'
    BY <1>1 DEF ScreenInv, SeedsWait
<1>4. CountsFresh'
    BY <1>1, SameFiles DEF ScreenInv, CountsFresh
<1>5. (pc = "poll" /\ live_distro_ticks > 0) => FolderShown
    BY FolderShownSays DEF ScreenInv
<1>6. FolderShown => FolderShown'
    <2> SUFFICES ASSUME FolderShown PROVE FolderShown'
        OBVIOUS
    <2>1. CatalogueShown(cells, active_directory_index)'
        BY <1>1, SameFiles, ShownKept DEF FolderShown
    <2> QED BY <1>1, <2>1, SameFiles DEF FolderShown
<1>7. ShowsActiveFolder' <=> ((pc = "poll" /\ live_distro_ticks > 0) => FolderShown)'
    <2>1. ShowsActiveFolder <=> ((pc = "poll" /\ live_distro_ticks > 0) => FolderShown)
        BY FolderShownSays
    <2> QED BY <2>1, FolderShownSays, PTL
<1> QED BY <1>1, <1>2, <1>3, <1>4, <1>5, <1>6, <1>7 DEF ScreenInv

\* Before the loop starts the disk holds nothing, so that everything in it fits.
LEMMA InitScreen == Init => ScreenInv
<1> SUFFICES ASSUME Init PROVE ScreenInv
    OBVIOUS
<1>1. /\ pc = "seed" /\ live_distro_ticks = 0 /\ active_directory_index = 0
      /\ active_files_count = 0
    BY DEF Init, VfatInit
<1>2. FilesTyped /\ FilesFit
    BY DEF Init, VfatInit, FilesTyped, FilesFit
<1>3. SeedsWait
    BY <1>1, WorkstationAssumption DEF WorkstationAssumption, SeedsWait
<1>4. CountsFresh /\ ShowsActiveFolder
    BY <1>1 DEF CountsFresh, ShowsActiveFolder
<1> QED BY <1>1, <1>2, <1>3, <1>4 DEF ScreenInv, FolderIndexes

\* The files of the shipped disk fit.
LEMMA SeedKeeps == ScreenInv /\ Seed => ScreenInv'
<1> SUFFICES ASSUME ScreenInv, Seed PROVE ScreenInv'
    OBVIOUS
<1> DEFINE k == active_files_count + 1
           entry == Entry(Seeds[k].name, Seeds[k].folder, Seeds[k].content)
<1>1. /\ pc = "seed" /\ live_distro_ticks = 0 /\ k \in DOMAIN Seeds /\ k \in 1 .. Len(Seeds)
      /\ active_files_count \in 0 .. Len(Seeds) - 1 /\ Len(Seeds) \in Nat
    BY WorkstationAssumption DEF WorkstationAssumption, ScreenInv, SeedsWait, Seed
<1>2. /\ live_distro_ticks' = live_distro_ticks
      /\ active_directory_index' = active_directory_index
      /\ pc' = IF k = Len(Seeds) THEN "poll" ELSE "seed"
    BY DEF Seed
<1>3. \/ /\ files' = [files EXCEPT ![TargetSlot] = entry]
         /\ active_files_count' = active_files_count + 1
      \/ files' = files /\ active_files_count' = active_files_count
    BY DEF Seed, create_virtual_file, vfat_vars
<1>4. entry.is_active = TRUE /\ Fits(entry)
    <2>1. /\ entry.is_active = TRUE
          /\ entry.filename = safe_string_copy(Seeds[k].name, MaxFilenameLen)
          /\ entry.data_payload = safe_string_copy(Seeds[k].content, MaxPayloadLen)
        BY DEF Entry
    <2>2. /\ NameAt + entry.filename.len <= Columns + ClearFrom
          /\ ContentAt + entry.data_payload.len <= Columns + ClearFrom
        BY <1>1, <2>1, LayoutAssumption DEF LayoutAssumption
    <2>3. /\ Seeds[k].name = [text |-> Seeds[k].name.text, len |-> Seeds[k].name.len]
          /\ Seeds[k].content = [text |-> Seeds[k].content.text, len |-> Seeds[k].content.len]
          /\ Seeds[k].name.len \in Nat /\ Seeds[k].content.len \in Nat
          /\ MaxFilenameLen \in Nat \ {0} /\ MaxPayloadLen \in Nat \ {0}
        BY <1>1, WorkstationAssumption, VfatAssumption DEF WorkstationAssumption, VfatAssumption
    <2>4. entry.filename.len \in Nat
        BY <2>1, <2>3 DEF safe_string_copy, Shorter
    <2>5. entry.data_payload.len \in Nat
        BY <2>1, <2>3 DEF safe_string_copy, Shorter
    <2> QED BY <2>1, <2>2, <2>4, <2>5 DEF Fits
<1> HIDE DEF entry
<1>5. FilesTyped' /\ FilesFit'
    <2>1. CASE files' = files
        BY <2>1 DEF ScreenInv, FilesTyped, FilesFit, Fits, Slots
    <2>2. CASE files' = [files EXCEPT ![TargetSlot] = entry]
        <3>1. /\ files' = [s \in Slots |-> files'[s]]
              /\ \A s \in Slots : files'[s] = files[s] \/ files'[s] = entry
            BY <2>2 DEF ScreenInv, FilesTyped
        <3>2. \A s \in Slots : files'[s].is_active \in BOOLEAN
            BY <3>1, <1>4 DEF ScreenInv, FilesTyped
        <3>3. \A s \in Slots : files'[s].is_active => Fits(files'[s])
            BY <3>1, <1>4 DEF ScreenInv, FilesFit
        <3> QED BY <3>1, <3>2, <3>3 DEF FilesTyped, FilesFit, Fits, Slots
    <2> QED BY <1>3, <2>1, <2>2
<1>6. SeedsWait'
    BY <1>1, <1>2, <1>3 DEF SeedsWait
<1>7. CountsFresh' /\ ShowsActiveFolder'
    BY <1>1, <1>2 DEF CountsFresh, ShowsActiveFolder
<1> QED BY <1>1, <1>2, <1>5, <1>6, <1>7 DEF ScreenInv

\* A poll counts the files again, before any key can change the folder.
LEMMA PollScreen == ScreenInv /\ (PollSame \/ PollRelease \/ PollPress) => ScreenInv'
<1> SUFFICES ASSUME ScreenInv, PollSame \/ PollRelease \/ PollPress PROVE ScreenInv'
    OBVIOUS
<1>1. StartOfFrame /\ pc = "poll" /\ pc' \in {"draw", "halted"}
    BY DEF PollSame, PollRelease, PollPress
<1>2. /\ live_distro_ticks' = live_distro_ticks + 1
      /\ files' = files /\ active_files_count' = active_files_count
      /\ folder_counts' = [f \in FolderIndexes |-> get_folder_file_count(f)]
    BY <1>1 DEF StartOfFrame, CountTick, disk
<1>3. active_directory_index' \in FolderIndexes
    BY DEF PollSame, PollRelease, PollPress, ScreenInv, FolderIndexes, FolderKeys, FolderOf
<1>4. FilesTyped' /\ FilesFit'
    BY <1>2 DEF ScreenInv, FilesTyped, FilesFit, Fits, Slots
<1>5. CountsFresh'
    BY <1>2, SameFiles DEF CountsFresh
<1>6. SeedsWait' /\ ShowsActiveFolder'
    BY <1>1 DEF SeedsWait, ShowsActiveFolder
<1> QED BY <1>1, <1>2, <1>3, <1>4, <1>5, <1>6 DEF ScreenInv

\* A frame is drawn from the counts that its poll took.
LEMMA DrawKeeps == ScreenInv /\ Draw => ScreenInv'
<1> SUFFICES ASSUME ScreenInv, Draw PROVE ScreenInv'
    OBVIOUS
<1> DEFINE f == active_directory_index
<1>1. /\ pc = "draw" /\ pc' \in {"poll", "halted"}
      /\ live_distro_ticks' = live_distro_ticks
      /\ active_directory_index' = active_directory_index
      /\ files' = files /\ active_files_count' = active_files_count
    BY DEF Draw, disk
<1>2. pc' = "poll" => /\ screen'.folder = f
                      /\ screen'.count = folder_counts[f]
                      /\ cells' = Listing(cells)
    BY DEF Draw
<1>3. folder_counts[f] = get_folder_file_count(f)
    BY <1>1 DEF ScreenInv, CountsFresh
<1>4. CatalogueShown(Listing(cells), f)
    BY <1>3, ListingShows DEF ScreenInv
<1>5. ShowsActiveFolder'
    <2>1. CASE pc' # "poll"
        BY <2>1 DEF ShowsActiveFolder
    <2>2. CASE pc' = "poll"
        <3>1. CatalogueShown(cells, active_directory_index)'
            BY <1>1, <1>2, <1>4, <2>2, ShownKept
        <3>2. FolderShown'
            BY <1>1, <1>2, <1>3, <2>2, <3>1, SameFiles DEF FolderShown
        <3>3. ShowsActiveFolder <=> ((pc = "poll" /\ live_distro_ticks > 0) => FolderShown)
            BY FolderShownSays
        <3> QED BY <3>2, <3>3, FolderShownSays, PTL
    <2> QED BY <2>1, <2>2
<1>6. FilesTyped' /\ FilesFit'
    BY <1>1 DEF ScreenInv, FilesTyped, FilesFit, Fits, Slots
<1>7. SeedsWait' /\ CountsFresh'
    BY <1>1 DEF SeedsWait, CountsFresh
<1> QED BY <1>1, <1>5, <1>6, <1>7 DEF ScreenInv

\* Nothing the keyboard does is seen before the loop polls.
LEMMA KeyboardKeeps ==
    ScreenInv /\ (Prefix \/ Repeat \/ \E k \in Keys : KeyDown(k) \/ KeyUp(k)) => ScreenInv'
<1> SUFFICES ASSUME ScreenInv, Prefix \/ Repeat \/ \E k \in Keys : KeyDown(k) \/ KeyUp(k)
             PROVE  ScreenInv'
    OBVIOUS
<1>1. UNCHANGED drawn
    BY DEF Prefix, Repeat, KeyDown, KeyUp, Send, drawn
<1> QED BY <1>1, DrawnKept

\* The screen is drawn from counts of this frame, and no file overruns its row.
THEOREM ScreenInvariance == Spec => []ScreenInv
<1>1. ScreenInv /\ [Next]_vars => ScreenInv'
    <2> SUFFICES ASSUME ScreenInv, [Next]_vars PROVE ScreenInv'
        OBVIOUS
    <2>1. CASE UNCHANGED vars
        <3>1. UNCHANGED drawn
            BY <2>1 DEF vars, drawn
        <3> QED BY <3>1, DrawnKept
    <2>2. CASE Next
        BY <2>2, SeedKeeps, PollScreen, DrawKeeps, KeyboardKeeps DEF Next, Loop
    <2> QED BY <2>1, <2>2
<1> QED BY InitScreen, <1>1, PTL DEF Spec

\* Between two frames the screen shows the number of files of the active folder,
\* and in the columns of the catalogue its first two files and nothing else.
THEOREM ScreenIsTrue == Spec => []ShowsActiveFolder
<1>1. ScreenInv => ShowsActiveFolder
    BY DEF ScreenInv
<1> QED BY <1>1, ScreenInvariance, PTL

-----------------------------------------------------------------------------
(* The loop and its disk.                                                  *)

\* The loop is a client of the RAM disk: it changes the table by the calls that seed
\* it and in no other way, whatever the keys do.
THEOREM LoopUsesDisk == Spec => VfatSpec
<1>1. Init => VfatInit
    BY DEF Init
<1>2. ScreenInv /\ [Next]_vars => [VfatNext]_vfat_vars
    <2> SUFFICES ASSUME ScreenInv, [Next]_vars PROVE [VfatNext]_vfat_vars
        OBVIOUS
    <2>1. CASE Seed
        <3> DEFINE k == active_files_count + 1
        <3>1. k \in DOMAIN Seeds
            BY <2>1, WorkstationAssumption DEF WorkstationAssumption, ScreenInv, SeedsWait, Seed
        <3>2. /\ Seeds[k].name \in Names /\ Seeds[k].folder \in Folders
              /\ Seeds[k].content \in Contents
            BY <3>1, WorkstationAssumption DEF WorkstationAssumption
        <3>3. create_virtual_file(Seeds[k].name, Seeds[k].folder, Seeds[k].content)
            BY <2>1 DEF Seed
        <3> QED BY <3>2, <3>3 DEF VfatNext
    <2>2. CASE PollSame \/ PollRelease \/ PollPress
        BY <2>2 DEF PollSame, PollRelease, PollPress, StartOfFrame, disk, vfat_vars
    <2>3. CASE Draw \/ UNCHANGED vars
        BY <2>3 DEF Draw, vars, disk, vfat_vars
    <2>4. CASE Prefix \/ Repeat \/ \E k \in Keys : KeyDown(k) \/ KeyUp(k)
        BY <2>4 DEF Prefix, Repeat, KeyDown, KeyUp, Send, disk, vfat_vars
    <2> QED BY <2>1, <2>2, <2>3, <2>4 DEF Next, Loop
<1> QED BY <1>1, <1>2, ScreenInvariance, PTL DEF Spec, VfatSpec

\* So the loop may look a file up again in every frame, by the index it was shown at:
\* the index, the name and the content stay what they were.
THEOREM LoopFilesStay == Spec => IndexesAreStable
BY LoopUsesDisk, FilesStay, PTL

=============================================================================

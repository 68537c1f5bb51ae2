--------------------------- MODULE MCWorkstation ---------------------------
(* The shipped layout with fewer columns: one folder with two files, one    *)
(* program, one folder without files, contents that end inside the columns  *)
(* that are blanked or run into the next row.  Two keys have the code of    *)
(* Enter, one of them an extended one.                                      *)
(*                                                                          *)
(* The RAM disk is also checked under every sequence of calls, in two of    *)
(* the folders, while the loop stays as it is at boot: strings are shorter  *)
(* than their array, need its last byte, or are longer than it, and the     *)
(* table fills up.                                                          *)
EXTENDS Workstation

String(t, n) == [text |-> t, len |-> n]
File(n, f, c) == [name |-> n, folder |-> f, content |-> c]
Key(c, e) == [code |-> c, extended |-> e]

MCSeeds == << File(String("init", 2), 0, String("success", 5)),
              File(String("readme", 1), 0, String("welcome", 4)),
              File(String("core", 1), 2, String("loader", 2)) >>
MCKeys == {Key(c, FALSE) : c \in {4, 5, 6, 28, 57}} \cup {Key(28, TRUE)}

AnyNames == {String("a", 1), String("b", 5)}
AnyFolders == {0, 1}
AnyContents == {String("c", 2), String("d", 8)}
MCNames == {MCSeeds[k].name : k \in DOMAIN MCSeeds} \cup AnyNames
MCContents == {MCSeeds[k].content : k \in DOMAIN MCSeeds} \cup AnyContents

VARIABLE caller                    \* of the RAM disk

MCInit == Init /\ caller \in {"loop", "any"}

AnyCall ==
    /\ \E n \in AnyNames, f \in AnyFolders, c \in AnyContents : create_virtual_file(n, f, c)
    /\ UNCHANGED <<pc, live_distro_ticks, last_scancode, active_directory_index,
                   folder_counts, status_string, process, view, wire, latch, keyboard, acted>>

MCNext ==
    /\ \/ caller = "loop" /\ Next
       \/ caller = "any" /\ AnyCall
    /\ UNCHANGED caller

MCSpec == MCInit /\ [][MCNext]_<<vars, caller>>
=============================================================================

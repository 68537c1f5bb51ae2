---------------------------- MODULE Workstation ----------------------------
(***************************************************************************)
(* antagonist_main (src/main.cpp): the loop the shipped system runs, from  *)
(* the seeding of the RAM disk (Vfat) to the halt.  Each iteration asks    *)
(* the kernel for the byte at port 0x60 (system call 2), drops it unless   *)
(* it differs from the one before, acts on it, and draws the screen.       *)
(*                                                                         *)
(* The boot thread runs with interrupts masked, so that no handler takes   *)
(* a byte away; the keyboard is the only other actor.  Its controller      *)
(* queues FifoSize bytes, loses those that come later, and answers with    *)
(* the last byte again when the queue is empty.  A key that is held sends  *)
(* its make code over and over until it or another key changes.  Extended  *)
(* keys, such as the Enter of the keypad, send a prefix before each make   *)
(* or break code, a byte of its own, which looks like a release; without   *)
(* it some of them have the code of another key.                           *)
(*                                                                         *)
(* Rows 15 to 17 of the screen are modelled cell by cell, a cell by which  *)
(* file its character belongs to; of the other rows only the fields that   *)
(* change are, each of which is blanked over its whole width before it is  *)
(* printed.                                                                *)
(***************************************************************************)
EXTENDS Vfat

CONSTANTS Seeds,                   \* the files to create: [name, folder, content]
          Lifetime,                \* iterations until power-down (5000)
          Columns,                 \* of the screen (80)
          ClearFrom, ClearTo,      \* the 60 columns that are blanked (12 to 71)
          NameAt, ContentAt,       \* columns of a name and of its content (14, 31)
          EmptyLength,             \* length of "[Directory is empty]" (20)
          MessageLength,           \* length of the message of the space key (54)
          Keys,                    \* the keys that are used: [code, extended]
          FifoSize,                \* bytes the keyboard controller queues
          MaxBytes                 \* bound: bytes the keyboard sends

VARIABLES pc,                      \* "seed", "poll", "draw", "halted"
          live_distro_ticks, last_scancode,
          active_directory_index,
          folder_counts,           \* workspace_folders[].active_files_count
          status_string, active_exec_status, active_exec_log,
          live_process,            \* of src/loader.cpp
          screen,                  \* fields other than the catalogue
          cells,                   \* rows 15 to 17
          wire, latch,             \* the controller: queue, and last byte read
          prefixed,                \* was the keyboard's latest byte a prefix?
          held, repeating,         \* keys down, and the one that repeats
          presses, bytes, lost,    \* counts of presses and bytes; was one lost?
          overlapped, collided,    \* were two keys, or two of one code, ever
                                   \* down at once?
          extended_presses,        \* the presses of extended keys
          acted                    \* the presses the loop has acted upon

disk == <<files, active_files_count>>
process == <<active_exec_status, active_exec_log, live_process>>
view == <<screen, cells>>
keyboard == <<prefixed, held, repeating, presses, bytes, lost, overlapped, collided,
              extended_presses>>
vars == <<pc, disk, live_distro_ticks, last_scancode, active_directory_index,
          folder_counts, status_string, process, view, wire, latch, keyboard, acted>>

FolderIndexes == 0 .. 3
BinFolder == 2

\* Scancodes: '1' to '4' change folder, '5' exits.
FolderKeys == 2 .. 5
ExitKey == 6
EnterKey == 28
SpaceKey == 57
ReleasedBit == 128
PrefixCode == 224
NoPress == 0
NoKey == [code |-> 0, extended |-> FALSE]
Byte(code, press) == [scancode |-> code, press |-> press]

ASSUME WorkstationAssumption ==
    /\ Lifetime \in Nat \ {0} /\ FifoSize \in Nat \ {0} /\ MaxBytes \in Nat
    /\ Keys \subseteq [code : 1 .. ReleasedBit - 1, extended : BOOLEAN]
    /\ Len(Seeds) \in Nat \ {0} /\ DOMAIN Seeds = 1 .. Len(Seeds)
    /\ FolderIndexes \subseteq Folders
    /\ \A k \in DOMAIN Seeds :
          /\ Seeds[k].folder \in FolderIndexes
          /\ Seeds[k].name \in Names /\ Seeds[k].content \in Contents

\* Names and contents, as they are stored, end before the columns of the next
\* row that are blanked, and the arrow between them is in those of its own.
ASSUME LayoutAssumption ==
    /\ Columns \in Nat /\ {ClearFrom, ClearTo, NameAt, ContentAt} \subseteq 0 .. Columns - 1
    /\ EmptyLength \in Nat /\ MessageLength \in Nat
    /\ ContentAt >= 3 /\ ContentAt - 1 \in ClearFrom .. ClearTo
    /\ \A k \in DOMAIN Seeds :
          /\ NameAt + safe_string_copy(Seeds[k].name, MaxFilenameLen).len
               <= Columns + ClearFrom
          /\ ContentAt + safe_string_copy(Seeds[k].content, MaxPayloadLen).len
               <= Columns + ClearFrom

-----------------------------------------------------------------------------
(* The screen.                                                             *)

Cells == 0 .. 3 * Columns - 1
\* A cell holds a character of the file in some slot, or one of these.
Blank == -1
Message == -2
Empty == -3

At(row, col) == (row - 15) * Columns + col

\* len characters from (row, col) on; a text that is too long runs into the
\* next row.
PrintAt(on, row, col, len, mark) ==
    [c \in Cells |-> IF c \in At(row, col) .. At(row, col) + len - 1 THEN mark ELSE on[c]]

Wiped(on, row) == PrintAt(on, row, ClearFrom, ClearTo - ClearFrom + 1, Blank)

NoScreen == [folder |-> Blank, count |-> Blank, status |-> Blank, log |-> ""]

\* A file of the folder: its name, an arrow and its content.
PrintFile(on, index, folder) ==
    LET slot    == Lookup(index, folder)
        name    == PrintAt(on, 15 + index, NameAt, files[slot].filename.len, slot)
        arrow   == PrintAt(name, 15 + index, ContentAt - 3, 3, slot)
    IN  PrintAt(arrow, 15 + index, ContentAt, files[slot].data_payload.len, slot)

\* The first two files of the active folder.
Listing_KeepsSecond(on) ==
    LET first == Wiped(on, 15)
        count == folder_counts[active_directory_index]
    IN  CASE count = 0 -> PrintAt(first, 15, NameAt, EmptyLength, Empty)
          [] count = 1 -> PrintFile(first, 0, active_directory_index)
          [] OTHER     -> PrintFile(PrintFile(first, 0, active_directory_index),
                                    1, active_directory_index)
Listing(on) ==
    LET clean == Wiped(Wiped(on, 15), 16)
        count == folder_counts[active_directory_index]
    IN  CASE count = 0 -> PrintAt(clean, 15, NameAt, EmptyLength, Empty)
          [] count = 1 -> PrintFile(clean, 0, active_directory_index)
          [] OTHER     -> PrintFile(PrintFile(clean, 0, active_directory_index),
                                    1, active_directory_index)

-----------------------------------------------------------------------------
(* The loop.                                                               *)

Init ==
    /\ VfatInit
    /\ pc = "seed"
    /\ live_distro_ticks = 0 /\ last_scancode = 0
    /\ active_directory_index = 0
    /\ folder_counts = [f \in FolderIndexes |-> 0]
    /\ status_string = 0 /\ active_exec_status = 0 /\ active_exec_log = "none"
    /\ live_process = [program_name |-> NoString, status_return_code |-> 0]
    /\ screen = NoScreen /\ cells = [c \in Cells |-> Blank]
    \* nothing, or the Enter that chose the entry of the boot menu
    /\ wire = << >> /\ latch \in {Byte(0, NoPress), Byte(EnterKey + ReleasedBit, NoPress)}
    /\ prefixed = FALSE /\ held = {} /\ repeating = [key |-> NoKey, press |-> NoPress]
    /\ presses = 0 /\ bytes = 0 /\ lost = FALSE
    /\ overlapped = FALSE /\ collided = FALSE /\ extended_presses = {}
    /\ acted = << >>

\* The calls of create_virtual_file, one after the other.
Seed ==
    /\ pc = "seed"
    /\ LET s == Seeds[active_files_count + 1] IN
         create_virtual_file(s.name, s.folder, s.content)
    /\ pc' = IF active_files_count + 1 = Len(Seeds) THEN "poll" ELSE "seed"
    /\ UNCHANGED <<live_distro_ticks, last_scancode, active_directory_index, folder_counts,
                   status_string, process, view, wire, latch, keyboard, acted>>

\* System call 2: inb(0x60).
Answer == IF wire = << >> THEN latch ELSE Head(wire)
live_scancode == Answer.scancode
ReadPort ==
    /\ latch' = Answer
    /\ wire' = IF wire = << >> THEN << >> ELSE Tail(wire)

\* The debouncer.
Fresh_Level == TRUE
Fresh == live_scancode # last_scancode

IsRelease == live_scancode >= ReleasedBit

\* execute_bounded_binary: two reads of the RAM disk, the status of the run.
Execute ==
    LET slot == Lookup(0, active_directory_index) IN
    IF active_directory_index = BinFolder /\ slot # NoSlot
    THEN /\ live_process' = [program_name       |-> files[slot].filename,
                             status_return_code |-> 200]
         /\ active_exec_log' = "ret ok"
         /\ active_exec_status' = 200
    ELSE UNCHANGED process

FolderOf(key) == key - 2

\* What the start of an iteration computes, before it looks at the keyboard.
CountTick == live_distro_ticks' = live_distro_ticks + 1

StartOfFrame ==
    /\ CountTick
    /\ status_string' = active_exec_status
    /\ folder_counts' = [f \in FolderIndexes |-> get_folder_file_count(f)]
    /\ ReadPort
    /\ UNCHANGED <<disk, keyboard>>

PollSame ==
    /\ pc = "poll" /\ ~Fresh
    /\ StartOfFrame
    /\ pc' = "draw"
    /\ UNCHANGED <<last_scancode, active_directory_index, process, view, acted>>

Remembered_MakesOnly == IF IsRelease THEN last_scancode ELSE live_scancode
Remembered == live_scancode

PollRelease ==
    /\ pc = "poll" /\ Fresh /\ IsRelease
    /\ StartOfFrame
    /\ last_scancode' = Remembered
    /\ cells' = IF live_scancode = SpaceKey + ReleasedBit THEN Wiped(cells, 15) ELSE cells
    /\ pc' = "draw"
    /\ UNCHANGED <<active_directory_index, process, screen, acted>>

PollPress ==
    /\ pc = "poll" /\ Fresh /\ ~IsRelease
    /\ StartOfFrame
    /\ last_scancode' = Remembered
    /\ acted' = Append(acted, Answer.press)
    /\ active_directory_index' =
           IF live_scancode \in FolderKeys THEN FolderOf(live_scancode)
                                           ELSE active_directory_index
    /\ IF live_scancode = EnterKey THEN Execute ELSE UNCHANGED process
    /\ IF live_scancode = ExitKey
       THEN /\ pc' = "halted"
            /\ screen' = NoScreen
            /\ cells' = [c \in Cells |-> Blank]
       ELSE /\ pc' = "draw"
            /\ cells' = IF live_scancode = SpaceKey
                        THEN PrintAt(cells, 15, ClearFrom, MessageLength, Message)
                        ELSE cells
            /\ UNCHANGED screen

\* The rest of the iteration: the screen, and the end of the system's life.
Draw ==
    /\ pc = "draw"
    /\ IF live_distro_ticks >= Lifetime
       THEN /\ pc' = "halted"
            /\ screen' = NoScreen
            /\ cells' = [c \in Cells |-> Blank]
       ELSE /\ pc' = "poll"
            /\ screen' = [folder |-> active_directory_index,
                          count  |-> folder_counts[active_directory_index],
                          status |-> status_string,
                          log    |-> active_exec_log]
            /\ cells' = Listing(cells)
    /\ UNCHANGED <<disk, live_distro_ticks, last_scancode, active_directory_index,
                   folder_counts, status_string, process, wire, latch, keyboard, acted>>

-----------------------------------------------------------------------------
(* The keyboard.                                                           *)

Send(byte) ==
    /\ bytes < MaxBytes
    /\ bytes' = bytes + 1
    /\ IF Len(wire) < FifoSize
       THEN wire' = Append(wire, byte) /\ UNCHANGED lost
       ELSE lost' = TRUE /\ UNCHANGED wire
    /\ UNCHANGED <<pc, disk, live_distro_ticks, last_scancode, active_directory_index,
                   folder_counts, status_string, process, view, latch, acted>>

\* The first byte of an extended key, whatever happens to the key.
Prefix ==
    /\ ~prefixed /\ \E k \in Keys : k.extended
    /\ prefixed' = TRUE
    /\ Send(Byte(PrefixCode, NoPress))
    /\ UNCHANGED <<held, repeating, presses, overlapped, collided, extended_presses>>

\* The keyboard sends the code of an extended key after a prefix, of any other one
\* without.
CodeFollows(k) == prefixed = k.extended /\ prefixed' = FALSE

KeyDown(k) ==
    /\ CodeFollows(k)
    /\ k \notin held
    /\ held' = held \cup {k}
    /\ presses' = presses + 1
    /\ extended_presses' = IF k.extended THEN extended_presses \cup {presses'}
                                         ELSE extended_presses
    /\ repeating' = [key |-> k, press |-> presses']
    /\ overlapped' = (overlapped \/ held # {})
    /\ collided' = (collided \/ \E j \in held : j.code = k.code)
    /\ Send(Byte(k.code, presses'))

KeyUp(k) ==
    /\ CodeFollows(k)
    /\ k \in held
    /\ held' = held \ {k}
    /\ repeating' = IF repeating.key = k THEN [key |-> NoKey, press |-> NoPress]
                                         ELSE repeating
    /\ Send(Byte(k.code + ReleasedBit, NoPress))
    /\ UNCHANGED <<presses, overlapped, collided, extended_presses>>

Repeat ==
    /\ repeating.press # NoPress
    /\ CodeFollows(repeating.key)
    /\ Send(Byte(repeating.key.code, repeating.press))
    /\ UNCHANGED <<held, repeating, presses, overlapped, collided, extended_presses>>

Loop == Seed \/ PollSame \/ PollRelease \/ PollPress \/ Draw

Next ==
    \/ Loop
    \/ \E k \in Keys : KeyDown(k) \/ KeyUp(k)
    \/ Prefix \/ Repeat

\* The CPU never stops executing; the delay between two frames is a bounded
\* loop.  Nothing is promised about the keyboard.
Spec == Init /\ [][Next]_vars /\ WF_vars(Loop)

-----------------------------------------------------------------------------
(* Properties.                                                             *)

\* Press p may act before press q does: it is the earlier one, or the same one again,
\* which only the press of an extended key may be.
Precedes(p, q) == p < q \/ (p = q /\ p \in extended_presses)

ActsInOrder == \A i, j \in 1 .. Len(acted) : i < j => Precedes(acted[i], acted[j])

\* As long as keys are pressed one at a time, the press of a key that sends a single
\* byte acts at most once however long the key is held, and presses act in their
\* order, also when the controller lost bytes (src/main.cpp:128-132).
PressActsOnce == ~overlapped => ActsInOrder

\* What docs/ARCHITECTURE.md:88-90 and README.md:77 promise of every key: a press
\* that the loop sees many times acts once.
HeldKeyActsOnce == ~overlapped => \A i, j \in 1 .. Len(acted) : i < j => acted[i] # acted[j]

\* Unless the controller lost a byte, or two keys of the same code were down at
\* once, no press is swallowed by the debouncer.
PressActs ==
    (wire = << >> /\ ~lost /\ ~collided) =>
        {acted[i] : i \in 1 .. Len(acted)} = 1 .. presses

\* Between two frames the screen shows the active folder: its number of files,
\* and in the columns of the catalogue its first two files and nothing else.
ShowsActiveFolder ==
    (pc = "poll" /\ live_distro_ticks > 0) =>
        /\ screen.folder = active_directory_index
        /\ screen.count = get_folder_file_count(active_directory_index)
        /\ \A index \in {0, 1} :
              LET slot == Lookup(index, active_directory_index)
                  shown == {cells[At(15 + index, col)] : col \in ClearFrom .. ClearTo}
              IN  IF slot = NoSlot THEN shown \subseteq {Blank, Empty}
                                        ELSE shown \subseteq {Blank, slot} /\ slot \in shown


=============================================================================

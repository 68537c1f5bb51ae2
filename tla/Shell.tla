------------------------------- MODULE Shell -------------------------------
(***************************************************************************)
(* The console shell of kernel/keyboard.cpp: keyboard_handler edits a line *)
(* in cmd_buffer, echoes it on the text screen at cursor_position, and     *)
(* when Enter arrives runs the command and prints its reply.               *)
(*                                                                         *)
(* A key is one step, because the handler runs with interrupts masked (see *)
(* Interrupts).  A character is a member of a small set; what a reply says *)
(* is left out, how many characters it has is not.  cursor_position counts *)
(* bytes, two per cell, as in the code.                                    *)
(***************************************************************************)
EXTENDS Integers, Sequences

CONSTANTS Columns, Rows,  \* the screen (80 by 25)
          FirstRow,       \* the row of the first prompt (10)
          BufferSize,     \* sizeof(cmd_buffer) (64)
          Letters,        \* characters that keys produce, other than the ones below
          ReplyLengths,   \* command line |-> lengths its one-line reply may have,
                          \* for "help", "uptime" and "meminfo"
          UnknownLength,  \* length of "Command not found!.."
          ClearLine,      \* the lines that spell "clear" and "disktest"
          DiskLine,
          DiskLengths     \* how many bytes before a zero the sector may read back

RowBytes == 2 * Columns
ScreenBytes == Rows * RowBytes
FirstCursor == FirstRow * RowBytes
LastRowCursor == ScreenBytes - RowBytes

Blank == " "
Backspace == "backspace"
NUL == "nul"
Printed == "printed"      \* some character of a reply

ASSUME ShellAssumption ==
    /\ Columns \in Nat /\ Rows \in Nat /\ FirstRow \in Nat
    /\ FirstRow + 1 < Rows
    /\ BufferSize \in Nat \ {0} /\ BufferSize <= Columns
    /\ Letters \cap {Backspace, NUL} = {}
    /\ \A cmd \in DOMAIN ReplyLengths : ReplyLengths[cmd] \subseteq Nat
    /\ UnknownLength \in Nat /\ DiskLengths \subseteq Nat
    /\ ClearLine \notin DOMAIN ReplyLengths
    /\ DiskLine \notin DOMAIN ReplyLengths \cup {ClearLine}

VARIABLES cursor_position,
          video_memory,    \* cell |-> the character in it
          cmd_buffer, cmd_index,
          command_ready_flag,
          overrun          \* something was written past the last cell

shell_vars == <<cursor_position, video_memory, cmd_buffer, cmd_index,
                command_ready_flag, overrun>>

Cells == 0 .. Rows * Columns - 1
Slots == 0 .. BufferSize - 1

ShellInit ==
    /\ cursor_position = FirstCursor
    /\ video_memory = [c \in Cells |-> Blank]
    /\ cmd_buffer = [i \in Slots |-> NUL]
    /\ cmd_index = 0
    /\ command_ready_flag = 0
    /\ overrun = FALSE

-----------------------------------------------------------------------------
(* The screen.  A console is [at, cells, over]: cursor_position,           *)
(* video_memory and overrun.                                               *)

Console == [at |-> cursor_position, cells |-> video_memory, over |-> overrun]

\* n characters at the cursor; what leaves the screen hits other memory.
Write(con, n) ==
    [at    |-> con.at + 2 * n,
     cells |-> [c \in Cells |->
                  IF c \in con.at \div 2 .. con.at \div 2 + n - 1
                  THEN Printed ELSE con.cells[c]],
     over  |-> con.over \/ con.at + 2 * n > ScreenBytes]

NextRow(con) == [con EXCEPT !.at = ((@ \div RowBytes) + 1) * RowBytes]

scroll_screen_KeepsBottom(con) ==
    IF con.at >= ScreenBytes
    THEN [con EXCEPT !.at = LastRowCursor,
                     !.cells = [c \in Cells |-> IF c + Columns \in Cells
                                                THEN con.cells[c + Columns] ELSE @[c]]]
    ELSE con
scroll_screen(con) ==
    IF con.at >= ScreenBytes
    THEN [con EXCEPT !.at = LastRowCursor,
                     !.cells = [c \in Cells |-> IF c + Columns \in Cells
                                                THEN con.cells[c + Columns] ELSE Blank]]
    ELSE con

shell_print_line(con, n) == scroll_screen(NextRow(Write(con, n)))

Cleared(con) ==
    [con EXCEPT !.at = FirstCursor,
                !.cells = [c \in Cells |-> IF 2 * c >= FirstCursor THEN Blank ELSE @[c]]]

Show(con) ==
    /\ cursor_position' = con.at
    /\ video_memory' = con.cells
    /\ overrun' = con.over

-----------------------------------------------------------------------------
(* keyboard_handler.                                                       *)

\* The string in cmd_buffer: mystrcmp stops at the first zero.
CommandLine ==
    LET len == CHOOSE n \in 0 .. cmd_index :
                 /\ n = cmd_index \/ cmd_buffer[n] = NUL
                 /\ \A i \in 0 .. n - 1 : cmd_buffer[i] # NUL
    IN  [i \in 1 .. len |-> cmd_buffer[i - 1]]

clear_shell_command ==
    /\ cmd_buffer' = [i \in Slots |-> NUL]
    /\ cmd_index' = 0
    /\ command_ready_flag' = 0

\* After Enter: the reply is printed below the line, "clear" wipes the rows of
\* the shell, an empty line prints nothing.
Replies(con) ==
    LET cmd == CommandLine IN
    CASE cmd \in DOMAIN ReplyLengths -> {shell_print_line(con, n) : n \in ReplyLengths[cmd]}
      [] cmd = ClearLine             -> {Cleared(con)}
      [] cmd = DiskLine              -> {shell_print_line(con, n) : n \in DiskLengths}
      [] cmd = << >>                 -> {con}
      [] OTHER                       -> {shell_print_line(con, UnknownLength)}

Enter ==
    /\ \E con \in Replies(scroll_screen(NextRow(Console))) : Show(con)
    /\ clear_shell_command

Erase ==
    /\ cmd_index > 0
    /\ cmd_index' = cmd_index - 1
    /\ cmd_buffer' = [cmd_buffer EXCEPT ![cmd_index'] = NUL]
    /\ cursor_position' = cursor_position - 2
    /\ video_memory' = [video_memory EXCEPT ![cursor_position' \div 2] = Blank]
    /\ UNCHANGED <<command_ready_flag, overrun>>

\* The last slot stays free for the terminating zero.
Full_FillsBuffer == cmd_index >= BufferSize
Full == cmd_index >= BufferSize - 1

Insert(ch) ==
    /\ ~Full
    /\ cmd_buffer' = [cmd_buffer EXCEPT ![cmd_index] = ch]
    /\ cmd_index' = cmd_index + 1
    /\ video_memory' = [video_memory EXCEPT ![cursor_position \div 2] = ch]
    /\ cursor_position' = cursor_position + 2
    /\ overrun' = (overrun \/ cursor_position' > ScreenBytes)
    /\ UNCHANGED command_ready_flag

\* A backspace that has nothing to erase falls through to the last branch.
ShellNext ==
    \/ Enter
    \/ Erase
    \/ cmd_index = 0 /\ Insert(Backspace)
    \/ \E ch \in Letters : Insert(ch)

ShellSpec == ShellInit /\ [][ShellNext]_shell_vars

-----------------------------------------------------------------------------
(* Properties.                                                             *)

\* Every variable holds a value of its type.
ShellTypeOK ==
    /\ cursor_position \in 0 .. ScreenBytes - 1
    /\ video_memory \in [Cells -> Letters \cup {Blank, Backspace, Printed}]
    /\ cmd_buffer \in [Slots -> Letters \cup {Backspace, NUL}]
    /\ cmd_index \in Slots
    /\ command_ready_flag \in {0, 1}

\* The cursor stands right after the typed characters of a prompt row, never
\* on a row above the shell's and never below the screen.
CursorFollowsLine ==
    /\ cursor_position % RowBytes = 2 * cmd_index
    /\ FirstCursor <= cursor_position /\ cursor_position < ScreenBytes

\* What the user sees on the prompt row is what the shell will run: the cells
\* before the cursor hold cmd_buffer, those after it are blank, on every row
\* (scrolling, clearing and erasing leave nothing behind).
EchoIsBuffer ==
    \A c \in Cells :
        LET first == cursor_position \div 2 - cmd_index IN
        /\ c \in first .. first + cmd_index - 1 => video_memory[c] = cmd_buffer[c - first]
        /\ 2 * c >= cursor_position => video_memory[c] = Blank

\* Nothing is written outside the text screen ("If our text cursor slips past
\* the 25 visible rows (4000 bytes matrix space), we shift all character data
\* blocks upward", keyboard.cpp:74-76).
StaysOnScreen == ~overrun

=============================================================================

---------------------------- MODULE ShellProofs ----------------------------
(***************************************************************************)
(* Theorems about Shell, for every size of the screen, every buffer that   *)
(* is no longer than a row, all letters, commands and lengths of replies:  *)
(* the cursor, the line and its echo stay in step, and nothing is written  *)
(* below the screen as long as a reply fits in a row.                      *)
(***************************************************************************)
EXTENDS Shell, TLAPS

Chars == Letters \cup {Blank, Backspace, Printed}
Consoles == [at : Nat, cells : [Cells -> Chars], over : BOOLEAN]

\* The cursor stands in a row of the shell, after the characters of the line.
CursorAt(r) == r \in FirstRow .. Rows - 1 /\ cursor_position = 2 * (r * Columns + cmd_index)

Types ==
    /\ video_memory \in [Cells -> Chars]
    /\ cmd_buffer \in [Slots -> Letters \cup {Backspace, NUL}]
    /\ cmd_index \in Slots
    /\ command_ready_flag \in {0, 1}
    /\ overrun \in BOOLEAN

IInv == Types /\ (\E r \in Int : CursorAt(r)) /\ EchoIsBuffer

-----------------------------------------------------------------------------
(* Rows.                                                                   *)

LEMMA Sizes ==
    /\ Columns \in Nat \ {0} /\ Rows \in Nat /\ FirstRow \in Nat /\ FirstRow + 1 < Rows
    /\ BufferSize \in Nat \ {0} /\ BufferSize <= Columns
    /\ Rows * Columns \in Nat /\ FirstRow * Columns \in Nat
    /\ RowBytes = 2 * Columns /\ ScreenBytes = 2 * (Rows * Columns)
    /\ FirstCursor = 2 * (FirstRow * Columns)
    /\ LastRowCursor = 2 * (Rows * Columns - Columns)
    /\ Cells = 0 .. Rows * Columns - 1
<1>1. /\ Columns \in Nat \ {0} /\ Rows \in Nat /\ FirstRow \in Nat /\ FirstRow + 1 < Rows
      /\ BufferSize \in Nat \ {0} /\ BufferSize <= Columns
    BY ShellAssumption DEF ShellAssumption
<1>2. Rows * Columns \in Nat /\ FirstRow * Columns \in Nat
    BY <1>1
<1>3. Rows * (2 * Columns) = 2 * (Rows * Columns)
      /\ FirstRow * (2 * Columns) = 2 * (FirstRow * Columns)
    BY <1>1
<1> QED BY <1>1, <1>2, <1>3 DEF RowBytes, ScreenBytes, FirstCursor, LastRowCursor, Cells

\* The rows follow each other, and the last one ends where the screen does.
LEMMA RowFits ==
    ASSUME NEW r \in Int, 0 <= r
    PROVE  /\ r * Columns \in Nat /\ (r + 1) * Columns = r * Columns + Columns
           /\ r < Rows => r * Columns + Columns <= Rows * Columns
           /\ r >= Rows => r * Columns >= Rows * Columns
           /\ r >= FirstRow => r * Columns >= FirstRow * Columns
<1>1. Columns \in Nat /\ Rows \in Nat /\ FirstRow \in Nat
    BY Sizes
<1>2. r * Columns \in Nat /\ (r + 1) * Columns = r * Columns + Columns
    BY <1>1
<1>3. ASSUME NEW a \in Nat, NEW b \in Nat, a <= b PROVE a * Columns <= b * Columns
    <2>1. b - a \in Nat
        BY <1>3
    <2>2. (b - a) * Columns \in Nat /\ (b - a) * Columns = b * Columns - a * Columns
        BY <1>1, <2>1
    <2>3. a * Columns \in Int /\ b * Columns \in Int
        BY <1>1
    <2> QED BY <2>2, <2>3
<1>4. r < Rows => (r + 1) * Columns <= Rows * Columns
    BY <1>1, <1>3
<1>5. /\ r >= Rows => r * Columns >= Rows * Columns
      /\ r >= FirstRow => r * Columns >= FirstRow * Columns
    <2>1. r \in Nat /\ Rows * Columns \in Int /\ FirstRow * Columns \in Int
        BY <1>1
    <2> QED BY <1>1, <1>2, <1>3, <2>1
<1> QED BY <1>2, <1>4, <1>5

LEMMA Remainder ==
    ASSUME NEW u \in Nat, NEW w \in Nat, w > 0
    PROVE  u % w = u - w * (u \div w)
BY Z3

\* A position is in one row, which is the one that the division finds.
LEMMA RowOf ==
    ASSUME NEW u \in Nat
    PROVE  \E r \in Nat : /\ u \div RowBytes = r
                          /\ 2 * (r * Columns) <= u /\ u < 2 * (r * Columns) + 2 * Columns
                          /\ u % RowBytes = u - 2 * (r * Columns)
<1>1. PICK w \in Nat \ {0} : w = 2 * Columns
    BY Sizes
<1>2. PICK r \in Nat : r = u \div w
    BY <1>1
<1>3. w * r <= u /\ u < w * r + w
    BY <1>1, <1>2
<1>4. u % w = u - w * (u \div w)
    BY <1>1, Remainder
<1>5. w * r = 2 * (r * Columns) /\ RowBytes = w
    BY <1>1, Sizes
<1> QED BY <1>1, <1>2, <1>3, <1>4, <1>5

LEMMA RowIsUnique ==
    ASSUME NEW r \in Nat, NEW s \in Nat, NEW u \in Int,
           2 * (r * Columns) <= u, u < 2 * (r * Columns) + 2 * Columns,
           2 * (s * Columns) <= u, u < 2 * (s * Columns) + 2 * Columns
    PROVE  r = s
<1>1. Columns \in Nat
    BY Sizes
<1>2. ASSUME NEW a \in Nat, NEW b \in Nat, a < b PROVE a * Columns + Columns <= b * Columns
    <2>1. b - (a + 1) \in Nat
        BY <1>2
    <2>2. (b - (a + 1)) * Columns \in Nat
          /\ (b - (a + 1)) * Columns = b * Columns - (a * Columns + Columns)
        BY <1>1, <2>1
    <2>3. a * Columns \in Int /\ b * Columns \in Int
        BY <1>1
    <2> QED BY <1>1, <2>2, <2>3
<1>3. r * Columns \in Int /\ s * Columns \in Int
    BY <1>1
<1>4. ~(r < s) /\ ~(s < r)
    BY <1>1, <1>2, <1>3
<1> QED BY <1>4

-----------------------------------------------------------------------------
(* Consoles.                                                               *)

\* Nothing is shown from the cursor on.
BlankAfter(con) == \A c \in Cells : 2 * c >= con.at => con.cells[c] = Blank

\* A prompt: the cursor at the start of a row of the shell, nothing after it.
AtPrompt(con) ==
    /\ con \in Consoles /\ BlankAfter(con)
    /\ \E r \in FirstRow .. Rows - 1 : con.at = 2 * (r * Columns)

\* A new line, scrolled if need be, is a prompt.
LEMMA NewLine ==
    ASSUME NEW con \in Consoles, BlankAfter(con), con.at >= FirstCursor
    PROVE  /\ AtPrompt(scroll_screen(NextRow(con)))
           /\ scroll_screen(NextRow(con)).over = con.over
<1>1. con.at \in Nat /\ con.cells \in [Cells -> Chars]
    BY DEF Consoles
<1>2. PICK r \in Nat : /\ con.at \div RowBytes = r
                       /\ 2 * (r * Columns) <= con.at
                       /\ con.at < 2 * (r * Columns) + 2 * Columns
    BY <1>1, RowOf
<1> DEFINE next == NextRow(con)
           b == r * Columns
<1>3. /\ Columns \in Nat \ {0} /\ Rows \in Nat /\ FirstRow \in Nat /\ FirstRow < Rows
      /\ Rows * Columns \in Nat /\ FirstRow * Columns \in Nat
      /\ RowBytes = 2 * Columns /\ ScreenBytes = 2 * (Rows * Columns)
      /\ FirstCursor = 2 * (FirstRow * Columns)
      /\ LastRowCursor = 2 * (Rows * Columns - Columns)
      /\ Cells = 0 .. Rows * Columns - 1
    BY Sizes
<1>4. /\ b \in Nat /\ (r + 1) * Columns = b + Columns
      /\ r + 1 >= Rows => b + Columns >= Rows * Columns
      /\ r + 1 < Rows => b + Columns + Columns <= Rows * Columns
    <2>1. /\ b \in Nat /\ (r + 1) * Columns = b + Columns
        BY RowFits
    <2>2. /\ r + 1 >= Rows => (r + 1) * Columns >= Rows * Columns
          /\ r + 1 < Rows => (r + 1) * Columns + Columns <= Rows * Columns
        BY RowFits
    <2> QED BY <2>1, <2>2
<1>5. r + 1 >= FirstRow
    <2>1. ASSUME r < FirstRow PROVE FALSE
        <3>1. FirstRow - (r + 1) \in Nat
            BY <1>3, <2>1
        <3>2. (FirstRow - (r + 1)) * Columns \in Nat
              /\ (FirstRow - (r + 1)) * Columns = FirstRow * Columns - (r + 1) * Columns
            BY <1>3, <3>1
        <3> QED BY <1>2, <1>3, <1>4, <3>2, <1>1
    <2> QED BY <1>3, <2>1
<1>6. next = [at |-> 2 * (b + Columns), cells |-> con.cells, over |-> con.over]
    <2>1. ((con.at \div RowBytes) + 1) * RowBytes = 2 * (b + Columns)
        <3>1. (r + 1) * (2 * Columns) = 2 * ((r + 1) * Columns)
            BY <1>3
        <3> QED BY <1>2, <1>3, <1>4, <3>1
    <2> HIDE DEF b
    <2> QED BY <2>1 DEF NextRow, Consoles
<1> HIDE DEF next, b
<1>7. CASE r + 1 < Rows
    <2>1. ~(next.at >= ScreenBytes)
        BY <1>3, <1>4, <1>6, <1>7
    <2>2. scroll_screen(next) = next
        BY <2>1 DEF scroll_screen
    <2>3. next \in Consoles /\ next.over = con.over
        BY <1>1, <1>3, <1>4, <1>6 DEF Consoles
    <2>4. BlankAfter(next)
        <3> SUFFICES ASSUME NEW c \in Cells, 2 * c >= next.at PROVE next.cells[c] = Blank
            BY DEF BlankAfter
        <3>1. 2 * c >= con.at
            BY <1>1, <1>2, <1>3, <1>4, <1>6 DEF b
        <3> QED BY <1>6, <3>1 DEF BlankAfter
    <2>5. r + 1 \in FirstRow .. Rows - 1 /\ next.at = 2 * ((r + 1) * Columns)
        BY <1>3, <1>4, <1>5, <1>6, <1>7
    <2> QED BY <2>2, <2>3, <2>4, <2>5 DEF AtPrompt, next
<1>8. CASE ~(r + 1 < Rows)
    <2> DEFINE scrolled == [c \in Cells |-> IF c + Columns \in Cells
                                            THEN con.cells[c + Columns] ELSE Blank]
    <2>1. next.at >= ScreenBytes
        BY <1>3, <1>4, <1>6, <1>8
    <2>2. scroll_screen(next) = [at |-> LastRowCursor, cells |-> scrolled, over |-> con.over]
        BY <1>6, <2>1 DEF scroll_screen
    <2>3. scrolled \in [Cells -> Chars]
        BY <1>1 DEF Chars
    <2>4. \A c \in Cells : 2 * c >= LastRowCursor => scrolled[c] = Blank
        <3> TAKE c \in Cells
        <3>1. 2 * c >= LastRowCursor => c + Columns \notin Cells
            BY <1>3
        <3> QED BY <3>1
    <2>5. LastRowCursor \in Nat /\ LastRowCursor = 2 * ((Rows - 1) * Columns)
        <3>1. (Rows - 1) * Columns = Rows * Columns - Columns /\ (Rows - 1) * Columns \in Nat
            BY <1>3
        <3> QED BY <1>3, <3>1
    <2>6. Rows - 1 \in FirstRow .. Rows - 1
        BY <1>3
    <2> HIDE DEF scrolled
    <2>7. scroll_screen(next) \in Consoles
        BY <2>2, <2>3, <2>5 DEF Consoles
    <2> QED BY <2>2, <2>4, <2>5, <2>6, <2>7 DEF AtPrompt, BlankAfter, next
<1> QED BY <1>7, <1>8

\* So is what a reply leaves; it leaves the screen only if it is too long.
LEMMA PrintLine ==
    ASSUME NEW con, AtPrompt(con), NEW n \in Nat
    PROVE  /\ AtPrompt(shell_print_line(con, n))
           /\ n <= Columns => shell_print_line(con, n).over = con.over
<1>1. con \in Consoles /\ BlankAfter(con)
    BY DEF AtPrompt
<1>2. PICK r \in FirstRow .. Rows - 1 : con.at = 2 * (r * Columns)
    BY DEF AtPrompt
<1>3. /\ Columns \in Nat \ {0} /\ Rows \in Nat /\ FirstRow \in Nat
      /\ Rows * Columns \in Nat /\ FirstRow * Columns \in Nat
      /\ ScreenBytes = 2 * (Rows * Columns)
      /\ FirstCursor = 2 * (FirstRow * Columns)
      /\ Cells = 0 .. Rows * Columns - 1
    BY Sizes
<1> DEFINE b == r * Columns
           cells == [c \in Cells |-> IF c \in con.at \div 2 .. con.at \div 2 + n - 1
                                     THEN Printed ELSE con.cells[c]]
           over == con.over \/ con.at + 2 * n > ScreenBytes
           written == Write(con, n)
<1>4. b \in Nat /\ b >= FirstRow * Columns /\ b + Columns <= Rows * Columns
    <2>1. r \in Int /\ 0 <= r /\ r < Rows /\ r >= FirstRow
        BY <1>3
    <2> QED BY <2>1, RowFits
<1>5. con.at = 2 * b /\ con.at \div 2 = b
    BY <1>2, <1>4
<1> HIDE DEF b
<1>6. written = [at |-> con.at + 2 * n, cells |-> cells, over |-> over]
    BY DEF Write
<1>7. cells \in [Cells -> Chars]
    BY <1>1 DEF Consoles, Chars
<1>8. over \in BOOLEAN
    BY <1>1 DEF Consoles
<1>9. \A c \in Cells : 2 * c >= con.at + 2 * n => cells[c] = Blank
    <2> SUFFICES ASSUME NEW c \in Cells, 2 * c >= con.at + 2 * n PROVE cells[c] = Blank
        OBVIOUS
    <2>1. c \notin con.at \div 2 .. con.at \div 2 + n - 1 /\ 2 * c >= con.at
        BY <1>3, <1>4, <1>5
    <2> QED BY <1>1, <2>1 DEF BlankAfter
<1>10. n <= Columns => over = con.over
    <2>1. n <= Columns => ~(con.at + 2 * n > ScreenBytes)
        BY <1>3, <1>4, <1>5
    <2>2. con.over \in BOOLEAN
        BY <1>1 DEF Consoles
    <2> QED BY <2>1, <2>2
<1> HIDE DEF cells, over
<1>11. written \in Consoles
    BY <1>4, <1>5, <1>6, <1>7, <1>8 DEF Consoles
<1>12. BlankAfter(written) /\ written.at >= FirstCursor /\ written.over = over
    BY <1>3, <1>4, <1>5, <1>6, <1>9 DEF BlankAfter
<1> HIDE DEF written
<1> QED BY <1>10, <1>11, <1>12, NewLine DEF shell_print_line, written

LEMMA ClearScreen ==
    ASSUME NEW con, AtPrompt(con)
    PROVE  AtPrompt(Cleared(con)) /\ Cleared(con).over = con.over
<1>1. con \in Consoles
    BY DEF AtPrompt
<1> DEFINE cells == [c \in Cells |-> IF 2 * c >= FirstCursor THEN Blank ELSE con.cells[c]]
<1>2. Cleared(con) = [at |-> FirstCursor, cells |-> cells, over |-> con.over]
    <2>1. Cleared(con) = [con EXCEPT !.at = FirstCursor, !.cells = cells]
        BY DEF Cleared
    <2> HIDE DEF cells
    <2> QED BY <1>1, <2>1 DEF Consoles
<1>3. cells \in [Cells -> Chars] /\ \A c \in Cells : 2 * c >= FirstCursor => cells[c] = Blank
    BY <1>1 DEF Consoles, Chars
<1>4. FirstCursor \in Nat /\ FirstRow \in FirstRow .. Rows - 1
      /\ FirstCursor = 2 * (FirstRow * Columns)
    BY Sizes
<1> HIDE DEF cells
<1>5. Cleared(con) \in Consoles
    BY <1>1, <1>2, <1>3, <1>4 DEF Consoles
<1> QED BY <1>2, <1>3, <1>4, <1>5 DEF AtPrompt, BlankAfter

\* Every reply fits in a row.
RepliesFit ==
    /\ \A cmd \in DOMAIN ReplyLengths : \A n \in ReplyLengths[cmd] : n <= Columns
    /\ UnknownLength <= Columns
    /\ \A n \in DiskLengths : n <= Columns

\* Whatever the command, its reply leaves a prompt.
LEMMA ReplyIsPrompt ==
    ASSUME NEW con, AtPrompt(con), NEW reply \in Replies(con)
    PROVE  AtPrompt(reply) /\ (RepliesFit => reply.over = con.over)
<1> DEFINE cmd == CommandLine
<1>0. /\ \A c \in DOMAIN ReplyLengths : ReplyLengths[c] \subseteq Nat
      /\ UnknownLength \in Nat /\ DiskLengths \subseteq Nat
    BY ShellAssumption DEF ShellAssumption
<1> HIDE DEF cmd
<1>1. CASE /\ cmd \in DOMAIN ReplyLengths
           /\ \E n \in ReplyLengths[cmd] : reply = shell_print_line(con, n)
    BY <1>0, <1>1, PrintLine DEF RepliesFit
<1>2. CASE reply = Cleared(con)
    BY <1>2, ClearScreen
<1>3. CASE \E n \in DiskLengths : reply = shell_print_line(con, n)
    BY <1>0, <1>3, PrintLine DEF RepliesFit
<1>4. CASE reply = con
    BY <1>4
<1>5. CASE reply = shell_print_line(con, UnknownLength)
    BY <1>0, <1>5, PrintLine DEF RepliesFit
<1>6. \/ /\ cmd \in DOMAIN ReplyLengths
         /\ \E n \in ReplyLengths[cmd] : reply = shell_print_line(con, n)
      \/ reply = Cleared(con)
      \/ \E n \in DiskLengths : reply = shell_print_line(con, n)
      \/ reply = con \/ reply = shell_print_line(con, UnknownLength)
    BY DEF Replies, cmd
<1> QED BY <1>1, <1>2, <1>3, <1>4, <1>5, <1>6
-----------------------------------------------------------------------------
(* Keys.                                                                   *)

\* EchoIsBuffer, with the row given.
Echo(r) ==
    \A c \in Cells :
        /\ c \in r * Columns .. r * Columns + cmd_index - 1 =>
             video_memory[c] = cmd_buffer[c - r * Columns]
        /\ c >= r * Columns + cmd_index => video_memory[c] = Blank

RowTellsEcho == \A r : cmd_index \in Slots /\ CursorAt(r) => (EchoIsBuffer <=> Echo(r))

LEMMA EchoOfRow == RowTellsEcho
<1> USE DEF RowTellsEcho
<1> SUFFICES ASSUME NEW r, cmd_index \in Slots, CursorAt(r) PROVE EchoIsBuffer <=> Echo(r)
    OBVIOUS
<1>1. /\ FirstRow \in Nat /\ Rows \in Nat /\ BufferSize \in Nat
      /\ Cells = 0 .. Rows * Columns - 1 /\ Rows * Columns \in Nat
    BY Sizes
<1>2. r \in Nat /\ cmd_index \in Nat
    BY <1>1 DEF CursorAt, Slots
<1> DEFINE b == r * Columns
<1>3. b \in Nat /\ cursor_position = 2 * (b + cmd_index)
    BY <1>2, RowFits DEF CursorAt
<1> HIDE DEF b
<1>4. cursor_position \div 2 - cmd_index = b
    BY <1>2, <1>3
<1>5. \A c \in Cells : 2 * c >= cursor_position <=> c >= b + cmd_index
    BY <1>1, <1>2, <1>3
<1> QED BY <1>4, <1>5 DEF EchoIsBuffer, Echo, b

\* The facts about a state that the steps of the proof start from.
LEMMA RowFacts ==
    ASSUME IInv, NEW r, CursorAt(r)
    PROVE  /\ r \in Nat /\ r \in FirstRow .. Rows - 1 /\ r * Columns \in Nat
           /\ r * Columns + Columns <= Rows * Columns
           /\ r * Columns >= FirstRow * Columns
           /\ cmd_index \in Nat /\ cmd_index < BufferSize
           /\ cursor_position = 2 * (r * Columns + cmd_index)
           /\ Echo(r)
<1>1. FirstRow \in Nat /\ Rows \in Nat /\ BufferSize \in Nat
    BY Sizes
<1>2. r \in Nat /\ r \in FirstRow .. Rows - 1 /\ r < Rows /\ r >= FirstRow
    BY <1>1 DEF CursorAt
<1>3. cmd_index \in Nat /\ cmd_index < BufferSize /\ cmd_index \in Slots
    BY <1>1 DEF IInv, Types, Slots
<1>4. Echo(r)
    BY <1>3, EchoOfRow DEF IInv, RowTellsEcho
<1>5. /\ r * Columns \in Nat /\ r * Columns + Columns <= Rows * Columns
      /\ r * Columns >= FirstRow * Columns
    BY <1>2, RowFits
<1> QED BY <1>2, <1>3, <1>4, <1>5 DEF CursorAt

\* To restore the invariant it is enough to know the row, and the echo in it.
LEMMA Restored ==
    ASSUME Types', NEW r, CursorAt(r)', Echo(r)'
    PROVE  IInv'
<1>1. RowTellsEcho'
    BY EchoOfRow, PTL
<1>2. EchoIsBuffer'
    BY <1>1 DEF Types, RowTellsEcho
<1>3. r \in Int
    BY Sizes DEF CursorAt
<1> QED BY <1>2, <1>3 DEF IInv

LEMMA EnterKeeps ==
    ASSUME IInv, Enter
    PROVE  IInv' /\ (RepliesFit => overrun' = overrun)
<1>1. PICK r : CursorAt(r)
    BY DEF IInv
<1> DEFINE b == r * Columns
<1>2. /\ r \in Nat /\ b \in Nat /\ b >= FirstRow * Columns
      /\ cmd_index \in Nat /\ cursor_position = 2 * (b + cmd_index) /\ Echo(r)
    BY <1>1, RowFacts
<1>3. /\ FirstCursor = 2 * (FirstRow * Columns) /\ FirstRow * Columns \in Nat
      /\ Cells = 0 .. Rows * Columns - 1 /\ Rows * Columns \in Nat
      /\ FirstRow \in Nat /\ Rows \in Nat /\ BufferSize \in Nat \ {0}
    BY Sizes
<1>4. Console \in Consoles /\ Console.at >= FirstCursor /\ Console.over = overrun
    <2> HIDE DEF b
    <2> QED BY <1>2, <1>3 DEF Console, Consoles, IInv, Types
<1>5. BlankAfter(Console)
    BY DEF Console, BlankAfter, IInv, EchoIsBuffer
<1> DEFINE con == scroll_screen(NextRow(Console))
<1>6. AtPrompt(con) /\ con.over = overrun
    BY <1>4, <1>5, NewLine
<1>7. PICK reply \in Replies(con) : Show(reply)
    BY DEF Enter
<1> HIDE DEF con
<1>8. AtPrompt(reply) /\ (RepliesFit => reply.over = overrun)
    BY <1>6, ReplyIsPrompt
<1>9. PICK s \in FirstRow .. Rows - 1 : reply.at = 2 * (s * Columns)
    BY <1>8 DEF AtPrompt
<1>10. /\ cursor_position' = 2 * (s * Columns) /\ video_memory' = reply.cells
       /\ overrun' = reply.over
    BY <1>7, <1>9 DEF Show
<1>11. cmd_index' = 0 /\ cmd_buffer' = [i \in Slots |-> NUL] /\ command_ready_flag' = 0
    BY DEF Enter, clear_shell_command
<1>12. s * Columns \in Nat
    <2>1. s \in Int /\ 0 <= s
        BY <1>3
    <2> QED BY <2>1, RowFits
<1>13. Types'
    BY <1>3, <1>8, <1>10, <1>11 DEF Types, AtPrompt, Consoles, Slots
<1>14. CursorAt(s)'
    BY <1>10, <1>11, <1>12 DEF CursorAt
<1>15. \A c \in Cells : c >= s * Columns => video_memory'[c] = Blank
    <2>1. \A c \in Cells : c >= s * Columns => 2 * c >= reply.at
        BY <1>3, <1>9, <1>12
    <2> QED BY <1>8, <1>10, <2>1 DEF AtPrompt, BlankAfter
<1>16. Echo(s)'
    BY <1>3, <1>11, <1>12, <1>15 DEF Echo
<1> QED BY <1>8, <1>10, <1>13, <1>14, <1>16, Restored

LEMMA EraseKeeps ==
    ASSUME IInv, Erase
    PROVE  IInv' /\ overrun' = overrun
<1>1. PICK r : CursorAt(r)
    BY DEF IInv
<1>b. PICK b \in Nat : b = r * Columns
    BY <1>1, RowFacts
<1>i. PICK i \in Nat : i = cmd_index
    BY <1>1, RowFacts
<1>s. PICK size \in Nat : size = Rows * Columns
    BY Sizes
<1>2. /\ b + Columns <= size /\ i < BufferSize /\ cursor_position = 2 * (b + i)
      /\ Echo(r)
    BY <1>1, <1>b, <1>i, <1>s, RowFacts
<1>3. /\ Cells = 0 .. size - 1
      /\ Columns \in Nat /\ BufferSize \in Nat /\ BufferSize <= Columns
    BY <1>s, Sizes
<1>4. i > 0 /\ cmd_index' = i - 1 /\ cursor_position' = 2 * (b + (i - 1))
    BY <1>2, <1>i DEF Erase
<1>5. cursor_position' \div 2 = b + (i - 1)
    BY <1>4
<1>6. /\ cmd_buffer' = [cmd_buffer EXCEPT ![i - 1] = NUL]
      /\ video_memory' = [video_memory EXCEPT ![b + (i - 1)] = Blank]
      /\ UNCHANGED <<command_ready_flag, overrun>>
    BY <1>4, <1>5, <1>i DEF Erase
<1>7. Types'
    <2>1. cmd_index' \in Slots
        BY <1>2, <1>3, <1>4 DEF Slots
    <2>2. video_memory' \in [Cells -> Chars]
        BY <1>6 DEF IInv, Types, Chars
    <2>3. cmd_buffer' \in [Slots -> Letters \cup {Backspace, NUL}]
        BY <1>6 DEF IInv, Types
    <2> QED BY <1>6, <2>1, <2>2, <2>3 DEF IInv, Types
<1>8. CursorAt(r)'
    BY <1>1, <1>4, <1>b DEF CursorAt
<1>9. ASSUME NEW c \in Cells
      PROVE  /\ c \in b .. b + (i - 1) - 1 => video_memory'[c] = cmd_buffer'[c - b]
             /\ c >= b + (i - 1) => video_memory'[c] = Blank
    <2>1. /\ c \in b .. b + i - 1 => video_memory[c] = cmd_buffer[c - b]
          /\ c >= b + i => video_memory[c] = Blank
        BY <1>2, <1>b, <1>i DEF Echo
    <2>2. CASE c \in b .. b + (i - 1) - 1
        <3>1. c # b + (i - 1) /\ c - b # i - 1 /\ c \in b .. b + i - 1 /\ c - b \in Slots
              /\ ~(c >= b + (i - 1))
            BY <1>2, <1>3, <2>2 DEF Slots
        <3> QED BY <1>6, <2>1, <3>1 DEF IInv, Types
    <2>3. CASE c = b + (i - 1)
        <3>1. video_memory'[c] = Blank
            BY <1>6, <2>3 DEF IInv, Types
        <3> QED BY <1>4, <2>3, <3>1
    <2>4. CASE c >= b + i
        <3>1. c # b + (i - 1) /\ c \notin b .. b + (i - 1) - 1
            BY <1>3, <2>4
        <3> QED BY <1>6, <2>1, <2>4, <3>1 DEF IInv, Types
    <2>5. \/ c \in b .. b + (i - 1) - 1 \/ c = b + (i - 1) \/ c >= b + i
          \/ ~(c >= b)
        BY <1>3, <1>4
    <2>6. CASE ~(c >= b)
        BY <1>3, <1>4, <2>6
    <2> QED BY <2>2, <2>3, <2>4, <2>5, <2>6
<1>10. Echo(r)'
    BY <1>4, <1>9, <1>b DEF Echo
<1> QED BY <1>6, <1>7, <1>8, <1>10, Restored

LEMMA InsertKeeps ==
    ASSUME IInv, NEW ch \in Letters \cup {Backspace}, Insert(ch)
    PROVE  IInv' /\ overrun' = overrun
<1>1. PICK r : CursorAt(r)
    BY DEF IInv
<1>b. PICK b \in Nat : b = r * Columns
    BY <1>1, RowFacts
<1>i. PICK i \in Nat : i = cmd_index
    BY <1>1, RowFacts
<1>s. PICK size \in Nat : size = Rows * Columns
    BY Sizes
<1>2. /\ b + Columns <= size /\ i < BufferSize /\ cursor_position = 2 * (b + i)
      /\ Echo(r)
    BY <1>1, <1>b, <1>i, <1>s, RowFacts
<1>3. /\ Cells = 0 .. size - 1 /\ ScreenBytes = 2 * size
      /\ Columns \in Nat /\ BufferSize \in Nat /\ BufferSize <= Columns
    BY <1>s, Sizes
<1>4. /\ i + 1 < BufferSize /\ cmd_index' = i + 1 /\ cursor_position' = 2 * (b + (i + 1))
      /\ cursor_position \div 2 = b + i
    BY <1>2, <1>3, <1>i DEF Insert, Full
<1>5. /\ cmd_buffer' = [cmd_buffer EXCEPT ![i] = ch]
      /\ video_memory' = [video_memory EXCEPT ![b + i] = ch]
      /\ overrun' = (overrun \/ cursor_position' > ScreenBytes)
      /\ UNCHANGED command_ready_flag
    BY <1>4, <1>i DEF Insert
<1>6. overrun' = overrun
    <2>1. ~(cursor_position' > ScreenBytes)
        BY <1>2, <1>3, <1>4
    <2> QED BY <1>5, <2>1 DEF IInv, Types
<1>7. Types'
    <2>1. cmd_index' \in Slots
        BY <1>3, <1>4 DEF Slots
    <2>2. video_memory' \in [Cells -> Chars]
        BY <1>5 DEF IInv, Types, Chars
    <2>3. cmd_buffer' \in [Slots -> Letters \cup {Backspace, NUL}]
        BY <1>5 DEF IInv, Types
    <2> QED BY <1>5, <1>6, <2>1, <2>2, <2>3 DEF IInv, Types
<1>8. CursorAt(r)'
    BY <1>1, <1>4, <1>b DEF CursorAt
<1>9. ASSUME NEW c \in Cells
      PROVE  /\ c \in b .. b + (i + 1) - 1 => video_memory'[c] = cmd_buffer'[c - b]
             /\ c >= b + (i + 1) => video_memory'[c] = Blank
    <2>1. /\ c \in b .. b + i - 1 => video_memory[c] = cmd_buffer[c - b]
          /\ c >= b + i => video_memory[c] = Blank
        BY <1>2, <1>b, <1>i DEF Echo
    <2>2. CASE c \in b .. b + i - 1
        <3>1. c # b + i /\ c - b # i /\ c - b \in Slots /\ ~(c >= b + (i + 1))
            BY <1>2, <1>3, <2>2 DEF Slots
        <3> QED BY <1>5, <2>1, <2>2, <3>1 DEF IInv, Types
    <2>3. CASE c = b + i
        <3>1. c - b = i /\ i \in Slots /\ ~(c >= b + (i + 1))
            BY <1>2, <1>3, <2>3 DEF Slots
        <3> QED BY <1>5, <2>3, <3>1 DEF IInv, Types
    <2>4. CASE c >= b + (i + 1)
        <3>1. c # b + i /\ c \notin b .. b + (i + 1) - 1 /\ c >= b + i
            BY <1>3, <2>4
        <3> QED BY <1>5, <2>1, <3>1 DEF IInv, Types
    <2>5. CASE ~(c >= b)
        BY <1>3, <2>5
    <2>6. \/ c \in b .. b + i - 1 \/ c = b + i \/ c >= b + (i + 1) \/ ~(c >= b)
        BY <1>3
    <2> QED BY <2>2, <2>3, <2>4, <2>5, <2>6
<1>10. Echo(r)'
    BY <1>4, <1>9, <1>b DEF Echo
<1> QED BY <1>6, <1>7, <1>8, <1>10, Restored

-----------------------------------------------------------------------------
(* The theorems.                                                           *)

LEMMA InitHolds == ShellInit => IInv /\ ~overrun
<1> SUFFICES ASSUME ShellInit PROVE IInv /\ ~overrun
    OBVIOUS
<1>1. /\ FirstRow \in Nat /\ Rows \in Nat /\ FirstRow + 1 < Rows /\ BufferSize \in Nat \ {0}
      /\ FirstRow * Columns \in Nat /\ FirstCursor = 2 * (FirstRow * Columns)
    BY Sizes
<1>2. Types /\ ~overrun
    <2>1. 0 \in Slots
        BY <1>1 DEF Slots
    <2>2. video_memory \in [Cells -> Chars] /\ cmd_buffer \in [Slots -> {NUL}]
        BY DEF ShellInit, Chars
    <2>3. overrun = FALSE
        BY DEF ShellInit
    <2> QED BY <2>1, <2>2, <2>3 DEF ShellInit, Types
<1>3. CursorAt(FirstRow)
    BY <1>1 DEF ShellInit, CursorAt
<1>4. EchoIsBuffer
    <2>1. cmd_index = 0 /\ \A c \in Cells : video_memory[c] = Blank
        BY DEF ShellInit
    <2>2. cursor_position \div 2 \in Int
        BY <1>1 DEF ShellInit
    <2> QED BY <2>1, <2>2 DEF EchoIsBuffer
<1> QED BY <1>1, <1>2, <1>3, <1>4 DEF IInv

\* The invariant, of which the properties below are parts.
LEMMA StepKeeps ==
    IInv /\ [ShellNext]_shell_vars => IInv' /\ (RepliesFit => overrun' = overrun)
<1> SUFFICES ASSUME IInv, [ShellNext]_shell_vars
             PROVE  IInv' /\ (RepliesFit => overrun' = overrun)
    OBVIOUS
<1>1. CASE Enter
    BY <1>1, EnterKeeps
<1>2. CASE Erase
    BY <1>2, EraseKeeps
<1>3. CASE cmd_index = 0 /\ Insert(Backspace)
    BY <1>3, InsertKeeps
<1>4. CASE \E ch \in Letters : Insert(ch)
    BY <1>4, InsertKeeps
<1>5. CASE UNCHANGED shell_vars
    BY <1>5 DEF shell_vars, IInv, Types, CursorAt, EchoIsBuffer
<1> QED BY <1>1, <1>2, <1>3, <1>4, <1>5 DEF ShellNext

THEOREM Invariance == ShellSpec => []IInv
BY InitHolds, StepKeeps, PTL DEF ShellSpec

\* The cursor stands right after the line, in a row of the shell.
THEOREM CursorIsAfterLine == ShellSpec => []CursorFollowsLine
<1>1. IInv => CursorFollowsLine
    <2> SUFFICES ASSUME IInv PROVE CursorFollowsLine
        OBVIOUS
    <2>1. PICK r : CursorAt(r)
        BY DEF IInv
    <2> PICK b \in Nat : b = r * Columns
        BY <2>1, RowFacts
    <2>2. /\ r \in Nat /\ b + Columns <= Rows * Columns /\ b >= FirstRow * Columns
          /\ cmd_index \in Nat /\ cmd_index < BufferSize
          /\ cursor_position = 2 * (b + cmd_index)
        BY <2>1, RowFacts
    <2>3. /\ Columns \in Nat /\ BufferSize \in Nat /\ BufferSize <= Columns
          /\ Rows * Columns \in Nat /\ FirstRow * Columns \in Nat
          /\ FirstCursor = 2 * (FirstRow * Columns) /\ ScreenBytes = 2 * (Rows * Columns)
        BY Sizes
    <2>4. cursor_position \in Nat /\ FirstCursor <= cursor_position
          /\ cursor_position < ScreenBytes
        BY <2>2, <2>3
    <2>5. PICK s \in Nat : /\ 2 * (s * Columns) <= cursor_position
                           /\ cursor_position < 2 * (s * Columns) + 2 * Columns
                           /\ cursor_position % RowBytes = cursor_position - 2 * (s * Columns)
        BY <2>4, RowOf
    <2>6. 2 * (r * Columns) <= cursor_position
          /\ cursor_position < 2 * (r * Columns) + 2 * Columns
        BY <2>2, <2>3
    <2>7. r = s
        BY <2>2, <2>4, <2>5, <2>6, RowIsUnique
    <2>8. cursor_position % RowBytes = cursor_position - 2 * b
        BY <2>5, <2>7
    <2>9. cursor_position % RowBytes = 2 * cmd_index
        BY <2>2, <2>8
    <2> QED BY <2>4, <2>9 DEF CursorFollowsLine
<1> QED BY <1>1, Invariance, PTL

\* What stands on the prompt row is what the shell will run.
THEOREM EchoFollowsBuffer == ShellSpec => []EchoIsBuffer
BY Invariance, PTL DEF IInv

\* Every variable keeps its type.
THEOREM TypeCorrect == ShellSpec => []ShellTypeOK
<1>1. IInv /\ CursorFollowsLine => ShellTypeOK
    <2> SUFFICES ASSUME IInv, CursorFollowsLine PROVE ShellTypeOK
        OBVIOUS
    <2>1. PICK r : CursorAt(r)
        BY DEF IInv
    <2>2. r * Columns \in Nat /\ cmd_index \in Nat
          /\ cursor_position = 2 * (r * Columns + cmd_index)
        BY <2>1, RowFacts
    <2>3. cursor_position \in 0 .. ScreenBytes - 1
        BY <2>2, Sizes DEF CursorFollowsLine
    <2> QED BY <2>3 DEF IInv, Types, ShellTypeOK, Chars
<1> QED BY <1>1, Invariance, CursorIsAfterLine, PTL

\* Nothing is written outside the screen when every reply fits in a row, as those of
\* the code do when the drive gives back what was written to it.
THEOREM ShortRepliesStay == RepliesFit => (ShellSpec => []StaysOnScreen)
<1> SUFFICES ASSUME RepliesFit PROVE ShellSpec => []StaysOnScreen
    OBVIOUS
<1>1. ShellInit => StaysOnScreen
    BY InitHolds DEF StaysOnScreen
<1>2. IInv /\ StaysOnScreen /\ [ShellNext]_shell_vars => StaysOnScreen'
    BY StepKeeps DEF StaysOnScreen
<1> QED BY <1>1, <1>2, Invariance, PTL DEF ShellSpec
=============================================================================

------------------------------ MODULE LineEdit ------------------------------
(***************************************************************************)
(* read_cmd() of the shell (shell.c): the line in its buffer, the history, *)
(* and the rows of the screen.  The line may take more rows than there are *)
(* below the prompt; replace_input() then scrolls the screen with '\n'.    *)
(***************************************************************************)
EXTENDS Integers, Sequences, SequencesExt

CONSTANTS
    Typed, Completion, Size, HistorySize,    \* see Editor
    NUL,
    Rows, Cols,     \* of the console
    Scol,           \* the column after the prompt
    MaxEntered      \* bound: the characters of a line that is entered

ASSUME EditorAssumption ==
    /\ " " \in Typed
    /\ Completion \subseteq Seq(Typed)
    /\ Size \in Nat \ {0, 1, 2}
    /\ HistorySize \in Nat \ {0}
\* read_cmd() also puts a NUL into the line if one is typed (Ctrl-@, a BREAK on
\* a serial line; shell.c:342): strlen() is then less than cmdlen, and the line
\* is entered up to the NUL only (shell.c:364).  That is left out.
ASSUME ScreenAssumption ==
    /\ Rows \in Nat \ {0} /\ Cols \in Nat \ {0, 1} /\ Scol \in 0 .. Cols - 1
    /\ NUL \notin Typed

VARIABLES
    cmdbuf, cmdlen, offset,
    history, hnum,
    srow,           \* where read_cmd() thinks that the prompt is ...
    prompt,         \* ... and where it is
    row             \* of the cursor

screen == <<srow, prompt, row>>
lvars == <<cmdbuf, cmdlen, offset, history, hnum, screen>>

Byte == Typed \cup {NUL}
Index == 0 .. Size - 1

Least(S) == CHOOSE i \in S : \A j \in S : i <= j

strlen(b) == Least({i \in Index : b[i] = NUL} \cup {Size})

Text(b, from, to) == [i \in 1 .. to - from |-> b[from + i - 1]]

\* strlcpy() to the buffer.
Put(s) ==
    [i \in Index |-> IF i < Len(s) THEN s[i + 1]
                     ELSE IF i = Len(s) THEN NUL ELSE cmdbuf[i]]

\* memmove() of n bytes; "over" is the byte behind the buffer.
Moved(to, from, n, over) ==
    [i \in Index |-> IF i \in to .. to + n - 1
                       THEN LET j == from + i - to
                            IN  IF j \in Index THEN cmdbuf[j] ELSE over
                       ELSE cmdbuf[i]]

LineInit ==
    /\ cmdbuf = [i \in Index |-> NUL]
    /\ cmdlen = 0 /\ offset = 0
    /\ history = <<>> /\ hnum = -1
    /\ prompt \in 0 .. Rows - 1
    /\ srow = prompt /\ row = prompt

-----------------------------------------------------------------------------
(***************************************************************************)
(* The screen.                                                             *)
(***************************************************************************)
\* The row of column Scol + o of a line that begins on row r.
RowOf(r, o) == r + (Scol + o) \div Cols

OnScreen(r) == IF r < 0 THEN 0 ELSE IF r >= Rows THEN Rows - 1 ELSE r

AtLeast0(n) == IF n > 0 THEN n ELSE 0

\* The terminal goes to the next row for the character after the last column.
LastRow(r, len) ==
    IF len > 0 /\ (Scol + len) % Cols = 0
      THEN RowOf(r, len) - 1 ELSE RowOf(r, len)

\* Mutant: srow stays when the screen scrolls.
replace_input_stays(r, p, cur, len) ==
    LET lines == AtLeast0(RowOf(r, len) + 1 - Rows)
    IN  srow' = r /\ prompt' = p - AtLeast0(cur + lines - (Rows - 1))

\* replace_input() of a line of len characters whose prompt is thought to be
\* at r and is at p, with the cursor on row cur: a '\n' for each row that is
\* missing, which scrolls only from the last row.
replace_input(r, p, cur, len) ==
    LET lines == AtLeast0(RowOf(r, len) + 1 - Rows)
    IN  srow' = r - lines /\ prompt' = p - AtLeast0(cur + lines - (Rows - 1))

set_cursor(o) == row' = OnScreen(RowOf(srow', o))

-----------------------------------------------------------------------------
(***************************************************************************)
(* The keys.                                                               *)
(***************************************************************************)
\* A text of len characters is drawn, the cursor being on row cur, and the
\* cursor put at o.
Draws(cur, len, o) ==
    /\ cmdlen' = len /\ offset' = o
    /\ replace_input(srow, prompt, cur, len)
    /\ set_cursor(o)
    /\ UNCHANGED <<history, hnum>>

\* erase_input() leaves the cursor at o.
Erased(o) == OnScreen(RowOf(srow, o))

Move(o) ==
    /\ offset' = o
    /\ row' = OnScreen(RowOf(srow, o))
    /\ UNCHANGED <<cmdbuf, cmdlen, history, hnum, srow, prompt>>

Left == offset > 0 /\ Move(offset - 1)
Right == offset < cmdlen /\ Move(offset + 1)
Home == Move(0)
End == Move(cmdlen)

Backspace ==
    /\ offset > 0
    /\ cmdbuf' = Moved(offset - 1, offset, cmdlen - offset + 1, NUL)
    /\ Draws(Erased(offset - 1), cmdlen - 1, offset - 1)

\* The last byte that memmove() reads is behind the buffer when it is full.
Delete ==
    /\ offset < cmdlen
    /\ \E over \in Byte :
         cmdbuf' = Moved(offset, offset + 1, cmdlen - offset + 1, over)
    /\ Draws(Erased(offset), cmdlen - 1, offset)

Insert(c) ==
    /\ cmdlen + 2 < Size
    /\ cmdbuf' = [Moved(offset + 1, offset, cmdlen - offset, NUL)
                    EXCEPT ![offset] = c, ![cmdlen + 1] = NUL]
    /\ Draws(row, cmdlen + 1, offset + 1)

\* A line of the history, or the empty one, instead of the text.
Recall(n) ==
    LET s == IF n = -1 THEN <<>> ELSE history[n + 1]
    IN  /\ cmdbuf' = Put(s)
        /\ cmdlen' = Len(s) /\ offset' = Len(s) /\ hnum' = n
        /\ replace_input(srow, prompt, Erased(0), Len(s))
        /\ row' = OnScreen(LastRow(srow', Len(s)))
        /\ UNCHANGED history

Up == hnum + 1 < HistorySize /\ hnum + 1 < Len(history) /\ Recall(hnum + 1)
Down == hnum >= 0 /\ Recall(hnum - 1)

\* kl_strins() at offset, what does not fit being lost.
Inserted(s) ==
    LET all == Text(cmdbuf, 0, offset) \o s \o Text(cmdbuf, offset, cmdlen)
    IN  IF Len(all) < Size THEN all ELSE SubSeq(all, 1, Size - 1)

\* Mutant: the cursor is behind what was to be inserted.
AfterAll(s) == offset + Len(s)

\* The cursor is behind what was inserted.
After(s) == Least({offset + Len(s), Len(Inserted(s))})

\* TAB with nothing to insert.
TabNone == Move(offset)

\* TAB with one completion ...
Tab(s) ==
    /\ s # <<>>
    /\ cmdbuf' = Put(Inserted(s))
    /\ Draws(row, Len(Inserted(s)), After(s))

\* ... and with several, of which s is common: they are listed, and there is a
\* new prompt on row r.
TabMany(s, r) ==
    /\ cmdbuf' = Put(Inserted(s))
    /\ cmdlen' = Len(Inserted(s)) /\ offset' = After(s)
    /\ replace_input(r, r, r, Len(Inserted(s)))
    /\ set_cursor(After(s))
    /\ UNCHANGED <<history, hnum>>

\* Mutant: blank lines are kept.
RememberedAll(s) == <<s>> \o history

\* A line of blanks is not kept.
Remembered(s) ==
    IF \A i \in DOMAIN s : s[i] = " " THEN history ELSE <<s>> \o history

\* The command is run; the next prompt is on row r.
Enter(r) ==
    LET kept == Remembered(Text(cmdbuf, 0, cmdlen))
    IN  /\ cmdlen <= MaxEntered
        /\ history' = IF Len(kept) <= HistorySize THEN kept ELSE Front(kept)
        /\ cmdbuf' = [i \in Index |-> NUL]
        /\ cmdlen' = 0 /\ offset' = 0 /\ hnum' = -1
        /\ srow' = r /\ prompt' = r /\ row' = r

LineNext ==
    \/ Left \/ Right \/ Home \/ End
    \/ Backspace
    \/ Delete
    \/ \E c \in Typed : Insert(c)
    \/ Up
    \/ Down
    \/ TabNone
    \/ \E s \in Completion : Tab(s)
    \/ \E s \in Completion, r \in 0 .. Rows - 1 : TabMany(s, r)
    \/ \E r \in 0 .. Rows - 1 : Enter(r)

LineSpec == LineInit /\ [][LineNext]_lvars

-----------------------------------------------------------------------------
(***************************************************************************)
(* Properties.                                                             *)
(***************************************************************************)
\* cmdlen is the length of the string in the buffer, the buffer has an end,
\* and the cursor is in the text: whatever a completion had to cut off, and
\* after the DEL that reads a byte behind the full buffer.
LineOK ==
    /\ cmdbuf \in [Index -> Byte]
    /\ strlen(cmdbuf) = cmdlen /\ cmdlen < Size
    /\ offset \in 0 .. cmdlen
    /\ hnum \in -1 .. Len(history) - 1 /\ Len(history) <= HistorySize

\* What is typed, taken back, completed and fetched from the history is what
\* the editor promises (Editor), byte by byte of the buffer.
E == INSTANCE Editor WITH
    left <- Text(cmdbuf, 0, offset), right <- Text(cmdbuf, offset, cmdlen)

EditorSpec == E!Spec

\* Who types at the end of the line, or takes back from there, sees the prompt
\* and the text where read_cmd() puts them, however the screen scrolls.  In
\* the middle of a line of several rows it is otherwise: the '\n' of
\* replace_input() then does not scroll, and srow is one row too low in number.
CursorFollows ==
    [][(/\ srow = prompt /\ offset = cmdlen
        /\ (\E c \in Typed : Insert(c)) \/ Backspace) =>
           (srow' = prompt' /\ RowOf(srow', cmdlen') < Rows)]_lvars
=============================================================================

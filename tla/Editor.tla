------------------------------- MODULE Editor -------------------------------
(***************************************************************************)
(* What the command line of the shell promises: text to the left and to    *)
(* the right of a cursor, and the lines that were entered before.          *)
(***************************************************************************)
EXTENDS Integers, Sequences, SequencesExt

CONSTANTS
    Typed,          \* the characters that can be typed, " " among them
    Completion,     \* what a completion may append
    Size,           \* CMDBUF_SIZE
    HistorySize     \* HISTORY_SIZE

VARIABLES
    left, right,
    history,        \* the last line comes first
    hnum            \* the line of history that was fetched, from 0; or -1

evars == <<left, right, history, hnum>>

UpTo(s, n) == IF Len(s) <= n THEN s ELSE SubSeq(s, 1, n)

Blank(s) == \A i \in DOMAIN s : s[i] = " "

Line == left \o right

EditorInit == left = <<>> /\ right = <<>> /\ history = <<>> /\ hnum = -1

\* Edits leave the history alone, and moves the text too.
Edit(l, r) == left' = l /\ right' = r /\ UNCHANGED <<history, hnum>>

Move(n) ==
    /\ n \in 0 .. Len(Line)
    /\ Edit(SubSeq(Line, 1, n), SubSeq(Line, n + 1, Len(Line)))

Type(c) == Len(Line) < Size - 2 /\ Edit(Append(left, c), right)

Backspace == left # <<>> /\ Edit(Front(left), right)

Delete == right # <<>> /\ Edit(left, Tail(right))

\* A completion that does not fit loses the end of the line.
Complete(s) ==
    LET all == UpTo(left \o s \o right, Size - 1)
        n == IF Len(left \o s) <= Len(all) THEN Len(left \o s) ELSE Len(all)
    IN  Edit(SubSeq(all, 1, n), SubSeq(all, n + 1, Len(all)))

Fetch(n) ==
    /\ n \in {hnum - 1, hnum + 1} /\ n \in -1 .. Len(history) - 1
    /\ hnum' = n
    /\ left' = IF n = -1 THEN <<>> ELSE history[n + 1]
    /\ right' = <<>>
    /\ UNCHANGED history

Enter ==
    /\ history' = IF Blank(Line) THEN history
                  ELSE UpTo(<<Line>> \o history, HistorySize)
    /\ left' = <<>> /\ right' = <<>> /\ hnum' = -1

EditorNext ==
    \/ \E n \in {Len(left) - 1, Len(left) + 1, 0, Len(Line)} : Move(n)
    \/ \E c \in Typed : Type(c)
    \/ Backspace
    \/ Delete
    \/ \E s \in Completion : Complete(s)
    \/ \E n \in {hnum - 1, hnum + 1} : Fetch(n)
    \/ Enter

Spec == EditorInit /\ [][EditorNext]_evars
=============================================================================

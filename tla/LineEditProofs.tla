--------------------------- MODULE LineEditProofs ---------------------------
(***************************************************************************)
(* The line of the shell, for a buffer of any size, any keys, any lines    *)
(* and any screen.                                                         *)
(***************************************************************************)
EXTENDS LineEdit, FiniteSetTheorems, SequenceTheorems, TLAPS

-----------------------------------------------------------------------------
(***************************************************************************)
(* The line (LineEdit).                                                    *)
(***************************************************************************)
\* b holds a text of n characters.
HoldsText(b, n) ==
    /\ b \in [Index -> Byte]
    /\ n \in Index
    /\ \A i \in 0 .. n - 1 : b[i] \in Typed
    /\ b[n] = NUL

\* Every line of the history fits into the buffer again.
Fitting == {s \in Seq(Typed) : Len(s) < Size}

HistoryFits ==
    /\ history \in Seq(Fitting) /\ Len(history) <= HistorySize
    /\ hnum \in -1 .. Len(history) - 1

LInv == HoldsText(cmdbuf, cmdlen) /\ offset \in 0 .. cmdlen /\ HistoryFits

LEMMA SizeIsNat ==
    Size \in Nat /\ Size > 2 /\ NUL \in Byte /\ Typed \subseteq Byte
<1>1. Size \in Nat /\ Size # 0 /\ Size # 1 /\ Size # 2
    BY EditorAssumption
<1>2. NUL \in Byte /\ Typed \subseteq Byte
    BY DEF Byte
<1> QED
    BY <1>1, <1>2

\* Least() of a set that has a least number.
LEMMA LeastIs ==
    ASSUME NEW S \in SUBSET Int, NEW n \in S, \A j \in S : n <= j
    PROVE  Least(S) = n
<1>1. Least(S) \in S /\ \A j \in S : Least(S) <= j
    BY DEF Least
<1>2. Least(S) \in Int /\ n \in Int /\ Least(S) <= n /\ n <= Least(S)
    BY <1>1
<1> QED
    BY <1>2

LEMMA StrlenIs ==
    ASSUME NEW b, NEW n, HoldsText(b, n)
    PROVE  strlen(b) = n
<1> DEFINE S == {i \in Index : b[i] = NUL} \cup {Size}
<1>1. S \in SUBSET Int /\ n \in S
    BY SizeIsNat DEF HoldsText, Index
<1>2. ASSUME NEW j \in S
      PROVE  n <= j
    <2>1. CASE j = Size
        BY <2>1, SizeIsNat DEF HoldsText, Index
    <2>2. CASE j \in Index /\ b[j] = NUL
        BY <2>2, SizeIsNat, ScreenAssumption DEF HoldsText, Index
    <2> QED
        BY <2>1, <2>2
<1> QED
    BY <1>1, <1>2, LeastIs DEF strlen

LEMMA TextTyped ==
    ASSUME LInv, NEW from \in Nat, NEW to \in Nat, from <= to, to <= cmdlen
    PROVE  Text(cmdbuf, from, to) \in Seq(Typed)
             /\ Len(Text(cmdbuf, from, to)) = to - from
<1>1. \A i \in 1 .. to - from : cmdbuf[from + i - 1] \in Typed
    BY SizeIsNat DEF LInv, HoldsText, Index
<1> QED
    BY <1>1 DEF Text

LEMMA PutHolds ==
    ASSUME LInv, NEW s \in Seq(Typed), Len(s) < Size
    PROVE  HoldsText(Put(s), Len(s))
<1>1. Len(s) \in Index /\ Len(s) \in Nat
    BY SizeIsNat DEF Index
<1>2. \A i \in Index : i < Len(s) => s[i + 1] \in Typed
    BY SizeIsNat DEF Index
<1>3. \A i \in Index :
        Put(s)[i] = IF i < Len(s) THEN s[i + 1]
                    ELSE IF i = Len(s) THEN NUL ELSE cmdbuf[i]
    BY DEF Put
<1>4. Put(s) \in [Index -> Byte]
    BY <1>2, SizeIsNat DEF Put, LInv, HoldsText
<1> QED
    BY <1>1, <1>2, <1>3, <1>4, SizeIsNat DEF HoldsText, Index

LEMMA InsertedFits ==
    ASSUME LInv, NEW s \in Completion
    PROVE  /\ Inserted(s) \in Seq(Typed) /\ Len(Inserted(s)) < Size
           /\ After(s) \in 0 .. Len(Inserted(s))
<1> DEFINE all == Text(cmdbuf, 0, offset) \o s \o Text(cmdbuf, offset, cmdlen)
<1>1. s \in Seq(Typed)
    BY EditorAssumption
<1>2. cmdlen \in Nat /\ offset \in Nat /\ offset <= cmdlen
    BY SizeIsNat DEF LInv, HoldsText, Index
<1>3. all \in Seq(Typed)
    BY <1>1, <1>2, TextTyped
<1>4. Inserted(s) \in Seq(Typed) /\ Len(Inserted(s)) < Size
    <2>1. CASE Len(all) < Size
        BY <1>3, <2>1 DEF Inserted
    <2>2. CASE ~(Len(all) < Size)
        BY <1>3, <2>2, SizeIsNat DEF Inserted
    <2> QED
        BY <2>1, <2>2
<1>5. After(s) \in 0 .. Len(Inserted(s))
    <2> DEFINE a == offset + Len(s)
               b == Len(Inserted(s))
    <2>1. a \in Nat /\ b \in Nat
        BY <1>1, <1>2, <1>4
    <2>2. CASE a <= b
        <3>1. Least({a, b}) = a
            <4>1. {a, b} \in SUBSET Int /\ a \in {a, b}
                BY <2>1
            <4>2. \A j \in {a, b} : a <= j
                BY <2>1, <2>2
            <4> HIDE DEF a, b
            <4> QED
                BY <4>1, <4>2, LeastIs
        <3> QED
            BY <2>1, <2>2, <3>1 DEF After
    <2>3. CASE b <= a
        <3>1. Least({a, b}) = b
            <4>1. {a, b} \in SUBSET Int /\ b \in {a, b}
                BY <2>1
            <4>2. \A j \in {a, b} : b <= j
                BY <2>1, <2>3
            <4> HIDE DEF a, b
            <4> QED
                BY <4>1, <4>2, LeastIs
        <3> QED
            BY <2>1, <2>3, <3>1 DEF After
    <2> QED
        BY <2>1, <2>2, <2>3
<1> QED
    BY <1>4, <1>5

LEMMA LInvKept ==
    ASSUME LInv, [LineNext]_lvars
    PROVE  LInv'
<1>0. /\ cmdlen \in Nat /\ offset \in Nat /\ offset <= cmdlen /\ cmdlen < Size
      /\ cmdbuf \in [Index -> Byte] /\ Index \subseteq Nat
    BY SizeIsNat DEF LInv, HoldsText, Index
<1>cells. /\ \A i \in Nat : i < cmdlen => cmdbuf[i] \in Typed
      /\ cmdbuf[cmdlen] = NUL
    BY <1>0 DEF LInv, HoldsText
<1>index. \A i \in Nat : i < Size => i \in Index
    BY SizeIsNat DEF Index
<1>holds. ASSUME NEW n \in Nat, n < Size, cmdbuf' \in [Index -> Byte],
             \A i \in Nat : i < n => cmdbuf'[i] \in Typed, cmdbuf'[n] = NUL
      PROVE  HoldsText(cmdbuf', n)
    BY <1>index, <1>holds, SizeIsNat DEF HoldsText
<1>1. ASSUME NEW o \in 0 .. cmdlen, Move(o)
      PROVE  LInv'
    BY <1>1 DEF Move, LInv, HoldsText, HistoryFits
<1>2. CASE Left \/ Right \/ Home \/ End \/ TabNone
    BY <1>0, <1>1, <1>2 DEF Left, Right, Home, End, TabNone
<1>3. ASSUME NEW n, HoldsText(cmdbuf', n), NEW o \in 0 .. n, NEW cur,
             Draws(cur, n, o)
      PROVE  LInv'
    BY <1>3 DEF Draws, LInv, HistoryFits
<1>4. CASE Backspace
    <2>1. \A i \in Index :
            cmdbuf'[i] = IF i \in offset - 1 .. cmdlen - 1
                           THEN cmdbuf[i + 1] ELSE cmdbuf[i]
        BY <1>0, <1>4, SizeIsNat DEF Backspace, Moved, Index
    <2>2. cmdbuf' \in [Index -> Byte]
        BY <1>0, <1>4, SizeIsNat DEF Backspace, Moved, Index
    <2>3. HoldsText(cmdbuf', cmdlen - 1)
        <3>1. cmdlen - 1 \in Nat /\ cmdlen - 1 < Size /\ offset > 0
            BY <1>0, <1>4, SizeIsNat DEF Backspace
        <3>2. ASSUME NEW i \in Nat, i < cmdlen - 1
              PROVE  cmdbuf'[i] \in Typed
            BY <1>0, <1>cells, <1>index, <2>1, <3>1, <3>2, SizeIsNat
        <3>3. cmdbuf'[cmdlen - 1] = NUL
            BY <1>0, <1>cells, <1>index, <2>1, <3>1, SizeIsNat
        <3> QED
            BY <1>holds, <2>2, <3>1, <3>2, <3>3
    <2> QED
        BY <1>0, <1>3, <1>4, <2>3 DEF Backspace
<1>5. CASE Delete
    <2>1. PICK over \in Byte :
            cmdbuf' = Moved(offset, offset + 1, cmdlen - offset + 1, over)
        BY <1>5 DEF Delete
    <2>2. \A i \in Index :
            cmdbuf'[i] = IF i \in offset .. cmdlen
                           THEN IF i + 1 \in Index THEN cmdbuf[i + 1] ELSE over
                           ELSE cmdbuf[i]
        BY <1>0, <2>1, SizeIsNat DEF Moved, Index
    <2>3. cmdbuf' \in [Index -> Byte]
        BY <1>0, <2>1, SizeIsNat DEF Moved, Index
    <2>4. HoldsText(cmdbuf', cmdlen - 1)
        <3>1. cmdlen - 1 \in Nat /\ cmdlen - 1 < Size /\ offset < cmdlen
            BY <1>0, <1>5, SizeIsNat DEF Delete
        <3>2. ASSUME NEW i \in Nat, i < cmdlen - 1
              PROVE  cmdbuf'[i] \in Typed
            BY <1>0, <1>cells, <1>index, <2>2, <3>1, <3>2, SizeIsNat
        <3>3. cmdbuf'[cmdlen - 1] = NUL
            BY <1>0, <1>cells, <1>index, <2>2, <3>1, SizeIsNat
        <3> QED
            BY <1>holds, <2>3, <3>1, <3>2, <3>3
    <2> QED
        BY <1>0, <1>3, <1>5, <2>4 DEF Delete
<1>6. ASSUME NEW c \in Typed, Insert(c)
      PROVE  LInv'
    <2>1. \A i \in Index :
            cmdbuf'[i] = IF i = cmdlen + 1 THEN NUL
                         ELSE IF i = offset THEN c
                         ELSE IF i \in offset + 1 .. cmdlen THEN cmdbuf[i - 1]
                         ELSE cmdbuf[i]
        <3> DEFINE m == Moved(offset + 1, offset, cmdlen - offset, NUL)
        <3>1. cmdbuf' = [m EXCEPT ![offset] = c, ![cmdlen + 1] = NUL]
            BY <1>6 DEF Insert
        <3>2. m \in [Index -> Byte]
            BY <1>0, SizeIsNat DEF Moved, Index
        <3>3. \A i \in Index : m[i] = IF i \in offset + 1 .. cmdlen
                                      THEN cmdbuf[i - 1] ELSE cmdbuf[i]
            BY <1>0, SizeIsNat DEF Moved, Index
        <3>4. offset \in Index /\ cmdlen + 1 \in Index /\ offset # cmdlen + 1
            BY <1>0, <1>6, SizeIsNat DEF Insert, Index
        <3> HIDE DEF m
        <3> QED
            BY <3>1, <3>2, <3>3, <3>4, <1>0
    <2>2. cmdbuf' \in [Index -> Byte]
        BY <1>0, <1>6, SizeIsNat DEF Insert, Moved, Index
    <2>3. HoldsText(cmdbuf', cmdlen + 1)
        <3>1. cmdlen + 1 \in Nat /\ cmdlen + 1 < Size
            BY <1>0, <1>6, SizeIsNat DEF Insert
        <3>2. ASSUME NEW i \in Nat, i < cmdlen + 1
              PROVE  cmdbuf'[i] \in Typed
            BY <1>0, <1>cells, <1>index, <2>1, <3>1, <3>2, SizeIsNat
        <3>3. cmdbuf'[cmdlen + 1] = NUL
            BY <1>index, <2>1, <3>1
        <3> QED
            BY <1>holds, <2>2, <3>1, <3>2, <3>3
    <2> QED
        BY <1>0, <1>3, <1>6, <2>3 DEF Insert
<1>7. ASSUME NEW n \in -1 .. Len(history) - 1, Recall(n)
      PROVE  LInv'
    <2> DEFINE s == IF n = -1 THEN <<>> ELSE history[n + 1]
    <2>1. s \in Seq(Typed) /\ Len(s) < Size
        <3>1. CASE n = -1
            BY <3>1, SizeIsNat
        <3>2. CASE n # -1
            BY <3>2 DEF LInv, HistoryFits, Fitting
        <3> QED
            BY <3>1, <3>2
    <2>2. HoldsText(cmdbuf', Len(s))
        BY <1>7, <2>1, PutHolds DEF Recall
    <2> QED
        BY <1>7, <2>1, <2>2 DEF Recall, LInv, HistoryFits
<1>8. CASE Up \/ Down
    BY <1>7, <1>8 DEF Up, Down, LInv, HistoryFits
<1>9. ASSUME NEW s \in Completion, Tab(s)
      PROVE  LInv'
    <2>1. HoldsText(cmdbuf', Len(Inserted(s)))
        BY <1>9, InsertedFits, PutHolds DEF Tab
    <2> QED
        BY <1>3, <1>9, <2>1, InsertedFits DEF Tab
<1>10. ASSUME NEW s \in Completion, NEW r, TabMany(s, r)
       PROVE  LInv'
    <2>1. HoldsText(cmdbuf', Len(Inserted(s)))
        BY <1>10, InsertedFits, PutHolds DEF TabMany
    <2> QED
        BY <1>10, <2>1, InsertedFits DEF TabMany, LInv, HistoryFits
<1>11. ASSUME NEW r, Enter(r)
       PROVE  LInv'
    <2> DEFINE line == Text(cmdbuf, 0, cmdlen)
               kept == Remembered(line)
    <2>1. line \in Fitting
        BY <1>0, TextTyped DEF Fitting
    <2> HIDE DEF line
    <2>2. kept \in Seq(Fitting) /\ Len(kept) <= HistorySize + 1
        <3>1. kept = history \/ kept = <<line>> \o history
            BY DEF Remembered
        <3>2. /\ history \in Seq(Fitting) /\ Len(history) <= HistorySize
              /\ HistorySize \in Nat
            BY EditorAssumption DEF LInv, HistoryFits
        <3>3. <<line>> \in Seq(Fitting) /\ Len(<<line>>) = 1
            BY <2>1
        <3>4. /\ <<line>> \o history \in Seq(Fitting)
              /\ Len(<<line>> \o history) = Len(history) + 1
            BY <3>2, <3>3
        <3>5. CASE kept = history
            BY <3>2, <3>5
        <3>6. CASE kept = <<line>> \o history
            BY <3>2, <3>4, <3>6
        <3> QED
            BY <3>1, <3>5, <3>6
    <2> HIDE DEF kept
    <2>3. history' \in Seq(Fitting) /\ Len(history') <= HistorySize
        <3>1. history' = IF Len(kept) <= HistorySize
                           THEN kept ELSE SubSeq(kept, 1, Len(kept) - 1)
            BY <1>11 DEF Enter, Front, kept, line
        <3>2. HistorySize \in Nat \ {0}
            BY EditorAssumption
        <3>3. CASE Len(kept) <= HistorySize
            BY <2>2, <3>1, <3>3
        <3>4. CASE ~(Len(kept) <= HistorySize)
            <4>1. Len(kept) \in Nat /\ Len(kept) = HistorySize + 1
                BY <2>2, <3>2, <3>4
            <4>2. /\ SubSeq(kept, 1, Len(kept) - 1) \in Seq(Fitting)
                  /\ Len(SubSeq(kept, 1, Len(kept) - 1)) = Len(kept) - 1
                BY <2>2, <3>2, <4>1
            <4> QED
                BY <3>1, <3>2, <3>4, <4>1, <4>2
        <3> QED
            BY <3>3, <3>4
    <2>4. HoldsText(cmdbuf', 0)
        BY <1>11, SizeIsNat DEF Enter, HoldsText, Index
    <2> QED
        BY <1>11, <2>3, <2>4 DEF Enter, LInv, HistoryFits
<1>12. CASE UNCHANGED lvars
    BY <1>12 DEF lvars, LInv, HoldsText, HistoryFits
<1> QED
    BY <1>2, <1>4, <1>5, <1>6, <1>8, <1>9, <1>10, <1>11, <1>12 DEF LineNext

LEMMA LInvHolds == LineSpec => []LInv
<1>1. LineInit => LInv
    <2> SUFFICES ASSUME LineInit PROVE LInv
        OBVIOUS
    <2>1. HoldsText(cmdbuf, 0)
        BY SizeIsNat DEF LineInit, HoldsText, Index
    <2>2. HistoryFits
        <3>1. history = <<>> /\ hnum = -1 /\ HistorySize \in Nat
            BY EditorAssumption DEF LineInit
        <3>2. history \in Seq(Fitting) /\ Len(history) = 0
            BY <3>1
        <3> QED
            BY <3>1, <3>2 DEF HistoryFits
    <2> QED
        BY <2>1, <2>2 DEF LineInit, LInv
<1> QED
    BY <1>1, LInvKept, PTL DEF LineSpec

\* The buffer of the command line always holds a string with an end, cmdlen is
\* its length, and the cursor is in it: for a buffer and a history of any size,
\* any completions and any screen.
THEOREM LineStaysInBuffer == LineSpec => []LineOK
<1>1. LInv => LineOK
    <2> SUFFICES ASSUME LInv PROVE LineOK
        OBVIOUS
    <2>1. strlen(cmdbuf) = cmdlen
        BY StrlenIs DEF LInv
    <2> QED
        BY <2>1, SizeIsNat DEF LInv, LineOK, HoldsText, HistoryFits, Index
<1> QED
    BY <1>1, LInvHolds, PTL

-----------------------------------------------------------------------------
(***************************************************************************)
(* The rows of the screen.                                                 *)
(***************************************************************************)
\* The text ends on the screen, and a cursor behind it is on the row of its end
\* or, after a line of the history that fills its last row, on that row.
ScreenOK ==
    /\ srow \in Int /\ prompt \in Int /\ row \in 0 .. Rows - 1
    /\ RowOf(srow, cmdlen) < Rows
    /\ offset = cmdlen =>
         \/ row = OnScreen(RowOf(srow, cmdlen))
         \/ row = OnScreen(LastRow(srow, cmdlen))

LEMMA SizesAreNat ==
    /\ Rows \in Nat /\ Rows > 0 /\ Cols \in Nat /\ Cols > 1
    /\ Scol \in Nat /\ Scol < Cols
    BY ScreenAssumption

\* The next character is on the same row or on the next one; on the same one
\* if the row has just begun.
LEMMA RowOfNext ==
    ASSUME NEW r \in Int, NEW o \in Nat
    PROVE  /\ RowOf(r, o) \in Int /\ RowOf(r, o + 1) \in Int
           /\ RowOf(r, o + 1) \in {RowOf(r, o), RowOf(r, o) + 1}
           /\ (Scol + o) % Cols = 0 => RowOf(r, o + 1) = RowOf(r, o)
           /\ RowOf(r, 0) = r
           /\ \A k \in Int : RowOf(r - k, o) = RowOf(r, o) - k
<1> DEFINE a == Scol + o
           q == a \div Cols
<1>1. a \in Nat /\ Cols \in Nat \ {0, 1} /\ Scol + (o + 1) = a + 1
    BY SizesAreNat
<1> HIDE DEF a
<1>2. q \in Int /\ (a + 1) \div Cols \in {q, q + 1}
    BY <1>1
<1>3. a % Cols = 0 => (a + 1) \div Cols = q
    BY <1>1
<1>4. (Scol + 0) \div Cols = 0
    BY SizesAreNat
<1>5. RowOf(r, o) = r + q /\ RowOf(r, o + 1) = r + (a + 1) \div Cols
    BY <1>1 DEF RowOf, a
<1>6. RowOf(r, 0) = r
    BY <1>4 DEF RowOf
<1>7. \A k \in Int : RowOf(r - k, o) = r - k + q
    BY DEF RowOf, a
<1> HIDE DEF q
<1>8. (a + 1) \div Cols \in Int
    BY <1>2
<1> QED
    BY <1>2, <1>3, <1>5, <1>6, <1>7, <1>8 DEF a

LEMMA OnScreenIs ==
    ASSUME NEW r \in Int
    PROVE  /\ OnScreen(r) \in 0 .. Rows - 1
           /\ r \in 0 .. Rows - 1 => OnScreen(r) = r
    BY SizesAreNat DEF OnScreen

LEMMA LastRowIs ==
    ASSUME NEW r \in Int, NEW n \in Nat
    PROVE  /\ LastRow(r, n) \in Int
           /\ \/ LastRow(r, n) = RowOf(r, n)
              \/ (Scol + n) % Cols = 0
    BY RowOfNext DEF LastRow

\* However much replace_input() scrolls, the text ends on the screen.
LEMMA ReplaceFits ==
    ASSUME NEW r \in Int, NEW p \in Int, NEW cur \in Int, NEW n \in Nat,
           replace_input(r, p, cur, n)
    PROVE  srow' \in Int /\ prompt' \in Int /\ RowOf(srow', n) < Rows
<1>1. PICK lines \in Nat :
        /\ lines = AtLeast0(RowOf(r, n) + 1 - Rows)
        /\ RowOf(r, n) - lines < Rows
    <2>1. RowOf(r, n) \in Int
        BY RowOfNext
    <2> QED
        BY <2>1, SizesAreNat DEF AtLeast0
<1>2. /\ srow' = r - lines
      /\ prompt' = p - AtLeast0(cur + lines - (Rows - 1))
    BY <1>1 DEF replace_input
<1>3. RowOf(srow', n) = RowOf(r, n) - lines
    BY <1>2, RowOfNext
<1> QED
    BY <1>1, <1>2, <1>3, SizesAreNat DEF AtLeast0

\* Nothing scrolls for a text that ends on the screen.
LEMMA ReplaceStays ==
    ASSUME NEW r \in Int, NEW p \in Int, NEW cur \in 0 .. Rows - 1,
           NEW n \in Nat, RowOf(r, n) < Rows, replace_input(r, p, cur, n)
    PROVE  srow' = r /\ prompt' = p
<1>1. RowOf(r, n) \in Int
    BY RowOfNext
<1>2. AtLeast0(RowOf(r, n) + 1 - Rows) = 0
    BY <1>1, SizesAreNat DEF AtLeast0
<1>3. AtLeast0(cur + 0 - (Rows - 1)) = 0
    BY SizesAreNat DEF AtLeast0
<1> QED
    BY <1>2, <1>3 DEF replace_input

\* With a character behind the text it scrolls by as many rows as it takes srow
\* back.
LEMMA ReplaceAtEnd ==
    ASSUME ScreenOK, cmdlen \in Nat, offset = cmdlen, srow = prompt,
           replace_input(srow, prompt, row, cmdlen + 1)
    PROVE  srow' = prompt'
<1> DEFINE end == RowOf(srow, cmdlen)
           next == RowOf(srow, cmdlen + 1)
<1>1. /\ end \in Int /\ next \in Int /\ end < Rows
      /\ next \in {end, end + 1}
      /\ (Scol + cmdlen) % Cols = 0 => next = end
    BY RowOfNext DEF ScreenOK
<1>2. srow \in Int /\ row \in 0 .. Rows - 1
    BY DEF ScreenOK
<1>3. CASE next < Rows
    BY <1>2, <1>3, ReplaceStays DEF ScreenOK
<1>4. CASE ~(next < Rows)
    <2>1. next = Rows /\ end = Rows - 1
        BY <1>1, <1>4, SizesAreNat
    <2>2. LastRow(srow, cmdlen) = end
        BY <1>1, <1>2, <2>1, LastRowIs, SizesAreNat
    <2>3. row = Rows - 1
        <3>1. row = OnScreen(end)
            BY <2>2 DEF ScreenOK
        <3>2. end \in 0 .. Rows - 1
            BY <2>1, SizesAreNat
        <3> QED
            BY <2>1, <3>1, <3>2, OnScreenIs
    <2>4. AtLeast0(next + 1 - Rows) = 1
        BY <2>1, SizesAreNat DEF AtLeast0
    <2>5. AtLeast0(row + 1 - (Rows - 1)) = 1
        BY <2>3, SizesAreNat DEF AtLeast0
    <2> QED
        BY <2>4, <2>5 DEF replace_input
<1> QED
    BY <1>3, <1>4

LEMMA ScreenInit == LineInit => ScreenOK
<1> SUFFICES ASSUME LineInit PROVE ScreenOK
    OBVIOUS
<1>1. /\ srow \in 0 .. Rows - 1 /\ prompt \in 0 .. Rows - 1 /\ row = srow
      /\ cmdlen = 0 /\ offset = 0
    BY DEF LineInit
<1>2. RowOf(srow, 0) = srow /\ srow \in Int /\ prompt \in Int
    BY <1>1, RowOfNext
<1>3. OnScreen(srow) = srow
    BY <1>1, <1>2, OnScreenIs
<1> QED
    BY <1>1, <1>2, <1>3, SizesAreNat DEF ScreenOK

LEMMA ScreenStep ==
    ASSUME ScreenOK, LInv, [LineNext]_lvars
    PROVE  ScreenOK'
<1>0. /\ cmdlen \in Nat /\ offset \in Nat /\ offset <= cmdlen
      /\ srow \in Int /\ prompt \in Int /\ row \in Int
    BY SizeIsNat, SizesAreNat DEF LInv, HoldsText, Index, ScreenOK
<1>1. ASSUME NEW o \in Nat, Move(o)
      PROVE  ScreenOK'
    <2>1. RowOf(srow, o) \in Int
        BY <1>0, RowOfNext
    <2>2. row' \in 0 .. Rows - 1
        BY <1>1, <2>1, OnScreenIs DEF Move
    <2> QED
        BY <1>1, <2>2 DEF Move, ScreenOK, RowOf
<1>2. CASE Left \/ Right \/ Home \/ End \/ TabNone
    BY <1>0, <1>1, <1>2 DEF Left, Right, Home, End, TabNone
<1>3. ASSUME NEW r \in Int, NEW p \in Int, NEW cur \in Int, NEW n \in Nat,
             NEW o \in Nat, replace_input(r, p, cur, n), cmdlen' = n,
             offset' = o, set_cursor(o)
      PROVE  ScreenOK'
    <2>1. srow' \in Int /\ prompt' \in Int /\ RowOf(srow', n) < Rows
        BY <1>3, ReplaceFits
    <2>2. RowOf(srow', o) \in Int
        BY <2>1, RowOfNext
    <2>3. row' = OnScreen(RowOf(srow', o)) /\ row' \in 0 .. Rows - 1
        BY <1>3, <2>2, OnScreenIs DEF set_cursor
    <2> QED
        BY <1>3, <2>1, <2>3 DEF ScreenOK, RowOf
<1>4. ASSUME NEW o \in Nat PROVE Erased(o) \in 0 .. Rows - 1
    BY <1>0, RowOfNext, OnScreenIs DEF Erased
<1>5. ASSUME NEW n \in Nat, NEW o \in Nat, NEW cur \in Int, Draws(cur, n, o)
      PROVE  ScreenOK'
    BY <1>0, <1>3, <1>5 DEF Draws
<1>6. CASE Backspace
    BY <1>0, <1>4, <1>5, <1>6, SizesAreNat DEF Backspace
<1>7. CASE Delete
    BY <1>0, <1>4, <1>5, <1>7, SizesAreNat DEF Delete
<1>8. CASE \E c \in Typed : Insert(c)
    BY <1>0, <1>5, <1>8 DEF Insert
<1>9. ASSUME NEW n \in -1 .. Len(history) - 1, Recall(n)
      PROVE  ScreenOK'
    <2> DEFINE s == IF n = -1 THEN <<>> ELSE history[n + 1]
    <2>1. Len(s) \in Nat
        <3>1. CASE n = -1
            BY <3>1
        <3>2. CASE n # -1
            BY <3>2 DEF LInv, HistoryFits, Fitting
        <3> QED
            BY <3>1, <3>2
    <2>2. PICK k \in Nat : k = Len(s)
        BY <2>1
    <2>3. /\ cmdlen' = k /\ offset' = k
          /\ replace_input(srow, prompt, Erased(0), k)
          /\ row' = OnScreen(LastRow(srow', k))
        BY <1>9, <2>2 DEF Recall
    <2>4. Erased(0) \in Int
        BY <1>4, SizesAreNat
    <2>5. srow' \in Int /\ prompt' \in Int /\ RowOf(srow', k) < Rows
        BY <1>0, <2>3, <2>4, ReplaceFits
    <2>6. row' \in 0 .. Rows - 1
        BY <2>3, <2>5, LastRowIs, OnScreenIs
    <2> QED
        BY <2>3, <2>5, <2>6 DEF ScreenOK, RowOf, LastRow
<1>10. CASE Up \/ Down
    BY <1>9, <1>10 DEF Up, Down, LInv, HistoryFits
<1>11. ASSUME NEW s \in Completion,
              Tab(s) \/ \E r \in 0 .. Rows - 1 : TabMany(s, r)
       PROVE  ScreenOK'
    <2>1. PICK n \in Nat, o \in Nat : n = Len(Inserted(s)) /\ o = After(s)
        BY InsertedFits
    <2>2. CASE Tab(s)
        BY <1>0, <1>5, <2>1, <2>2 DEF Tab
    <2>3. CASE \E r \in 0 .. Rows - 1 : TabMany(s, r)
        <3>1. PICK r \in Int : TabMany(s, r)
            BY <2>3, SizesAreNat
        <3> QED
            BY <1>3, <2>1, <3>1 DEF TabMany
    <2> QED
        BY <1>11, <2>2, <2>3
<1>12. CASE \E r \in 0 .. Rows - 1 : Enter(r)
    <2>1. PICK r \in 0 .. Rows - 1 : Enter(r)
        BY <1>12
    <2>2. cmdlen' = 0 /\ offset' = 0 /\ srow' = r /\ prompt' = r /\ row' = r
        BY <2>1 DEF Enter
    <2>3. r \in Int /\ r < Rows
        BY SizesAreNat
    <2>4. RowOf(r, 0) = r /\ OnScreen(r) = r
        BY <2>3, RowOfNext, OnScreenIs
    <2> QED
        BY <2>2, <2>3, <2>4 DEF ScreenOK, RowOf
<1>13. CASE UNCHANGED lvars
    BY <1>13 DEF lvars, screen, ScreenOK, RowOf, LastRow
<1> QED
    BY <1>2, <1>6, <1>7, <1>8, <1>10, <1>11, <1>12, <1>13 DEF LineNext

LEMMA ScreenHolds == LineSpec => [](ScreenOK /\ LInv)
    BY ScreenInit, ScreenStep, LInvHolds, PTL DEF LineSpec

\* Who types or takes back at the end of a line sees the prompt and the text
\* where read_cmd() puts them: for a screen of any size, after any history and
\* any keys.
THEOREM PromptFollows == LineSpec => CursorFollows
<1>1. ASSUME ScreenOK, LInv, srow = prompt, offset = cmdlen,
             (\E c \in Typed : Insert(c)) \/ Backspace
      PROVE  srow' = prompt' /\ RowOf(srow', cmdlen') < Rows
    <2>0. /\ cmdlen \in Nat /\ srow \in Int /\ prompt \in Int
          /\ row \in Int
        BY <1>1, SizeIsNat, SizesAreNat DEF LInv, HoldsText, Index, ScreenOK
    <2>1. CASE \E c \in Typed : Insert(c)
        <3>1. /\ replace_input(srow, prompt, row, cmdlen + 1)
              /\ cmdlen' = cmdlen + 1
            BY <2>1 DEF Insert, Draws
        <3>2. cmdlen + 1 \in Nat
            BY <2>0
        <3>3. RowOf(srow', cmdlen + 1) < Rows
            BY <2>0, <3>1, <3>2, ReplaceFits
        <3>4. srow' = prompt'
            BY <1>1, <2>0, <3>1, ReplaceAtEnd
        <3> QED
            BY <3>1, <3>3, <3>4
    <2>2. CASE Backspace
        <3>1. PICK n \in Nat : n + 1 = cmdlen
            <4>1. cmdlen > 0
                BY <1>1, <2>2 DEF Backspace
            <4>2. cmdlen - 1 \in Nat /\ cmdlen - 1 + 1 = cmdlen
                BY <2>0, <4>1
            <4> QED
                BY <4>2
        <3>2. /\ replace_input(srow, prompt, Erased(n), n)
              /\ cmdlen' = n
            <4>1. cmdlen - 1 = n
                BY <2>0, <3>1
            <4> QED
                BY <1>1, <2>2, <4>1 DEF Backspace, Draws
        <3>3. Erased(n) \in 0 .. Rows - 1
            BY <2>0, RowOfNext, OnScreenIs DEF Erased
        <3>4. RowOf(srow, n) < Rows
            <4>1. /\ RowOf(srow, n) \in Int
                  /\ RowOf(srow, n + 1)
                       \in {RowOf(srow, n), RowOf(srow, n) + 1}
                BY <2>0, RowOfNext
            <4>2. RowOf(srow, n + 1) < Rows
                BY <1>1, <3>1 DEF ScreenOK
            <4> QED
                BY <4>1, <4>2, SizesAreNat
        <3>5. srow' = srow /\ prompt' = prompt
            BY <2>0, <3>2, <3>3, <3>4, ReplaceStays
        <3> QED
            BY <1>1, <3>2, <3>4, <3>5
    <2> QED
        BY <1>1, <2>1, <2>2
<1>2. ScreenOK /\ LInv =>
        [(/\ srow = prompt /\ offset = cmdlen
          /\ (\E c \in Typed : Insert(c)) \/ Backspace) =>
             (srow' = prompt' /\ RowOf(srow', cmdlen') < Rows)]_lvars
    BY <1>1
<1> QED
    BY <1>2, ScreenHolds, PTL DEF CursorFollows

-----------------------------------------------------------------------------
(***************************************************************************)
(* The line is that of the editor.                                         *)
(***************************************************************************)
\* The first n cells of a buffer b hold characters.
Cells(b, n) == \A i \in Nat : i < n => b[i] \in Typed

LEMMA CellsOf ==
    ASSUME NEW b, NEW n, HoldsText(b, n)
    PROVE  Cells(b, n) /\ n \in Nat /\ n < Size
BY SizeIsNat DEF Cells, HoldsText, Index

\* Texts of a buffer as sequences.
LEMMA TextIs ==
    ASSUME NEW b, NEW f \in Nat, NEW t \in Nat, f <= t, Cells(b, t)
    PROVE  /\ Text(b, f, t) \in Seq(Typed) /\ Len(Text(b, f, t)) = t - f
           /\ \A i \in 1 .. t - f : Text(b, f, t)[i] = b[f + i - 1]
<1>1. \A i \in 1 .. t - f : b[f + i - 1] \in Typed
    BY DEF Cells
<1> QED
    BY <1>1 DEF Text

LEMMA TextJoin ==
    ASSUME NEW b, NEW n \in Nat, Cells(b, n), NEW o \in Nat, o <= n
    PROVE  Text(b, 0, o) \o Text(b, o, n) = Text(b, 0, n)
<1> DEFINE s == Text(b, 0, o)
           u == Text(b, o, n)
           v == Text(b, 0, n)
<1>0. Cells(b, o) /\ 0 \in Nat /\ 0 <= o /\ 0 <= n
    BY DEF Cells
<1>1. /\ s \in Seq(Typed) /\ Len(s) = o
      /\ \A k \in 1 .. o : s[k] = b[k - 1]
    <2>1. s \in Seq(Typed) /\ Len(s) = o - 0
        BY <1>0, TextIs
    <2> QED
        BY <2>1 DEF Text
<1>2. /\ u \in Seq(Typed) /\ Len(u) = n - o
      /\ \A k \in 1 .. n - o : u[k] = b[o + k - 1]
    BY TextIs
<1>3. /\ v \in Seq(Typed) /\ Len(v) = n
      /\ \A k \in 1 .. n : v[k] = b[k - 1]
    <2>1. v \in Seq(Typed) /\ Len(v) = n - 0
        BY <1>0, TextIs
    <2> QED
        BY <2>1 DEF Text
<1> HIDE DEF s, u, v
<1> DEFINE w == s \o u
<1>4. /\ w \in Seq(Typed) /\ Len(w) = n
      /\ \A k \in 1 .. n : w[k] = IF k <= o THEN s[k] ELSE u[k - o]
    <2>1. Len(s) + Len(u) = n
        BY <1>1, <1>2
    <2>2. /\ w \in Seq(Typed) /\ Len(w) = Len(s) + Len(u)
          /\ \A k \in 1 .. Len(s) + Len(u) :
               w[k] = IF k <= Len(s) THEN s[k] ELSE u[k - Len(s)]
        BY <1>1, <1>2, ConcatProperties, Zenon
    <2> HIDE DEF w
    <2> QED
        BY <1>1, <2>1, <2>2
<1> HIDE DEF w
<1>5. ASSUME NEW k \in 1 .. n
      PROVE  w[k] = v[k]
    <2>1. CASE k <= o
        BY <1>1, <1>3, <1>4, <2>1
    <2>2. CASE ~(k <= o)
        <3>1. k - o \in 1 .. n - o /\ o + (k - o) - 1 = k - 1
            BY <2>2
        <3>2. u[k - o] = b[o + (k - o) - 1]
            BY <1>2, <3>1
        <3> QED
            BY <1>3, <1>4, <2>2, <3>1, <3>2
    <2> QED
        BY <2>1, <2>2
<1>6. w = v
    BY <1>3, <1>4, <1>5, SeqEqual
<1> QED
    BY <1>6 DEF s, u, v, w

\* A text is cut at o.
LEMMA TextParts ==
    ASSUME NEW b, NEW n \in Nat, Cells(b, n), NEW o \in Nat, o <= n
    PROVE  /\ SubSeq(Text(b, 0, n), 1, o) = Text(b, 0, o)
           /\ SubSeq(Text(b, 0, n), o + 1, n) = Text(b, o, n)
<1> DEFINE s == Text(b, 0, o)
           u == Text(b, o, n)
           v == Text(b, 0, n)
           x == SubSeq(v, 1, o)
           y == SubSeq(v, o + 1, n)
<1>0. Cells(b, o) /\ 0 \in Nat /\ 0 <= o /\ 0 <= n
    BY DEF Cells
<1>1. /\ s \in Seq(Typed) /\ Len(s) = o
      /\ \A k \in 1 .. o : s[k] = b[k - 1]
    <2>1. s \in Seq(Typed) /\ Len(s) = o - 0
        BY <1>0, TextIs
    <2> QED
        BY <2>1 DEF Text
<1>2. /\ u \in Seq(Typed) /\ Len(u) = n - o
      /\ \A k \in 1 .. n - o : u[k] = b[o + k - 1]
    BY TextIs
<1>3. /\ v \in Seq(Typed) /\ Len(v) = n
      /\ \A k \in 1 .. n : v[k] = b[k - 1]
    <2>1. v \in Seq(Typed) /\ Len(v) = n - 0
        BY <1>0, TextIs
    <2> QED
        BY <2>1 DEF Text
<1> HIDE DEF s, u, v
<1>4. (\A k \in 1 .. o : v[k] \in Typed)
        /\ \A k \in o + 1 .. n : v[k] \in Typed
    BY <1>3
<1>5. /\ x \in Seq(Typed) /\ Len(x) = o
      /\ \A k \in 1 .. o : x[k] = v[k]
    <2>1. /\ x \in Seq(Typed) /\ Len(x) = IF 1 <= o THEN o - 1 + 1 ELSE 0
          /\ \A k \in 1 .. o - 1 + 1 : x[k] = v[1 + k - 1]
        BY <1>4, SubSeqProperties
    <2> HIDE DEF x
    <2> QED
        BY <2>1
<1>6. /\ y \in Seq(Typed) /\ Len(y) = n - o
      /\ \A k \in 1 .. n - o : y[k] = v[o + k]
    <2>1. /\ y \in Seq(Typed)
          /\ Len(y) = IF o + 1 <= n THEN n - (o + 1) + 1 ELSE 0
          /\ \A k \in 1 .. n - (o + 1) + 1 : y[k] = v[o + 1 + k - 1]
        BY <1>4, SubSeqProperties
    <2> HIDE DEF y
    <2> QED
        BY <2>1
<1> HIDE DEF x, y
<1>7. \A k \in 1 .. o : x[k] = s[k]
    BY <1>1, <1>3, <1>5, SMTT(40)
<1>8. ASSUME NEW k \in 1 .. n - o
      PROVE  y[k] = u[k]
    <2>1. o + k \in 1 .. n /\ (o + k) - 1 = o + k - 1
        OBVIOUS
    <2> QED
        BY <1>2, <1>3, <1>6, <2>1
<1>9. x = s
    BY <1>1, <1>5, <1>7, SeqEqual
<1>10. y = u
    BY <1>2, <1>6, <1>8, SeqEqual
<1> QED
    BY <1>9, <1>10 DEF s, u, v, x, y

\* The first character of a text is taken off.
LEMMA TextTail ==
    ASSUME NEW b, NEW n \in Nat, Cells(b, n), NEW o \in Nat, o < n
    PROVE  Text(b, o, n) # <<>> /\ Tail(Text(b, o, n)) = Text(b, o + 1, n)
<1> SUFFICES ASSUME NEW p \in Nat, p = o + 1
             PROVE  /\ Text(b, o, n) # <<>>
                    /\ Tail(Text(b, o, n)) = Text(b, p, n)
    OBVIOUS
<1> DEFINE u == Text(b, o, n)
           v == Text(b, p, n)
           x == Tail(u)
<1>0. o <= n /\ p <= n /\ n - p = n - o - 1
    OBVIOUS
<1>1. /\ u \in Seq(Typed) /\ Len(u) = n - o
      /\ \A k \in 1 .. n - o : u[k] = b[o + k - 1]
    <2>1. \A k \in 1 .. n - o : b[o + k - 1] \in Typed
        BY DEF Cells
    <2> QED
        BY <1>0, <2>1 DEF Text
<1>2. /\ v \in Seq(Typed) /\ Len(v) = n - p
      /\ \A k \in 1 .. n - p : v[k] = b[p + k - 1]
    <2>1. \A k \in 1 .. n - p : b[p + k - 1] \in Typed
        BY <1>0 DEF Cells
    <2> QED
        BY <1>0, <2>1 DEF Text
<1> HIDE DEF u, v
<1>3. u # <<>>
    BY <1>1
<1>4. /\ x \in Seq(Typed) /\ Len(x) = Len(u) - 1
      /\ \A k \in 1 .. Len(x) : x[k] = u[k + 1]
    BY <1>1, <1>3, HeadTailProperties
<1> HIDE DEF x
<1>5. Len(x) = Len(v) /\ Len(x) = n - o - 1
    BY <1>0, <1>1, <1>2, <1>4
<1>6. ASSUME NEW k \in 1 .. Len(x)
      PROVE  x[k] = v[k]
    <2>1. /\ k + 1 \in 1 .. n - o /\ o + (k + 1) - 1 = p + k - 1
          /\ k \in 1 .. n - p
        BY <1>0, <1>5
    <2> QED
        BY <1>1, <1>2, <1>4, <2>1
<1>7. x = v
    BY <1>2, <1>4, <1>5, <1>6, SeqEqual
<1> QED
    BY <1>3, <1>7 DEF u, v, x

\* A line that was put into the buffer is the text of the buffer.
LEMMA PutText ==
    ASSUME LInv, NEW s \in Seq(Typed), Len(s) < Size,
           NEW o \in 0 .. Len(s)
    PROVE  /\ Text(Put(s), 0, o) = SubSeq(s, 1, o)
           /\ Text(Put(s), o, Len(s)) = SubSeq(s, o + 1, Len(s))
<1> DEFINE v == Text(Put(s), 0, Len(s))
<1>1. /\ Cells(Put(s), Len(s)) /\ Len(s) \in Nat /\ o \in Nat /\ o <= Len(s)
      /\ 0 \in Nat /\ 0 <= Len(s)
    BY PutHolds, CellsOf
<1>2. v \in Seq(Typed) /\ Len(v) = Len(s) - 0
    BY <1>1, TextIs, Zenon
<1>3. \A i \in 1 .. Len(s) : v[i] = Put(s)[i - 1] /\ Put(s)[i - 1] = s[i]
    BY SizeIsNat DEF Put, Index, Text
<1> HIDE DEF v
<1>4. v = s
    BY <1>2, <1>3, SeqEqual, SMTT(40)
<1> QED
    BY <1>1, <1>4, TextParts, ZenonT(60) DEF v

-----------------------------------------------------------------------------
L == Text(cmdbuf, 0, offset)
R == Text(cmdbuf, offset, cmdlen)

LEMMA Halves ==
    ASSUME LInv
    PROVE  /\ cmdlen \in Nat /\ offset \in Nat /\ offset <= cmdlen
           /\ cmdlen < Size /\ Cells(cmdbuf, cmdlen)
           /\ L \in Seq(Typed) /\ Len(L) = offset
           /\ R \in Seq(Typed) /\ Len(R) = cmdlen - offset
           /\ L \o R = Text(cmdbuf, 0, cmdlen)
           /\ L \o R \in Seq(Typed) /\ Len(L \o R) = cmdlen
<1>1. /\ cmdlen \in Nat /\ offset \in Nat /\ offset <= cmdlen
      /\ cmdlen < Size /\ Cells(cmdbuf, cmdlen)
    BY CellsOf DEF LInv
<1>2. Cells(cmdbuf, offset) /\ 0 \in Nat /\ 0 <= offset
    BY <1>1 DEF Cells
<1>3. L \in Seq(Typed) /\ Len(L) = offset - 0
    BY <1>1, <1>2, TextIs DEF L
<1>4. R \in Seq(Typed) /\ Len(R) = cmdlen - offset
    BY <1>1, TextIs DEF R
<1>5. L \o R = Text(cmdbuf, 0, cmdlen)
    BY <1>1, TextJoin DEF L, R
<1>6. L \o R \in Seq(Typed) /\ Len(L \o R) = Len(L) + Len(R)
    BY <1>3, <1>4, ConcatProperties
<1> QED
    BY <1>1, <1>3, <1>4, <1>5, <1>6

\* The line is cut at the cursor.
LEMMA CutAt ==
    ASSUME LInv, NEW o \in Nat, o <= cmdlen
    PROVE  /\ Text(cmdbuf, 0, o) = SubSeq(L \o R, 1, o)
           /\ Text(cmdbuf, o, cmdlen) = SubSeq(L \o R, o + 1, cmdlen)
<1>1. /\ cmdlen \in Nat /\ Cells(cmdbuf, cmdlen)
      /\ L \o R = Text(cmdbuf, 0, cmdlen)
    BY Halves
<1>2. /\ SubSeq(Text(cmdbuf, 0, cmdlen), 1, o) = Text(cmdbuf, 0, o)
      /\ SubSeq(Text(cmdbuf, 0, cmdlen), o + 1, cmdlen)
           = Text(cmdbuf, o, cmdlen)
    BY <1>1, TextParts, Zenon
<1> QED
    BY <1>1, <1>2, Zenon

LEMMA MoveImplements ==
    ASSUME LInv, NEW o \in {0, offset - 1, offset + 1, cmdlen},
           o \in 0 .. cmdlen, Move(o)
    PROVE  E!EditorNext
<1>1. L' = Text(cmdbuf, 0, o) /\ R' = Text(cmdbuf, o, cmdlen)
    BY DEF Move, L, R
<1>2. E!Edit(SubSeq(L \o R, 1, o), SubSeq(L \o R, o + 1, Len(L \o R)))
    <2>1. o \in Nat /\ o <= cmdlen /\ Len(L \o R) = cmdlen
        BY Halves
    <2>2. /\ L' = SubSeq(L \o R, 1, o)
          /\ R' = SubSeq(L \o R, o + 1, Len(L \o R))
        BY <1>1, <2>1, CutAt
    <2>3. UNCHANGED <<history, hnum>>
        BY DEF Move
    <2> QED
        BY <2>2, <2>3 DEF E!Edit, L, R
<1>3. E!Move(o)
    BY <1>2, Halves DEF E!Move, E!Line, L, R
<1> QED
    BY <1>3, Halves DEF E!EditorNext, E!Line, L, R

\* What is left of the cursor, and right of it, when the buffer holds the
\* bytes of b there.
LEMMA SameLeft ==
    ASSUME NEW b, NEW o \in Nat, \A i \in Nat : i < o => cmdbuf'[i] = b[i]
    PROVE  Text(cmdbuf', 0, o) = Text(b, 0, o)
BY DEF Text

LEMMA BackspaceImplements ==
    ASSUME LInv, Backspace
    PROVE  E!EditorNext
<1>1. /\ cmdlen \in Nat /\ offset \in Nat /\ 0 < offset /\ offset <= cmdlen
      /\ cmdlen < Size /\ Len(L) = offset /\ L \in Seq(Typed)
      /\ Cells(cmdbuf, cmdlen)
    BY Halves DEF Backspace
<1>2. /\ cmdlen' = cmdlen - 1 /\ offset' = offset - 1
      /\ UNCHANGED <<history, hnum>>
    BY DEF Backspace, Draws
<1>3. \A i \in Index :
        cmdbuf'[i] = IF i \in offset - 1 .. cmdlen - 1
                       THEN cmdbuf[i + 1] ELSE cmdbuf[i]
    BY <1>1, SizeIsNat DEF Backspace, Moved, Index
<1>4. L' = Front(L)
    <2>1. \A i \in Nat : i < offset - 1 => cmdbuf'[i] = cmdbuf[i]
        BY <1>1, <1>3, SizeIsNat DEF Index
    <2>2. L' = Text(cmdbuf, 0, offset - 1)
        BY <1>1, <1>2, <2>1, SameLeft DEF L
    <2>3. Cells(cmdbuf, offset) /\ offset - 1 \in Nat /\ offset - 1 <= offset
        BY <1>1 DEF Cells
    <2>4. SubSeq(Text(cmdbuf, 0, offset), 1, offset - 1)
            = Text(cmdbuf, 0, offset - 1)
        BY <1>1, <2>3, TextParts
    <2> QED
        BY <1>1, <2>2, <2>4 DEF L, Front
<1>5. R' = R
    <2>1. \A k \in 1 .. cmdlen - offset :
            cmdbuf'[(offset - 1) + k - 1] = cmdbuf[offset + k - 1]
        BY <1>1, <1>3, SizeIsNat DEF Index
    <2>2. (cmdlen - 1) - (offset - 1) = cmdlen - offset
        BY <1>1
    <2> QED
        BY <1>1, <1>2, <2>1, <2>2 DEF R, Text
<1>6. L # <<>>
    BY <1>1
<1>7. E!Backspace
    BY <1>2, <1>4, <1>5, <1>6 DEF E!Backspace, E!Edit, E!Front, Front, L, R
<1> QED
    BY <1>7 DEF E!EditorNext

LEMMA DeleteImplements ==
    ASSUME LInv, Delete
    PROVE  E!EditorNext
<1>1. /\ cmdlen \in Nat /\ offset \in Nat /\ offset < cmdlen
      /\ cmdlen < Size /\ Cells(cmdbuf, cmdlen)
    BY Halves DEF Delete
<1>2. /\ cmdlen' = cmdlen - 1 /\ offset' = offset
      /\ UNCHANGED <<history, hnum>>
    BY DEF Delete, Draws
<1>3. PICK over \in Byte :
        cmdbuf' = Moved(offset, offset + 1, cmdlen - offset + 1, over)
    BY DEF Delete
<1>4. \A i \in Index :
        /\ i < offset => cmdbuf'[i] = cmdbuf[i]
        /\ (offset <= i /\ i < cmdlen) => cmdbuf'[i] = cmdbuf[i + 1]
    BY <1>1, <1>3, SizeIsNat DEF Moved, Index
<1>5. L' = L
    <2>1. \A i \in Nat : i < offset => cmdbuf'[i] = cmdbuf[i]
        BY <1>1, <1>4, SizeIsNat DEF Index
    <2> QED
        BY <1>1, <1>2, <2>1, SameLeft DEF L
<1>6. R # <<>> /\ R' = Tail(R)
    <2>1. R # <<>> /\ Tail(R) = Text(cmdbuf, offset + 1, cmdlen)
        BY <1>1, TextTail DEF R
    <2>2. \A k \in 1 .. cmdlen - 1 - offset :
            cmdbuf'[offset + k - 1] = cmdbuf[(offset + 1) + k - 1]
        BY <1>1, <1>4, SizeIsNat DEF Index
    <2>3. cmdlen - (offset + 1) = cmdlen - 1 - offset
        BY <1>1
    <2>4. Text(cmdbuf', offset, cmdlen - 1)
            = Text(cmdbuf, offset + 1, cmdlen)
        BY <2>2, <2>3 DEF Text
    <2> QED
        BY <1>2, <2>1, <2>4 DEF R
<1>7. E!Delete
    BY <1>2, <1>5, <1>6 DEF E!Delete, E!Edit, L, R
<1> QED
    BY <1>7 DEF E!EditorNext

LEMMA InsertImplements ==
    ASSUME LInv, NEW c \in Typed, Insert(c)
    PROVE  E!EditorNext
<1>1. /\ cmdlen \in Nat /\ offset \in Nat /\ offset <= cmdlen
      /\ cmdlen + 2 < Size /\ cmdbuf \in [Index -> Byte]
      /\ L \in Seq(Typed) /\ Len(L) = offset /\ Len(L \o R) = cmdlen
    BY Halves DEF Insert, LInv, HoldsText
<1>2. /\ cmdlen' = cmdlen + 1 /\ offset' = offset + 1
      /\ UNCHANGED <<history, hnum>>
    BY DEF Insert, Draws
<1> DEFINE m == Moved(offset + 1, offset, cmdlen - offset, NUL)
<1>3. cmdbuf' = [m EXCEPT ![offset] = c, ![cmdlen + 1] = NUL]
    BY DEF Insert
<1>4. m \in [Index -> Byte]
    BY <1>1, SizeIsNat DEF Moved, Index
<1>5. \A i \in Index : m[i] = IF i \in offset + 1 .. cmdlen
                              THEN cmdbuf[i - 1] ELSE cmdbuf[i]
    BY <1>1, SizeIsNat DEF Moved, Index
<1> HIDE DEF m
<1>6. /\ \A i \in Index : i < offset => cmdbuf'[i] = cmdbuf[i]
      /\ cmdbuf'[offset] = c
      /\ \A i \in Index : (offset < i /\ i <= cmdlen) =>
                             cmdbuf'[i] = cmdbuf[i - 1]
    BY <1>1, <1>3, <1>4, <1>5, SizeIsNat DEF Index
<1>7. L' = Append(L, c)
    <2> DEFINE u == Text(cmdbuf', 0, offset + 1)
               v == Append(L, c)
    <2>1. /\ v \in Seq(Typed) /\ Len(v) = offset + 1
          /\ \A k \in 1 .. offset + 1 :
               v[k] = IF k = offset + 1 THEN c ELSE L[k]
        BY <1>1, AppendProperties
    <2>2. \A k \in 1 .. offset : L[k] = cmdbuf[k - 1]
        BY <1>1 DEF L, Text
    <2>3. \A k \in 1 .. offset + 1 :
            cmdbuf'[k - 1] = IF k = offset + 1 THEN c ELSE cmdbuf[k - 1]
        BY <1>1, <1>6, SizeIsNat DEF Index
    <2>4. u = [k \in 1 .. offset + 1 |-> cmdbuf'[k - 1]]
        BY <1>1 DEF Text
    <2> HIDE DEF v
    <2>5. \A k \in 1 .. offset + 1 : cmdbuf'[k - 1] = v[k]
        BY <1>1, <2>1, <2>2, <2>3
    <2> HIDE DEF u
    <2>6. u = [k \in 1 .. offset + 1 |-> v[k]]
        BY <2>4, <2>5
    <2>7. v = [k \in 1 .. offset + 1 |-> v[k]]
        BY <2>1
    <2>8. u = v
        BY <2>6, <2>7
    <2> QED
        BY <1>2, <2>8 DEF u, v, L
<1>8. R' = R
    <2>1. \A k \in 1 .. cmdlen - offset :
            cmdbuf'[(offset + 1) + k - 1] = cmdbuf[offset + k - 1]
        BY <1>1, <1>6, SizeIsNat DEF Index
    <2>2. (cmdlen + 1) - (offset + 1) = cmdlen - offset
        BY <1>1
    <2> QED
        BY <1>2, <2>1, <2>2 DEF R, Text
<1>9. Len(L \o R) < Size - 2
    BY <1>1, SizeIsNat
<1>10. E!Type(c)
    BY <1>2, <1>7, <1>8, <1>9 DEF E!Type, E!Edit, E!Line, L, R
<1> QED
    BY <1>10 DEF E!EditorNext

\* A completion is inserted at the cursor.
LEMMA CompleteImplements ==
    ASSUME LInv, NEW s \in Completion, cmdbuf' = Put(Inserted(s)),
           cmdlen' = Len(Inserted(s)), offset' = After(s),
           UNCHANGED <<history, hnum>>
    PROVE  E!EditorNext
<1> DEFINE all == L \o s \o R
           some == E!UpTo(all, Size - 1)
           n == IF Len(L \o s) <= Len(some) THEN Len(L \o s) ELSE Len(some)
<1>1. /\ s \in Seq(Typed) /\ L \in Seq(Typed) /\ R \in Seq(Typed)
      /\ Len(L) = offset /\ offset \in Nat
    BY Halves, EditorAssumption
<1>2. /\ L \o s \in Seq(Typed) /\ Len(L \o s) = offset + Len(s)
      /\ all \in Seq(Typed) /\ Len(s) \in Nat
    BY <1>1
<1>3. /\ Inserted(s) \in Seq(Typed) /\ Len(Inserted(s)) < Size
      /\ After(s) \in 0 .. Len(Inserted(s))
    BY InsertedFits
<1>4. some = Inserted(s)
    <2>1. Len(all) < Size <=> Len(all) <= Size - 1
        BY <1>2, SizeIsNat
    <2> QED
        BY <2>1 DEF E!UpTo, Inserted, L, R
<1>5. n = After(s)
    <2> DEFINE a == offset + Len(s)
               b == Len(Inserted(s))
    <2>1. a \in Int /\ b \in Int
        BY <1>1, <1>2, <1>3
    <2>2. After(s) = Least({a, b}) /\ n = IF a <= b THEN a ELSE b
        BY <1>2, <1>4 DEF After
    <2> HIDE DEF a, b, n
    <2>3. CASE a <= b
        <3>1. {a, b} \in SUBSET Int /\ a \in {a, b}
            BY <2>1
        <3>2. \A j \in {a, b} : a <= j
            BY <2>1, <2>3
        <3> QED
            BY <2>2, <2>3, <3>1, <3>2, LeastIs
    <2>4. CASE ~(a <= b)
        <3>1. {a, b} \in SUBSET Int /\ b \in {a, b}
            BY <2>1
        <3>2. \A j \in {a, b} : b <= j
            BY <2>1, <2>4
        <3> QED
            BY <2>2, <2>4, <3>1, <3>2, LeastIs
    <2> QED
        BY <2>3, <2>4
<1> HIDE DEF all, some, n
<1>6. /\ L' = SubSeq(Inserted(s), 1, n)
      /\ R' = SubSeq(Inserted(s), n + 1, Len(Inserted(s)))
    BY <1>3, <1>5, PutText DEF L, R
<1>7. E!Complete(s)
    BY <1>4, <1>6 DEF E!Complete, E!Edit, L, R, all, some, n
<1> QED
    BY <1>7 DEF E!EditorNext

\* A line of the history is fetched.
LEMMA RecallImplements ==
    ASSUME LInv, NEW n \in {hnum - 1, hnum + 1},
           n \in -1 .. Len(history) - 1, Recall(n)
    PROVE  E!EditorNext
<1> DEFINE s == IF n = -1 THEN <<>> ELSE history[n + 1]
<1>1. s \in Seq(Typed) /\ Len(s) < Size
    <2>1. CASE n = -1
        BY <2>1, SizeIsNat
    <2>2. CASE n # -1
        <3>1. n + 1 \in 1 .. Len(history) /\ history \in Seq(Fitting)
            BY <2>2 DEF LInv, HistoryFits
        <3>2. history[n + 1] \in Fitting
            BY <3>1
        <3> QED
            BY <2>2, <3>2 DEF Fitting
    <2> QED
        BY <2>1, <2>2
<1>2. /\ cmdbuf' = Put(s) /\ cmdlen' = Len(s) /\ offset' = Len(s)
      /\ hnum' = n /\ UNCHANGED history
    BY DEF Recall
<1> HIDE DEF s
<1>3. /\ L' = SubSeq(s, 1, Len(s))
      /\ R' = SubSeq(s, Len(s) + 1, Len(s))
    <2>1. Len(s) \in 0 .. Len(s)
        BY <1>1
    <2> QED
        BY <1>1, <1>2, <2>1, PutText DEF L, R
<1>4. SubSeq(s, 1, Len(s)) = s /\ SubSeq(s, Len(s) + 1, Len(s)) = <<>>
    BY <1>1
<1>5. E!Fetch(n)
    BY <1>2, <1>3, <1>4 DEF E!Fetch, L, R, s
<1> QED
    BY <1>5 DEF E!EditorNext

\* A line is entered.
LEMMA EnterImplements ==
    ASSUME LInv, NEW r, Enter(r)
    PROVE  E!EditorNext
<1> DEFINE s == L \o R
           kept == Remembered(s)
<1>1. /\ s = Text(cmdbuf, 0, cmdlen) /\ s \in Seq(Typed)
      /\ Len(history) <= HistorySize /\ history \in Seq(Fitting)
      /\ HistorySize \in Nat /\ HistorySize # 0 /\ Len(history) \in Nat
    <2>1. s = Text(cmdbuf, 0, cmdlen) /\ s \in Seq(Typed)
        BY Halves
    <2>2. Len(history) <= HistorySize /\ history \in Seq(Fitting)
        BY DEF LInv, HistoryFits
    <2>3. HistorySize \in Nat /\ HistorySize # 0
        BY EditorAssumption
    <2> HIDE DEF s
    <2> QED
        BY <2>1, <2>2, <2>3
<1>2. /\ history' = IF Len(kept) <= HistorySize THEN kept ELSE Front(kept)
      /\ cmdlen' = 0 /\ offset' = 0 /\ hnum' = -1
    BY <1>1 DEF Enter
<1>3. history' = IF E!Blank(s) THEN history
                 ELSE E!UpTo(<<s>> \o history, HistorySize)
    <2>1. CASE E!Blank(s)
        BY <1>1, <1>2, <2>1 DEF E!Blank, Remembered
    <2>2. CASE ~E!Blank(s)
        <3> DEFINE w == <<s>> \o history
        <3>1. kept = w
            BY <2>2 DEF E!Blank, Remembered
        <3>2. Len(w) = Len(history) + 1
            BY <1>1
        <3> HIDE DEF w, kept
        <3>3. ~(Len(w) <= HistorySize) => Len(w) - 1 = HistorySize
            BY <1>1, <3>2
        <3> QED
            BY <1>2, <2>2, <3>1, <3>3 DEF E!UpTo, Front, w
    <2> QED
        BY <2>1, <2>2
<1>4. L' = <<>> /\ R' = <<>>
    <2>1. L' = [i \in 1 .. 0 |-> cmdbuf'[i - 1]]
        BY <1>2 DEF L, Text
    <2>2. R' = [i \in 1 .. 0 |-> cmdbuf'[i - 1]]
        BY <1>2 DEF R, Text
    <2> QED
        BY <2>1, <2>2
<1>5. E!Enter
    BY <1>2, <1>3, <1>4 DEF E!Enter, E!Line, L, R
<1> QED
    BY <1>5 DEF E!EditorNext

\* Every step of read_cmd() is one of the editor, or leaves its line alone.
LEMMA LineImplements ==
    ASSUME LInv, [LineNext]_lvars
    PROVE  [E!EditorNext]_(E!evars)
<1>0. /\ cmdlen \in Nat /\ offset \in Nat /\ offset <= cmdlen
      /\ hnum \in -1 .. Len(history) - 1 /\ Len(history) \in Nat
    BY Halves DEF LInv, HistoryFits
<1>1. CASE Left
    <2>1. offset - 1 \in 0 .. cmdlen /\ Move(offset - 1)
        BY <1>0, <1>1 DEF Left
    <2> QED
        BY <2>1, MoveImplements
<1>2. CASE Right
    <2>1. offset + 1 \in 0 .. cmdlen /\ Move(offset + 1)
        BY <1>0, <1>2 DEF Right
    <2> QED
        BY <2>1, MoveImplements
<1>3. CASE Home
    <2>1. 0 \in 0 .. cmdlen /\ Move(0)
        BY <1>0, <1>3 DEF Home
    <2> QED
        BY <2>1, MoveImplements
<1>4. CASE End
    <2>1. cmdlen \in 0 .. cmdlen /\ Move(cmdlen)
        BY <1>0, <1>4 DEF End
    <2> QED
        BY <2>1, MoveImplements
<1>5. CASE Backspace
    BY <1>5, BackspaceImplements
<1>6. CASE Delete
    BY <1>6, DeleteImplements
<1>7. CASE \E c \in Typed : Insert(c)
    BY <1>7, InsertImplements
<1>8. CASE Up
    <2>1. hnum + 1 \in -1 .. Len(history) - 1 /\ Recall(hnum + 1)
        BY <1>0, <1>8 DEF Up
    <2> QED
        BY <2>1, RecallImplements
<1>9. CASE Down
    <2>1. hnum - 1 \in -1 .. Len(history) - 1 /\ Recall(hnum - 1)
        BY <1>0, <1>9 DEF Down
    <2> QED
        BY <2>1, RecallImplements
<1>10. CASE TabNone
    BY <1>10 DEF TabNone, Move, E!evars
<1>11. CASE \E s \in Completion : Tab(s)
    BY <1>11, CompleteImplements DEF Tab, Draws
<1>12. CASE \E s \in Completion, r \in 0 .. Rows - 1 : TabMany(s, r)
    BY <1>12, CompleteImplements DEF TabMany
<1>13. CASE \E r \in 0 .. Rows - 1 : Enter(r)
    BY <1>13, EnterImplements
<1>14. CASE UNCHANGED lvars
    BY <1>14 DEF lvars, E!evars
<1> QED
    BY <1>1, <1>2, <1>3, <1>4, <1>5, <1>6, <1>7, <1>8, <1>9, <1>10, <1>11,
       <1>12, <1>13, <1>14
    DEF LineNext

\* read_cmd() keeps what the editor promises (Editor): for every size of its
\* buffer, of the history and of the screen, what is in the buffer, cut at the
\* cursor, is the text that the keys have made.
THEOREM LineImplementsEditor == LineSpec => EditorSpec
<1>1. LineInit => E!EditorInit
    <2> SUFFICES ASSUME LineInit
                 PROVE  E!EditorInit
        OBVIOUS
    <2>1. L = [i \in 1 .. 0 |-> cmdbuf[i - 1]]
        BY DEF LineInit, L, Text
    <2>2. R = [i \in 1 .. 0 |-> cmdbuf[i - 1]]
        BY DEF LineInit, R, Text
    <2> QED
        BY <2>1, <2>2 DEF LineInit, E!EditorInit, L, R
<1>2. LInv /\ [LineNext]_lvars => [E!EditorNext]_(E!evars)
    BY LineImplements
<1> QED
    BY <1>1, <1>2, LInvHolds, PTL DEF LineSpec, EditorSpec, E!Spec
=============================================================================

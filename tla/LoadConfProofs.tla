--------------------------- MODULE LoadConfProofs ---------------------------
(***************************************************************************)
(* For files of any length and any lines: types, that each target has the  *)
(* settings and modules of its own block, and that no line is lost without *)
(* a word.                                                                 *)
(***************************************************************************)
EXTENDS LoadConf, TLAPS

-----------------------------------------------------------------------------
(***************************************************************************)
(* What one more line does to the blocks of a file.                        *)
(***************************************************************************)
IsTitle(l) == l.name = "title" /\ l.words # <<>>

\* Are there no titles after line t?
Newest(f, t) == \A u \in Titles(f) : u <= t

LEMMA AppendLine ==
    ASSUME NEW f \in Seq(LineShape), NEW l \in LineShape
    PROVE  /\ Len(f) \in Nat
           /\ DOMAIN f = 1 .. Len(f)
           /\ DOMAIN Append(f, l) = 1 .. Len(f) + 1
           /\ Len(Append(f, l)) = Len(f) + 1
           /\ \A i \in 1 .. Len(f) : Append(f, l)[i] = f[i]
           /\ Append(f, l)[Len(f) + 1] = l
  OBVIOUS

LEMMA AppendTitles ==
    ASSUME NEW f \in Seq(LineShape), NEW l \in LineShape
    PROVE  Titles(Append(f, l)) =
             Titles(f) \cup IF IsTitle(l) THEN {Len(f) + 1} ELSE {}
<1>1. ASSUME NEW i
      PROVE  i \in Titles(Append(f, l)) <=>
               i \in Titles(f) \/ (IsTitle(l) /\ i = Len(f) + 1)
  <2>1. CASE i \in 1 .. Len(f)
    BY <2>1, AppendLine DEF Titles
  <2>2. CASE i = Len(f) + 1
    BY <2>2, AppendLine DEF Titles, IsTitle
  <2>3. CASE i \notin 1 .. Len(f) + 1
    BY <2>3, AppendLine DEF Titles
  <2> QED
    BY <2>1, <2>2, <2>3, AppendLine
<1> QED
  BY <1>1

LEMMA TitlesInFile ==
    ASSUME NEW f \in Seq(LineShape)
    PROVE  Titles(f) \subseteq 1 .. Len(f)
  BY DEF Titles

LEMMA AppendBlock ==
    ASSUME NEW f \in Seq(LineShape), NEW l \in LineShape, NEW t \in Titles(f)
    PROVE  BlockOf(Append(f, l), t) =
             BlockOf(f, t) \cup
               IF ~IsTitle(l) /\ Newest(f, t) THEN {Len(f) + 1} ELSE {}
<1> DEFINE g == Append(f, l)
<1>1. t \in 1 .. Len(f) /\ Titles(f) \subseteq 1 .. Len(f)
  BY TitlesInFile
<1>2. ASSUME NEW i \in 1 .. Len(f)
      PROVE  i \in BlockOf(g, t) <=> i \in BlockOf(f, t)
  <2>1. i \in DOMAIN g /\ i \in DOMAIN f
    BY AppendLine
  <2>2. (\A u \in Titles(g) : ~(t < u /\ u <= i)) <=>
            (\A u \in Titles(f) : ~(t < u /\ u <= i))
    <3>1. ~(t < Len(f) + 1 /\ Len(f) + 1 <= i)
      BY AppendLine
    <3> QED
      BY <3>1, AppendTitles
  <2> QED
    BY <2>1, <2>2 DEF BlockOf
<1>3. Len(f) + 1 \in BlockOf(g, t) <=> ~IsTitle(l) /\ Newest(f, t)
  <2>1. Len(f) + 1 \in DOMAIN g /\ t < Len(f) + 1
    BY <1>1, AppendLine
  <2>2. CASE IsTitle(l)
    BY <1>1, <2>1, <2>2, AppendTitles, AppendLine DEF BlockOf
  <2>3. CASE ~IsTitle(l)
    <3>1. Titles(g) = Titles(f)
      BY <2>3, AppendTitles
    <3>2. \A u \in Titles(f) : (t < u /\ u <= Len(f) + 1) <=> ~(u <= t)
      BY <1>1, AppendLine
    <3> QED
      BY <2>1, <2>3, <3>1, <3>2 DEF BlockOf, Newest
  <2> QED
    BY <2>2, <2>3
<1>4. /\ BlockOf(g, t) \subseteq 1 .. Len(f) + 1
      /\ BlockOf(f, t) \subseteq 1 .. Len(f)
  BY AppendLine DEF BlockOf
<1> QED
  BY <1>2, <1>3, <1>4, AppendLine

\* Does line l set n?
Gives(l, n) == l.name = n /\ (n \in Flag \/ l.words # <<>>)

LEMMA AppendGiven ==
    ASSUME NEW f \in Seq(LineShape), NEW l \in LineShape, NEW t \in Titles(f),
           NEW n \in Setting \cup {"module"}
    PROVE  Given(Append(f, l), t, n) =
             Given(f, t, n) \cup
               IF Gives(l, n) /\ Newest(f, t) THEN {Len(f) + 1} ELSE {}
<1> DEFINE g == Append(f, l)
<1>1. Gives(l, n) => ~IsTitle(l)
  BY DEF Gives, IsTitle, Setting, Option, Flag
<1>2. BlockOf(f, t) \subseteq 1 .. Len(f)
  BY AppendLine DEF BlockOf
<1>3. ASSUME NEW i \in 1 .. Len(f)
      PROVE  i \in Given(g, t, n) <=> i \in Given(f, t, n)
  <2>1. i \in BlockOf(g, t) <=> i \in BlockOf(f, t)
    BY AppendBlock, AppendLine
  <2> QED
    BY <2>1, AppendLine DEF Given
<1>4. Len(f) + 1 \in Given(g, t, n) <=> Gives(l, n) /\ Newest(f, t)
  <2>1. Len(f) + 1 \in BlockOf(g, t) <=> ~IsTitle(l) /\ Newest(f, t)
    BY <1>2, AppendBlock, AppendLine
  <2> QED
    BY <1>1, <2>1, AppendLine DEF Given, Gives
<1>5. /\ Given(g, t, n) \subseteq 1 .. Len(f) + 1
      /\ Given(f, t, n) \subseteq 1 .. Len(f)
  <2>1. BlockOf(g, t) \subseteq 1 .. Len(f) + 1
    BY AppendLine DEF BlockOf
  <2> QED
    BY <1>2, <2>1 DEF Given
<1> QED
  BY <1>3, <1>4, <1>5, AppendLine

\* A title begins an empty block.
LEMMA NewBlock ==
    ASSUME NEW f \in Seq(LineShape), NEW l \in LineShape, IsTitle(l), NEW n
    PROVE  /\ Len(f) + 1 \in Titles(Append(f, l))
           /\ Newest(Append(f, l), Len(f) + 1)
           /\ Given(Append(f, l), Len(f) + 1, n) = {}
<1>1. Titles(Append(f, l)) \subseteq 1 .. Len(f) + 1
  BY AppendLine DEF Titles
<1>2. \A i \in DOMAIN Append(f, l) : ~(Len(f) + 1 < i)
  BY AppendLine
<1> QED
  BY <1>1, <1>2, AppendTitles, AppendLine DEF Newest, Given, BlockOf

-----------------------------------------------------------------------------
(***************************************************************************)
(* The last of some lines, and lists of them.                              *)
(***************************************************************************)
LEMMA LastAdded ==
    ASSUME NEW n \in Nat, NEW S \in SUBSET (1 .. n)
    PROVE  IsLast(n + 1, S \cup {n + 1})
  BY DEF IsLast

LEMMA ListAdded ==
    ASSUME NEW m \in Nat, NEW S \in SUBSET Nat, \A x \in S : x < m,
           NEW s \in Seq(Nat), IsListOf(s, S)
    PROVE  IsListOf(Append(s, m), S \cup {m})
<1> DEFINE a == Append(s, m)
<1>1. /\ Len(s) \in Nat /\ DOMAIN s = 1 .. Len(s)
      /\ DOMAIN a = 1 .. Len(s) + 1
      /\ \A k \in 1 .. Len(s) : a[k] = s[k]
      /\ a[Len(s) + 1] = m
  OBVIOUS
<1>2. {a[k] : k \in DOMAIN a} = {s[k] : k \in DOMAIN s} \cup {m}
  BY <1>1
<1>3. \A k \in DOMAIN s : s[k] < m
  BY DEF IsListOf
<1>4. ASSUME NEW j \in DOMAIN a, NEW k \in DOMAIN a, j < k
      PROVE  a[j] < a[k]
  <2>1. j \in 1 .. Len(s)
    BY <1>1, <1>4
  <2>2. CASE k \in 1 .. Len(s)
    BY <1>1, <1>4, <2>1, <2>2 DEF IsListOf
  <2>3. CASE k = Len(s) + 1
    BY <1>1, <1>3, <2>1, <2>3
  <2> QED
    BY <1>1, <2>2, <2>3
<1> QED
  BY <1>2, <1>4 DEF IsListOf

-----------------------------------------------------------------------------
(***************************************************************************)
(* The invariant.                                                          *)
(***************************************************************************)
\* Settings s and modules ms are those of the block of title t.
BlockRead(f, t, s, ms) ==
    /\ t \in Titles(f)
    /\ \A n \in Setting : IsLast(s[n], Given(f, t, n))
    /\ IsListOf(ms, Given(f, t, "module"))

TitlesOf(ts) == [k \in DOMAIN ts |-> ts[k].title]

Target == [title : Nat, set : [Setting -> Nat], modules : Seq(Nat)]

\* What is in the targets and in the block that is open.
Shapes ==
    /\ file \in Seq(LineShape)
    /\ at \in {"read", "done"}
    /\ topen \in Nat
    /\ set \in [Setting -> Nat]
    /\ modules \in Seq(Nat)
    /\ targets \in Seq(Target)

\* The block that is open is the newest.
OpenOK ==
    IF topen = 0
      THEN Titles(file) = {}
      ELSE BlockRead(file, topen, set, modules) /\ Newest(file, topen)

\* The blocks of the targets are read and closed.
ClosedOK ==
    \A k \in DOMAIN targets :
        /\ BlockRead(file, targets[k].title, targets[k].set,
                     targets[k].modules)
        /\ at = "read" => targets[k].title < topen

\* The targets are the complete blocks that are closed.
ListedOK ==
    IsListOf(TitlesOf(targets),
             {t \in Titles(file) :
                 Complete(file, t) /\ (at = "read" => t # topen)})

BlocksOK == Shapes /\ OpenOK /\ ClosedOK /\ ListedOK

LEMMA BlocksInit == ConfInit => BlocksOK
<1> SUFFICES ASSUME ConfInit PROVE BlocksOK
  OBVIOUS
<1>1. <<>> \in Seq(LineShape) /\ <<>> \in Seq(Nat) /\ <<>> \in Seq(Target)
  OBVIOUS
<1>2. Shapes
  BY <1>1 DEF ConfInit, Shapes, NoSettings
<1>3. Titles(file) = {} /\ DOMAIN targets = {}
  BY DEF ConfInit, Titles
<1>4. ListedOK
  BY <1>3 DEF ListedOK, IsListOf, TitlesOf
<1> QED
  BY <1>2, <1>3, <1>4 DEF BlocksOK, OpenOK, ClosedOK, ConfInit

\* A line that is no title, whatever it does to the globals.
LEMMA BlockLine ==
    ASSUME BlocksOK, at = "read", at' = "read", NEW l \in LineShape,
           file' = Append(file, l), ~IsTitle(l), UNCHANGED <<topen, targets>>,
           set' = [n \in Setting |-> IF topen # 0 /\ Gives(l, n)
                                       THEN lnum ELSE set[n]],
           modules' = IF topen # 0 /\ Gives(l, "module")
                        THEN Append(modules, lnum) ELSE modules
    PROVE  BlocksOK'
<1> USE DEF lnum
<1>1. file \in Seq(LineShape) /\ Len(file) \in Nat
  BY AppendLine DEF BlocksOK, Shapes
<1>2. Shapes'
  BY <1>1 DEF BlocksOK, Shapes
<1>3. Titles(file') = Titles(file)
  BY <1>1, AppendTitles
<1>4. \A t \in Titles(file) : \A n \in Setting \cup {"module"} :
        /\ Given(file', t, n) =
             Given(file, t, n) \cup
               IF Gives(l, n) /\ Newest(file, t) THEN {lnum} ELSE {}
        /\ Given(file, t, n) \subseteq 1 .. Len(file)
  <2>1. \A t, n : Given(file, t, n) \subseteq 1 .. Len(file)
    BY <1>1, AppendLine DEF Given, BlockOf
  <2> QED
    BY <1>1, <2>1, AppendGiven
<1>5. ASSUME NEW t \in Titles(file), t # topen
      PROVE  /\ \A n \in Setting \cup {"module"} :
                  Given(file', t, n) = Given(file, t, n)
             /\ Complete(file', t) <=> Complete(file, t)
  <2>1. ~Newest(file, t)
    <3>1. topen \in Titles(file) /\ t <= topen
      BY DEF BlocksOK, OpenOK, BlockRead, Newest
    <3>2. t \in Nat /\ topen \in Nat
      BY <1>1, <3>1, TitlesInFile
    <3> QED
      BY <1>5, <3>1, <3>2 DEF Newest
  <2>2. \A n \in Setting \cup {"module"} :
          Given(file', t, n) = Given(file, t, n)
    <3> SUFFICES ASSUME NEW n \in Setting \cup {"module"}
                 PROVE  Given(file', t, n) = Given(file, t, n)
      OBVIOUS
    <3>1. Given(file', t, n) =
            Given(file, t, n) \cup
              IF Gives(l, n) /\ Newest(file, t) THEN {lnum} ELSE {}
      BY <1>4
    <3>2. ~(Gives(l, n) /\ Newest(file, t))
      BY <2>1
    <3> QED
      BY <3>1, <3>2
  <2> QED
    BY <2>2 DEF Complete, Setting, Option
<1>6. OpenOK'
  <2>1. CASE topen = 0
    BY <1>3, <2>1 DEF BlocksOK, OpenOK
  <2>2. CASE topen # 0
    <3>1. topen \in Titles(file) /\ Newest(file, topen)
      BY <2>2 DEF BlocksOK, OpenOK, BlockRead
    <3>2. ASSUME NEW n \in Setting
          PROVE  IsLast(set'[n], Given(file', topen, n))
      <4>1. IsLast(set[n], Given(file, topen, n))
        BY <2>2 DEF BlocksOK, OpenOK, BlockRead
      <4>2. CASE Gives(l, n)
        <5>1. /\ Given(file', topen, n) = Given(file, topen, n) \cup {lnum}
              /\ Given(file, topen, n) \in SUBSET (1 .. Len(file))
          BY <1>4, <3>1, <4>2
        <5>2. IsLast(Len(file) + 1, Given(file, topen, n) \cup
                                      {Len(file) + 1})
          BY <1>1, <5>1, LastAdded, Zenon
        <5>3. set'[n] = lnum
          BY <2>2, <4>2
        <5> QED
          BY <5>1, <5>2, <5>3
      <4>3. CASE ~Gives(l, n)
        BY <1>4, <3>1, <4>1, <4>3
      <4> QED
        BY <4>2, <4>3
    <3>3. IsListOf(modules', Given(file', topen, "module"))
      <4>1. IsListOf(modules, Given(file, topen, "module"))
            /\ modules \in Seq(Nat)
        BY <2>2 DEF BlocksOK, Shapes, OpenOK, BlockRead
      <4>2. CASE Gives(l, "module")
        <5>1. \A x \in Given(file, topen, "module") : x \in Nat /\ x < lnum
          BY <1>1, <1>4, <3>1
        <5>2. lnum \in Nat
          BY <1>1
        <5>3. IsListOf(Append(modules, lnum),
                       Given(file, topen, "module") \cup {lnum})
          BY <4>1, <5>1, <5>2, ListAdded DEF lnum
        <5> QED
          BY <1>4, <2>2, <3>1, <4>2, <5>3
      <4>3. CASE ~Gives(l, "module")
        BY <1>4, <3>1, <4>1, <4>3
      <4> QED
        BY <4>2, <4>3
    <3>4. Newest(file', topen)
      BY <1>3, <3>1 DEF Newest
    <3> QED
      BY <1>3, <2>2, <3>1, <3>2, <3>3, <3>4 DEF OpenOK, BlockRead
  <2> QED
    BY <2>1, <2>2
<1>7. ClosedOK'
  <2> SUFFICES ASSUME NEW k \in DOMAIN targets
               PROVE  /\ BlockRead(file', targets[k].title, targets[k].set,
                                   targets[k].modules)
                      /\ targets[k].title < topen
    BY DEF ClosedOK
  <2>1. /\ BlockRead(file, targets[k].title, targets[k].set,
                     targets[k].modules)
        /\ targets[k].title < topen
    BY DEF BlocksOK, ClosedOK
  <2>2. targets[k].title \in Titles(file) /\ targets[k].title # topen
    BY <1>1, <2>1, TitlesInFile DEF BlockRead, BlocksOK, Shapes
  <2> QED
    BY <1>3, <1>5, <2>1, <2>2 DEF BlockRead
<1>8. ListedOK'
  <2>1. {t \in Titles(file') : Complete(file', t) /\ t # topen} =
          {t \in Titles(file) : Complete(file, t) /\ t # topen}
    BY <1>3, <1>5
  <2> QED
    BY <2>1 DEF BlocksOK, ListedOK
<1> QED
  BY <1>2, <1>6, <1>7, <1>8 DEF BlocksOK

\* The block that is open is added to the targets, or left out.
LEMMA BlockAdded ==
    ASSUME BlocksOK, at = "read", topen # 0, AddTarget
    PROVE  /\ targets' \in Seq(Target)
           /\ \A k \in DOMAIN targets' :
                /\ BlockRead(file, targets'[k].title, targets'[k].set,
                             targets'[k].modules)
                /\ targets'[k].title <= topen
           /\ IsListOf(TitlesOf(targets'),
                       {t \in Titles(file) : Complete(file, t)})
<1> DEFINE new == [title |-> topen, set |-> set, modules |-> modules]
           Closed == {t \in Titles(file) : Complete(file, t) /\ t # topen}
<1>1. /\ file \in Seq(LineShape) /\ topen \in Nat
      /\ new \in Target /\ targets \in Seq(Target)
  BY DEF BlocksOK, Shapes, Target
<1>2. /\ BlockRead(file, topen, set, modules)
      /\ \A k \in DOMAIN targets :
            /\ BlockRead(file, targets[k].title, targets[k].set,
                         targets[k].modules)
            /\ targets[k].title < topen
      /\ IsListOf(TitlesOf(targets), Closed)
  BY DEF BlocksOK, OpenOK, ClosedOK, ListedOK
<1>3. \A k \in DOMAIN targets : targets[k].title <= topen
  <2> SUFFICES ASSUME NEW k \in DOMAIN targets
               PROVE  targets[k].title <= topen
    OBVIOUS
  <2>1. targets[k].title \in Nat
    BY <1>1, <1>2, TitlesInFile DEF BlockRead
  <2> QED
    BY <1>1, <1>2, <2>1
<1>4. /\ Complete(file, topen) <=> ~(set["root"] = 0 \/ set["kernel"] = 0)
      /\ topen \in Titles(file)
  <2>1. \A n : Given(file, topen, n) \subseteq 1 .. Len(file)
    BY <1>1 DEF Given, BlockOf
  <2>2. /\ IsLast(set["root"], Given(file, topen, "root"))
        /\ IsLast(set["kernel"], Given(file, topen, "kernel"))
    BY <1>2 DEF BlockRead, Setting, Option
  <2> QED
    BY <1>2, <2>1, <2>2 DEF Complete, IsLast, BlockRead
<1>5. CASE set["root"] = 0 \/ set["kernel"] = 0
  <2>1. targets' = targets
    BY <1>5 DEF AddTarget
  <2>2. Closed = {t \in Titles(file) : Complete(file, t)}
    BY <1>4, <1>5
  <2> QED
    BY <1>1, <1>2, <1>3, <2>1, <2>2
<1>6. CASE ~(set["root"] = 0 \/ set["kernel"] = 0)
  <2>1. targets' = Append(targets, new)
    BY <1>6 DEF AddTarget
  <2>2. /\ Len(targets) \in Nat /\ DOMAIN targets = 1 .. Len(targets)
        /\ DOMAIN targets' = 1 .. Len(targets) + 1
        /\ \A k \in 1 .. Len(targets) : targets'[k] = targets[k]
        /\ targets'[Len(targets) + 1] = new
    BY <1>1, <2>1
  <2>3. TitlesOf(targets) \in Seq(Nat)
    <3>1. \A k \in DOMAIN targets : targets[k].title \in Nat
      BY <1>1, <1>2, TitlesInFile DEF BlockRead
    <3> QED
      BY <2>2, <3>1 DEF TitlesOf
  <2>4. TitlesOf(targets') = Append(TitlesOf(targets), topen)
    <3>1. /\ Append(TitlesOf(targets), topen) \in Seq(Nat)
          /\ Len(Append(TitlesOf(targets), topen)) = Len(targets) + 1
      BY <1>1, <2>2, <2>3 DEF TitlesOf
    <3>2. DOMAIN Append(TitlesOf(targets), topen) = DOMAIN TitlesOf(targets')
      BY <2>2, <3>1 DEF TitlesOf
    <3>3. \A k \in 1 .. Len(targets) + 1 :
            TitlesOf(targets')[k] = Append(TitlesOf(targets), topen)[k]
      BY <1>1, <2>2, <2>3 DEF TitlesOf
    <3> QED
      BY <2>2, <3>1, <3>2, <3>3 DEF TitlesOf
  <2>5. IsListOf(TitlesOf(targets'), Closed \cup {topen})
    <3>1. \A x \in Closed : x < topen
      <4> SUFFICES ASSUME NEW x \in Closed PROVE x < topen
        OBVIOUS
      <4>1. x <= topen /\ x # topen
        BY DEF BlocksOK, OpenOK, Newest
      <4>2. x \in Nat
        BY <1>1, TitlesInFile
      <4> QED
        BY <1>1, <4>1, <4>2
    <3>2. Closed \in SUBSET Nat
      BY <1>1, TitlesInFile
    <3> QED
      BY <1>1, <1>2, <2>3, <2>4, <3>1, <3>2, ListAdded
  <2>6. Closed \cup {topen} = {t \in Titles(file) : Complete(file, t)}
    BY <1>4, <1>6
  <2>7. targets' \in Seq(Target)
    BY <1>1, <2>1
  <2>8. ASSUME NEW k \in DOMAIN targets'
        PROVE  /\ BlockRead(file, targets'[k].title, targets'[k].set,
                            targets'[k].modules)
               /\ targets'[k].title <= topen
    BY <1>1, <1>2, <1>3, <2>2
  <2> QED
    BY <2>5, <2>6, <2>7, <2>8
<1> QED
  BY <1>5, <1>6

\* The same at the end of the file, or before another title, with no block.
LEMMA BlockClosed ==
    ASSUME BlocksOK, at = "read",
           IF topen # 0 THEN AddTarget ELSE UNCHANGED <<targets, reported>>
    PROVE  /\ targets' \in Seq(Target)
           /\ \A k \in DOMAIN targets' :
                /\ BlockRead(file, targets'[k].title, targets'[k].set,
                             targets'[k].modules)
                /\ targets'[k].title <= topen
           /\ IsListOf(TitlesOf(targets'),
                       {t \in Titles(file) : Complete(file, t)})
<1>1. CASE topen # 0
  BY <1>1, BlockAdded
<1>2. CASE topen = 0
  <2>1. Titles(file) = {}
    BY <1>2 DEF BlocksOK, OpenOK
  <2>2. DOMAIN targets = {}
    BY <2>1 DEF BlocksOK, ClosedOK, BlockRead
  <2> QED
    BY <1>2, <2>1, <2>2 DEF BlocksOK, Shapes, ListedOK
<1> QED
  BY <1>1, <1>2

LEMMA BlockTitle ==
    ASSUME BlocksOK, at = "read", at' = "read", NEW l \in LineShape,
           file' = Append(file, l), IsTitle(l),
           IF topen # 0 THEN AddTarget ELSE UNCHANGED <<targets, reported>>,
           topen' = lnum, set' = NoSettings, modules' = <<>>
    PROVE  BlocksOK'
<1> USE DEF lnum
<1>1. file \in Seq(LineShape) /\ Len(file) \in Nat
  BY AppendLine DEF BlocksOK, Shapes
<1>2. /\ targets' \in Seq(Target)
      /\ \A k \in DOMAIN targets' :
            /\ BlockRead(file, targets'[k].title, targets'[k].set,
                         targets'[k].modules)
            /\ targets'[k].title <= topen
      /\ IsListOf(TitlesOf(targets'),
                  {t \in Titles(file) : Complete(file, t)})
  BY BlockClosed
<1>3. /\ Titles(file') = Titles(file) \cup {lnum}
      /\ Titles(file) \subseteq 1 .. Len(file)
  BY <1>1, AppendTitles, TitlesInFile
<1>4. ASSUME NEW t \in Titles(file)
      PROVE  /\ \A n \in Setting \cup {"module"} :
                  Given(file', t, n) = Given(file, t, n)
             /\ Complete(file', t) <=> Complete(file, t)
  <2>1. ASSUME NEW n \in Setting \cup {"module"}
        PROVE  Given(file', t, n) = Given(file, t, n)
    <3>1. ~Gives(l, n)
      BY DEF IsTitle, Gives, Setting, Option, Flag
    <3>2. Given(file', t, n) =
            Given(file, t, n) \cup
              IF Gives(l, n) /\ Newest(file, t) THEN {lnum} ELSE {}
      BY <1>1, AppendGiven
    <3> QED
      BY <3>1, <3>2
  <2> QED
    BY <2>1 DEF Complete, Setting, Option
<1>5. Shapes'
  <2>1. <<>> \in Seq(Nat)
    OBVIOUS
  <2> QED
    BY <1>1, <1>2, <2>1 DEF BlocksOK, Shapes, NoSettings
<1>6. /\ lnum \in Titles(file')
      /\ Newest(file', lnum)
      /\ \A n : Given(file', lnum, n) = {}
  BY <1>1, NewBlock
<1>7. OpenOK'
  <2>1. lnum # 0
    BY <1>1
  <2>2. \A n \in Setting : IsLast(set'[n], Given(file', lnum, n))
    BY <1>6 DEF NoSettings, IsLast
  <2>3. IsListOf(modules', Given(file', lnum, "module"))
    BY <1>6 DEF IsListOf
  <2> QED
    BY <1>6, <2>1, <2>2, <2>3 DEF OpenOK, BlockRead
<1>8. ClosedOK'
  <2> SUFFICES ASSUME NEW k \in DOMAIN targets'
               PROVE  /\ BlockRead(file', targets'[k].title, targets'[k].set,
                                   targets'[k].modules)
                      /\ targets'[k].title < lnum
    BY DEF ClosedOK
  <2>1. /\ BlockRead(file, targets'[k].title, targets'[k].set,
                     targets'[k].modules)
        /\ targets'[k].title \in Titles(file)
    BY <1>2 DEF BlockRead
  <2>2. targets'[k].title < lnum
    BY <1>1, <1>3, <2>1
  <2> QED
    BY <1>3, <1>4, <2>1, <2>2 DEF BlockRead
<1>9. ListedOK'
  <2>1. ~Complete(file', lnum)
    BY <1>6 DEF Complete
  <2>2. \A t \in Titles(file) : t # lnum
    BY <1>1, <1>3
  <2>3. {t \in Titles(file') : Complete(file', t) /\ t # lnum} =
          {t \in Titles(file) : Complete(file, t)}
    BY <1>3, <1>4, <2>2
  <2> QED
    BY <1>2, <2>3 DEF ListedOK
<1> QED
  BY <1>5, <1>7, <1>8, <1>9 DEF BlocksOK

LEMMA BlockEnd == BlocksOK /\ EndOfFile => BlocksOK'
<1> SUFFICES ASSUME BlocksOK, EndOfFile PROVE BlocksOK'
  OBVIOUS
<1>1. /\ targets' \in Seq(Target)
      /\ \A k \in DOMAIN targets' :
            BlockRead(file, targets'[k].title, targets'[k].set,
                      targets'[k].modules)
      /\ IsListOf(TitlesOf(targets'),
                  {t \in Titles(file) : Complete(file, t)})
  BY BlockClosed DEF EndOfFile
<1>2. at' = "done" /\ UNCHANGED <<file, block>>
  BY DEF EndOfFile
<1>3. Shapes'
  BY <1>1, <1>2 DEF BlocksOK, Shapes, block
<1>4. OpenOK'
  BY <1>2 DEF BlocksOK, OpenOK, block
<1>5. ClosedOK'
  BY <1>1, <1>2 DEF ClosedOK
<1>6. ListedOK'
  BY <1>1, <1>2 DEF ListedOK
<1> QED
  BY <1>3, <1>4, <1>5, <1>6 DEF BlocksOK

LEMMA BlocksStep == BlocksOK /\ [ConfNext]_confVars => BlocksOK'
<1> SUFFICES ASSUME BlocksOK, [ConfNext]_confVars PROVE BlocksOK'
  OBVIOUS
<1>1. set \in [Setting -> Nat]
  BY DEF BlocksOK, Shapes
<1>2. ASSUME NEW l \in Line, ConfNext, at = "read", at' = "read",
             file' = Append(file, l), ~IsTitle(l),
             UNCHANGED <<topen, targets>>,
             \/ /\ \A n \in Setting \cup {"module"} :
                      topen = 0 \/ ~Gives(l, n)
                /\ UNCHANGED <<set, modules>>
             \/ /\ topen # 0 /\ Gives(l, "module")
                /\ modules' = Append(modules, lnum) /\ UNCHANGED set
             \/ \E n \in Setting :
                /\ topen # 0 /\ Gives(l, n)
                /\ set' = [set EXCEPT ![n] = lnum] /\ UNCHANGED modules
      PROVE  BlocksOK'
  <2>1. l \in LineShape
    BY LineAssumption
  <2>2. \A m, n : Gives(l, m) /\ Gives(l, n) => m = n
    BY DEF Gives
  <2>3. "module" \notin Setting
    BY DEF Setting, Option, Flag
  <2>4. set' = [n \in Setting |-> IF topen # 0 /\ Gives(l, n)
                                    THEN lnum ELSE set[n]]
    BY <1>1, <1>2, <2>2, <2>3
  <2>5. modules' = IF topen # 0 /\ Gives(l, "module")
                     THEN Append(modules, lnum) ELSE modules
    BY <1>2, <2>2, <2>3
  <2> QED
    BY <1>2, <2>1, <2>4, <2>5, BlockLine
<1>3. ASSUME NEW l \in Line,
             \/ Blank(l) \/ Unknown(l) \/ Timeout(l) \/ GrubPath(l)
             \/ GrubMap(l) \/ GrubAutodetect(l) \/ Kmod(l)
      PROVE  BlocksOK'
  <2>1. l.name \notin Setting \cup {"module", "title"}
    BY <1>3 DEF Blank, Unknown, Timeout, GrubPath, GrubMap, GrubAutodetect,
                Kmod, NextLine, Setting, Option, Flag
  <2>2. /\ at = "read" /\ at' = "read" /\ file' = Append(file, l)
        /\ UNCHANGED <<topen, set, modules, targets>>
    BY <1>3 DEF Blank, Unknown, Timeout, GrubPath, GrubMap, GrubAutodetect,
                Kmod, NextLine, Report, block
  <2> QED
    BY <1>2, <1>3, <2>1, <2>2 DEF Gives, IsTitle, ConfNext
<1>4. ASSUME NEW l \in Line, NEW n \in Setting, SetOption(l, n)
      PROVE  BlocksOK'
  <2>1. l.name = n /\ n # "module" /\ n # "title"
    BY <1>4 DEF SetOption, NextLine, Setting, Option, Flag
  <2>2. l.words \in Seq(DOMAIN Atoi)
    BY LineAssumption DEF LineShape
  <2>3. HasArgs(l.words, 1) <=> l.words # <<>>
    BY <2>2 DEF HasArgs
  <2>4. /\ at = "read" /\ at' = "read" /\ file' = Append(file, l)
        /\ UNCHANGED <<topen, modules, targets>>
        /\ IF topen = 0 \/ ~Gives(l, n) THEN UNCHANGED set
             ELSE set' = [set EXCEPT ![n] = lnum]
    BY <1>4, <2>1, <2>3 DEF SetOption, NextLine, Report, block, Gives, Setting,
                            Option, Flag
  <2> QED
    BY <1>2, <1>4, <2>1, <2>4 DEF Gives, IsTitle, ConfNext
<1>5. ASSUME NEW l \in Line, Module(l)
      PROVE  BlocksOK'
  <2>1. l.name = "module" /\ "module" \notin Setting \cup Flag
    BY <1>5 DEF Module, NextLine, Setting, Option, Flag
  <2>2. l.words \in Seq(DOMAIN Atoi)
    BY LineAssumption DEF LineShape
  <2>3. HasArgs(l.words, 1) <=> l.words # <<>>
    BY <2>2 DEF HasArgs
  <2>4. /\ at = "read" /\ at' = "read" /\ file' = Append(file, l)
        /\ UNCHANGED <<topen, set, targets>>
        /\ IF topen = 0 \/ ~Gives(l, "module") THEN UNCHANGED modules
             ELSE modules' = Append(modules, lnum)
    BY <1>5, <2>1, <2>3 DEF Module, NextLine, Report, block, Gives
  <2> QED
    BY <1>2, <1>5, <2>1, <2>4 DEF Gives, IsTitle, ConfNext
<1>6. ASSUME NEW l \in Line, Title(l)
      PROVE  BlocksOK'
  <2>1. l \in LineShape /\ l.words \in Seq(DOMAIN Atoi)
    BY LineAssumption DEF LineShape
  <2>2. HasArgs(l.words, 1) <=> l.words # <<>>
    BY <2>1 DEF HasArgs
  <2>3. l.name = "title" /\ "title" \notin Setting
        /\ at = "read" /\ at' = "read" /\ file' = Append(file, l)
    BY <1>6 DEF Title, NextLine, Setting, Option, Flag
  <2>4. CASE l.words = <<>>
    <3>1. UNCHANGED <<topen, set, modules, targets>>
      BY <1>6, <2>2, <2>4 DEF Title, Report, block
    <3> QED
      BY <1>2, <1>6, <2>3, <2>4, <3>1 DEF Gives, IsTitle, ConfNext
  <2>5. CASE l.words # <<>>
    BY <1>6, <2>1, <2>2, <2>3, <2>5, BlockTitle DEF Title, IsTitle
  <2> QED
    BY <2>4, <2>5
<1>7. CASE EndOfFile
  BY <1>7, BlockEnd
<1>8. CASE Returned \/ UNCHANGED confVars
  BY <1>8 DEF Returned, confVars, block, BlocksOK, Shapes, OpenOK, ClosedOK,
              ListedOK
<1> QED
  BY <1>3, <1>4, <1>5, <1>6, <1>7, <1>8 DEF ConfNext

LEMMA BlocksHold == ConfSpec => []BlocksOK
  BY BlocksInit, BlocksStep, PTL DEF ConfSpec

\* Each target has the settings and the modules of its own block.
THEOREM TargetsAreBlocks == ConfSpec => []OwnLines
<1>1. BlocksOK => OwnLines
  BY DEF BlocksOK, ClosedOK, BlockRead, OwnSettings, OwnModules, OwnLines
<1> QED
  BY <1>1, BlocksHold, PTL

\* The targets are the complete blocks of the file, in order.
THEOREM BlocksAreTargets == ConfSpec => []AllTargets
<1>1. BlocksOK => AllTargets
  BY DEF BlocksOK, ListedOK, TitlesOf, AllTargets
<1> QED
  BY <1>1, BlocksHold, PTL

-----------------------------------------------------------------------------
(***************************************************************************)
(* Types.                                                                  *)
(***************************************************************************)
\* The types of everything but the file, for line numbers in P.
Typed(P) ==
    /\ at \in {"read", "done"}
    /\ topen \in P
    /\ set \in [Setting -> P]
    /\ modules \in Seq(P)
    /\ targets \in Seq([title : P, set : [Setting -> P], modules : Seq(P)])
    /\ kmods \in Seq(P)
    /\ timeout \in Int
    /\ grub_path \in P
    /\ devmap \in Seq(P)
    /\ autodetect \in 0 .. 2
    /\ reported \subseteq P

LEMMA SeqWider ==
    ASSUME NEW P, NEW Q, P \subseteq Q, NEW s \in Seq(P)
    PROVE  s \in Seq(Q)
  OBVIOUS

LEMMA TypedWider ==
    ASSUME NEW P, NEW Q, P \subseteq Q, Typed(P)
    PROVE  Typed(Q)
<1>1. /\ modules \in Seq(Q) /\ kmods \in Seq(Q) /\ devmap \in Seq(Q)
  BY SeqWider DEF Typed
<1>2. targets \in Seq([title : Q, set : [Setting -> Q], modules : Seq(Q)])
  <2> DEFINE TP == [title : P, set : [Setting -> P], modules : Seq(P)]
             TQ == [title : Q, set : [Setting -> Q], modules : Seq(Q)]
  <2>1. TP \subseteq TQ
    BY SeqWider
  <2>2. targets \in Seq(TP)
    BY DEF Typed
  <2> HIDE DEF TP, TQ
  <2>3. targets \in Seq(TQ)
    BY <2>1, <2>2, SeqWider
  <2> QED
    BY <2>3 DEF TQ
<1> QED
  BY <1>1, <1>2 DEF Typed

LEMMA ConfTypeInit == ConfInit => ConfTypeOK
<1> SUFFICES ASSUME ConfInit PROVE ConfTypeOK
  OBVIOUS
<1>1. \A S : <<>> \in Seq(S)
  OBVIOUS
<1>2. Len(file) = 0 /\ LineNo = 0 .. 0
  BY DEF ConfInit, LineNo
<1> QED
  BY <1>1, <1>2 DEF ConfInit, ConfTypeOK, NoSettings

\* The target that AddTarget adds.
LEMMA AddTyped ==
    ASSUME NEW P, Typed(P),
           IF topen # 0 THEN AddTarget ELSE UNCHANGED <<targets, reported>>
    PROVE  /\ targets' \in Seq([title : P, set : [Setting -> P],
                                modules : Seq(P)])
           /\ reported' \subseteq P
<1> DEFINE T == [title : P, set : [Setting -> P], modules : Seq(P)]
           new == [title |-> topen, set |-> set, modules |-> modules]
<1>1. /\ new \in T /\ targets \in Seq(T) /\ reported \subseteq P /\ topen \in P
  BY DEF Typed
<1>2. targets' = targets \/ targets' = Append(targets, new)
  BY DEF AddTarget
<1>3. reported' \subseteq reported \cup {topen}
  BY DEF AddTarget
<1> HIDE DEF T, new
<1>4. targets' \in Seq(T)
  BY <1>1, <1>2
<1> QED
  BY <1>1, <1>3, <1>4 DEF T

\* What a line leaves, for line numbers that include its own.
LEMMA LineTyped ==
    ASSUME NEW P, Typed(P), lnum \in P, 0 \in P, NEW l \in Line,
           \/ Blank(l) \/ Unknown(l)
           \/ Timeout(l) \/ GrubPath(l) \/ GrubMap(l) \/ GrubAutodetect(l)
           \/ Title(l)
           \/ \E n \in Setting : SetOption(l, n)
           \/ Module(l) \/ Kmod(l)
    PROVE  Typed(P)'
<1> USE DEF block, grub, NextLine
<1>1. CASE Blank(l) \/ Unknown(l)
  BY <1>1 DEF Blank, Unknown, Report, Typed
<1>2. CASE Timeout(l)
  <2>1. l.words \in Seq(DOMAIN Atoi)
    BY LineAssumption DEF LineShape
  <2>2. HasArgs(l.words, 1) => Head(l.words) \in DOMAIN Atoi
    BY <2>1 DEF HasArgs
  <2>3. timeout' \in Int
    BY <1>2, <2>2, AtoiAssumption DEF Timeout, Limit, Report, Typed
  <2> QED
    BY <1>2, <2>3 DEF Timeout, Report, Typed
<1>3. CASE GrubPath(l)
  BY <1>3 DEF GrubPath, Report, Typed
<1>4. CASE GrubMap(l)
  <2>1. devmap' = devmap \/ devmap' = Append(devmap, lnum)
    BY <1>4 DEF GrubMap, Report
  <2>2. devmap' \in Seq(P)
    <3>1. devmap \in Seq(P)
      BY DEF Typed
    <3> QED
      BY <2>1, <3>1
  <2> QED
    BY <1>4, <2>2 DEF GrubMap, Report, Typed
<1>5. CASE GrubAutodetect(l)
  BY <1>5 DEF GrubAutodetect, Report, Typed
<1>6. CASE Title(l)
  <2>1. CASE ~HasArgs(l.words, 1)
    BY <1>6, <2>1 DEF Title, Report, Typed
  <2>2. CASE HasArgs(l.words, 1)
    <3>1. /\ targets' \in Seq([title : P, set : [Setting -> P],
                               modules : Seq(P)])
          /\ reported' \subseteq P
      BY <1>6, <2>2, AddTyped DEF Title
    <3>2. NoSettings \in [Setting -> P] /\ <<>> \in Seq(P)
      BY DEF NoSettings
    <3> QED
      BY <1>6, <2>2, <3>1, <3>2 DEF Title, Typed
  <2> QED
    BY <2>1, <2>2
<1>7. ASSUME NEW n \in Setting, SetOption(l, n)
      PROVE  Typed(P)'
  BY <1>7 DEF SetOption, Report, Typed
<1>8. CASE Module(l)
  <2>1. modules' = modules \/ modules' = Append(modules, lnum)
    BY <1>8 DEF Module, Report
  <2>2. modules' \in Seq(P)
    <3>1. modules \in Seq(P)
      BY DEF Typed
    <3> QED
      BY <2>1, <3>1
  <2> QED
    BY <1>8, <2>2 DEF Module, Report, Typed
<1>9. CASE Kmod(l)
  <2>1. kmods' = kmods \/ kmods' = Append(kmods, lnum)
    BY <1>9 DEF Kmod, Report
  <2>2. kmods' \in Seq(P)
    <3>1. kmods \in Seq(P)
      BY DEF Typed
    <3> QED
      BY <2>1, <3>1
  <2> QED
    BY <1>9, <2>2 DEF Kmod, Report, Typed
<1> QED
  BY <1>1, <1>2, <1>3, <1>4, <1>5, <1>6, <1>7, <1>8, <1>9

LEMMA ConfTypeStep == ConfTypeOK /\ [ConfNext]_confVars => ConfTypeOK'
<1> SUFFICES ASSUME ConfTypeOK, [ConfNext]_confVars PROVE ConfTypeOK'
  OBVIOUS
<1>1. PICK n \in Nat : n = Len(file)
  BY DEF ConfTypeOK
<1>2. Typed(0 .. n) /\ file \in Seq(Line)
  BY <1>1 DEF ConfTypeOK, Typed, LineNo
<1>3. CASE EndOfFile
  <2>1. UNCHANGED <<file, block, kmods, timeout, grub>> /\ at' = "done"
    BY <1>3 DEF EndOfFile
  <2>2. /\ targets' \in Seq([title : 0 .. n, set : [Setting -> 0 .. n],
                             modules : Seq(0 .. n)])
        /\ reported' \subseteq 0 .. n
    BY <1>2, <1>3, AddTyped DEF EndOfFile
  <2>3. Typed(0 .. n)'
    BY <1>2, <2>1, <2>2 DEF Typed, block, grub
  <2> QED
    BY <1>1, <1>2, <2>1, <2>3 DEF ConfTypeOK, Typed, LineNo
<1>4. ASSUME NEW l \in Line,
             \/ Blank(l) \/ Unknown(l)
             \/ Timeout(l) \/ GrubPath(l) \/ GrubMap(l) \/ GrubAutodetect(l)
             \/ Title(l)
             \/ \E m \in Setting : SetOption(l, m)
             \/ Module(l) \/ Kmod(l)
      PROVE  ConfTypeOK'
  <2>1. file' = Append(file, l)
    BY <1>4 DEF Blank, Unknown, Timeout, GrubPath, GrubMap, GrubAutodetect,
                Title, SetOption, Module, Kmod, NextLine
  <2>2. Len(file') = n + 1 /\ file' \in Seq(Line)
    BY <1>1, <1>2, <2>1
  <2>3. lnum \in 0 .. n + 1 /\ 0 .. n \subseteq 0 .. n + 1
    BY <1>1 DEF lnum
  <2>4. Typed(0 .. n + 1)
    BY <1>2, <2>3, TypedWider
  <2>5. Typed(0 .. n + 1)'
    BY <1>4, <2>3, <2>4, LineTyped
  <2> QED
    BY <2>2, <2>5 DEF ConfTypeOK, Typed, LineNo
<1>5. CASE Returned \/ UNCHANGED confVars
  BY <1>5 DEF Returned, confVars, block, grub, ConfTypeOK, LineNo
<1> QED
  BY <1>3, <1>4, <1>5 DEF ConfNext

\* Type correctness of load_conf(), for any file.
THEOREM ConfTypeCorrect == ConfSpec => []ConfTypeOK
  BY ConfTypeInit, ConfTypeStep, PTL DEF ConfSpec
-----------------------------------------------------------------------------
(***************************************************************************)
(* No line is lost: what every line read so far came to.                   *)
(***************************************************************************)
\* The lines that belong to the block of a title.
OfBlock == Setting \cup {"module"}

Owned(i) ==
    \E t \in Titles(file) : i \in Given(file, t, file[i].name)

\* A later line of the same name was accepted.
Later(i) ==
    \E j \in DOMAIN file :
        i < j /\ file[j].name = file[i].name /\ j \notin reported

\* What is set is what line i says.
Limits(i) == file[i].words # <<>> /\ timeout = Limit(file[i])

Switches(i) ==
    /\ file[i].words # <<>>
    /\ \/ autodetect = 2 /\ Head(file[i].words) \in AnyOn
       \/ autodetect = 0 /\ Head(file[i].words) \in AnyOff

\* A line that is not blank was reported, or is kept: as it is, or by a later
\* line, or in its block.
Kept(i) ==
    /\ file[i].name = "unknown" => i \in reported
    /\ file[i].name = "timeout" => i \in reported \/ Limits(i) \/ Later(i)
    /\ file[i].name = "grub-autodetect" =>
         i \in reported \/ Switches(i) \/ Later(i)
    /\ file[i].name = "grub-path" => i \in reported \/ i <= grub_path
    /\ file[i].name = "grub-map" =>
         i \in reported \/ \E k \in DOMAIN devmap : devmap[k] = i
    /\ file[i].name = "kmod" =>
         i \in reported \/ \E k \in DOMAIN kmods : kmods[k] = i
    /\ file[i].name = "title" =>
         \/ i \in reported
         \/ at = "read" /\ i = topen
         \/ \E k \in DOMAIN targets : targets[k].title = i
    /\ file[i].name \in OfBlock => (i \notin reported <=> Owned(i))

\* The line that grub_path is from was not reported.
PathKept ==
    grub_path # 0 =>
        /\ grub_path \in DOMAIN file
        /\ file[grub_path].name = "grub-path"
        /\ grub_path \notin reported

\* What is proved above.
ReadOK == ConfTypeOK /\ BlocksOK

AllKept ==
    /\ ReadOK
    /\ PathKept
    /\ \A i \in DOMAIN file : Kept(i)

LEMMA KeptInit == ConfInit => AllKept
<1> SUFFICES ASSUME ConfInit PROVE AllKept
  OBVIOUS
<1>1. DOMAIN file = {} /\ grub_path = 0
  BY DEF ConfInit
<1> QED
  BY <1>1, ConfTypeInit, BlocksInit DEF AllKept, ReadOK, PathKept

\* What is known while the file is read.
LEMMA WhileRead ==
    ASSUME AllKept
    PROVE  /\ file \in Seq(LineShape) /\ Len(file) \in Nat
           /\ DOMAIN file = 1 .. Len(file) /\ lnum = Len(file) + 1
           /\ reported \subseteq 0 .. Len(file)
           /\ lnum \notin reported
           /\ grub_path \in 0 .. Len(file)
           /\ topen \in 0 .. Len(file)
           /\ topen # 0 => topen \in Titles(file) /\ file[topen].name = "title"
<1>1. file \in Seq(LineShape) /\ Len(file) \in Nat
  BY DEF AllKept, ReadOK, BlocksOK, Shapes
<1>2. /\ reported \subseteq 0 .. Len(file) /\ grub_path \in 0 .. Len(file)
      /\ topen \in 0 .. Len(file)
  BY DEF AllKept, ReadOK, ConfTypeOK, LineNo
<1>3. topen # 0 => topen \in Titles(file)
  BY DEF AllKept, ReadOK, BlocksOK, OpenOK, BlockRead
<1>4. topen # 0 => file[topen].name = "title"
  BY <1>3 DEF Titles
<1> QED
  BY <1>1, <1>2, <1>3, <1>4 DEF lnum

\* The lines before the new one have the titles they had.
LEMMA OwnedStays ==
    ASSUME AllKept, NEW l \in LineShape, file' = Append(file, l),
           NEW i \in DOMAIN file, file[i].name \in OfBlock
    PROVE  Owned(i)' <=> Owned(i)
<1>1. /\ file \in Seq(LineShape) /\ Len(file) \in Nat /\ i \in 1 .. Len(file)
      /\ file'[i] = file[i]
  BY WhileRead, AppendLine
<1> DEFINE n == file[i].name
<1>2. /\ Titles(file) \subseteq Titles(file')
      /\ Titles(file') \subseteq Titles(file) \cup {Len(file) + 1}
  BY <1>1, AppendTitles
<1>3. i \notin Given(file', Len(file) + 1, n)
  BY <1>1 DEF Given, BlockOf
<1>4. ASSUME NEW t \in Titles(file)
      PROVE  i \in Given(file', t, n) <=> i \in Given(file, t, n)
  <2>1. Given(file', t, n) =
          Given(file, t, n) \cup
            IF Gives(l, n) /\ Newest(file, t) THEN {Len(file) + 1} ELSE {}
    BY <1>1, AppendGiven DEF OfBlock
  <2> QED
    BY <1>1, <2>1
<1> QED
  BY <1>1, <1>2, <1>3, <1>4 DEF Owned

LEMMA AppendKeeps ==
    ASSUME NEW S, NEW s \in Seq(S), NEW m, NEW k \in DOMAIN s
    PROVE  k \in DOMAIN Append(s, m) /\ Append(s, m)[k] = s[k]
  OBVIOUS

\* A line that was accepted stays so, and a line of the same name is later.
LEMMA LaterStays ==
    ASSUME AllKept, NEW l \in LineShape, file' = Append(file, l),
           reported' \subseteq reported \cup {lnum, topen},
           NEW i \in DOMAIN file, file[i].name # "title", Later(i)
    PROVE  Later(i)'
<1>1. /\ Len(file) \in Nat /\ lnum = Len(file) + 1
      /\ DOMAIN file = 1 .. Len(file)
      /\ topen # 0 => file[topen].name = "title"
      /\ DOMAIN file' = 1 .. Len(file) + 1
      /\ \A k \in 1 .. Len(file) : file'[k] = file[k]
  BY WhileRead, AppendLine
<1>2. PICK j \in DOMAIN file :
        i < j /\ file[j].name = file[i].name /\ j \notin reported
  BY DEF Later
<1>3. j # lnum /\ j # topen
  BY <1>1, <1>2
<1> QED
  BY <1>1, <1>2, <1>3 DEF Later

LEMMA LaterNow ==
    ASSUME AllKept, NEW l \in LineShape, file' = Append(file, l),
           UNCHANGED reported,
           NEW i \in DOMAIN file, file[i].name = l.name
    PROVE  Later(i)'
<1>1. /\ Len(file) \in Nat /\ lnum = Len(file) + 1 /\ lnum \notin reported
      /\ DOMAIN file = 1 .. Len(file)
      /\ DOMAIN file' = 1 .. Len(file) + 1
      /\ \A k \in 1 .. Len(file) : file'[k] = file[k]
      /\ file'[Len(file) + 1] = l
  BY WhileRead, AppendLine
<1>2. PICK j : j = Len(file) + 1
  OBVIOUS
<1> QED
  BY <1>1, <1>2 DEF Later

\* What a line may do to those before it.
LEMMA OlderKept ==
    ASSUME AllKept, NEW l \in LineShape, at = "read", at' = "read",
           file' = Append(file, l),
           reported \subseteq reported',
           reported' \subseteq reported \cup {lnum, topen},
           grub_path' \in {grub_path, lnum},
           \/ timeout' = timeout
           \/ l.name = "timeout" /\ UNCHANGED reported,
           \/ autodetect' = autodetect
           \/ l.name = "grub-autodetect" /\ UNCHANGED reported,
           devmap' \in {devmap, Append(devmap, lnum)},
           kmods' \in {kmods, Append(kmods, lnum)},
           \A k \in DOMAIN targets :
              k \in DOMAIN targets' /\ targets'[k] = targets[k],
           topen' = topen \/ topen = 0 \/ topen \in reported'
             \/ \E k \in DOMAIN targets' : targets'[k].title = topen
    PROVE  \A i \in DOMAIN file : Kept(i)'
<1> SUFFICES ASSUME NEW i \in DOMAIN file PROVE Kept(i)'
  OBVIOUS
<1>1. /\ Kept(i) /\ i \in 1 .. Len(file) /\ i # lnum /\ file'[i] = file[i]
      /\ Len(file) \in Nat /\ lnum = Len(file) + 1
      /\ grub_path \in 0 .. Len(file)
  BY WhileRead, AppendLine DEF AllKept
<1>2. devmap \in Seq(LineNo) /\ kmods \in Seq(LineNo)
  BY DEF AllKept, ReadOK, ConfTypeOK
<1>3. (\E k \in DOMAIN devmap : devmap[k] = i) =>
        \E k \in DOMAIN devmap' : devmap'[k] = i
  <2>1. CASE devmap' = devmap
    BY <2>1
  <2>2. CASE devmap' = Append(devmap, lnum)
    BY <1>2, <2>2, AppendKeeps
  <2> QED
    BY <2>1, <2>2
<1>4. (\E k \in DOMAIN kmods : kmods[k] = i) =>
        \E k \in DOMAIN kmods' : kmods'[k] = i
  <2>1. CASE kmods' = kmods
    BY <2>1
  <2>2. CASE kmods' = Append(kmods, lnum)
    BY <1>2, <2>2, AppendKeeps
  <2> QED
    BY <2>1, <2>2
<1>5. file[i].name # "title" => (i \in reported' <=> i \in reported)
  BY <1>1, WhileRead
<1>6. file[i].name \in OfBlock => file[i].name # "title"
  BY DEF OfBlock, Setting, Option, Flag
<1>7. file[i].name = "grub-path" => i \in reported' \/ i <= grub_path'
  BY <1>1 DEF Kept
<1>8. file[i].name = "title" =>
        \/ i \in reported'
        \/ i = topen'
        \/ \E k \in DOMAIN targets' : targets'[k].title = i
  BY <1>1 DEF Kept
<1>9. file[i].name \in OfBlock => (i \notin reported' <=> Owned(i)')
  BY <1>1, <1>5, <1>6, OwnedStays DEF Kept
<1>10. file[i].name # "title" /\ Later(i) => Later(i)'
  BY LaterStays
<1>11. l.name = file[i].name /\ UNCHANGED reported => Later(i)'
  BY LaterNow
<1>12. file[i].name = "timeout" =>
         i \in reported' \/ Limits(i)' \/ Later(i)'
  <2>1. CASE timeout' = timeout
    BY <1>1, <1>10, <2>1 DEF Kept, Limits, Limit
  <2>2. CASE l.name = "timeout" /\ UNCHANGED reported
    BY <1>11, <2>2
  <2> QED
    BY <2>1, <2>2
<1>13. file[i].name = "grub-autodetect" =>
         i \in reported' \/ Switches(i)' \/ Later(i)'
  <2>1. CASE autodetect' = autodetect
    BY <1>1, <1>10, <2>1 DEF Kept, Switches
  <2>2. CASE l.name = "grub-autodetect" /\ UNCHANGED reported
    BY <1>11, <2>2
  <2> QED
    BY <2>1, <2>2
<1> QED
  BY <1>1, <1>3, <1>4, <1>7, <1>8, <1>9, <1>12, <1>13 DEF Kept

LEMMA PathStays ==
    ASSUME AllKept, NEW l \in LineShape, file' = Append(file, l),
           reported' \subseteq reported \cup {lnum, topen},
           \/ grub_path' = grub_path
           \/ grub_path' = lnum /\ l.name = "grub-path"
                                /\ UNCHANGED reported
    PROVE  PathKept'
<1>1. /\ file \in Seq(LineShape) /\ Len(file) \in Nat /\ lnum = Len(file) + 1
      /\ lnum \notin reported /\ DOMAIN file = 1 .. Len(file)
      /\ topen # 0 => file[topen].name = "title"
      /\ PathKept
  BY WhileRead DEF AllKept
<1>2. /\ DOMAIN file' = 1 .. Len(file) + 1
      /\ \A i \in 1 .. Len(file) : file'[i] = file[i]
      /\ file'[Len(file) + 1] = l
  BY <1>1, AppendLine
<1>3. CASE grub_path' = grub_path
  BY <1>1, <1>2, <1>3 DEF PathKept
<1>4. CASE grub_path' = lnum /\ l.name = "grub-path" /\ UNCHANGED reported
  BY <1>1, <1>2, <1>4 DEF PathKept
<1> QED
  BY <1>3, <1>4

\* A line of a block that is not reported is one of the newest block.
LEMMA LastIsThere ==
    ASSUME NEW S, NEW s \in Seq(S), NEW m
    PROVE  \E k \in DOMAIN Append(s, m) : Append(s, m)[k] = m
  BY Len(s) + 1 \in DOMAIN Append(s, m)

LEMMA OwnedNow ==
    ASSUME AllKept, NEW l \in LineShape, file' = Append(file, l),
           l.name \in OfBlock, NEW m \in Nat, m = lnum
    PROVE  Owned(m)' <=> topen # 0 /\ Gives(l, l.name)
<1>1. /\ file \in Seq(LineShape) /\ Len(file) \in Nat /\ m = Len(file) + 1
      /\ file'[m] = l
  BY WhileRead, AppendLine
<1> DEFINE n == l.name
<1>2. ~IsTitle(l)
  BY DEF IsTitle, OfBlock, Setting, Option, Flag
<1>3. Titles(file') = Titles(file)
  BY <1>1, <1>2, AppendTitles
<1>4. ASSUME NEW t \in Titles(file)
      PROVE  m \in Given(file', t, n) <=> Gives(l, n) /\ Newest(file, t)
  <2>1. Given(file', t, n) =
          Given(file, t, n) \cup
            IF Gives(l, n) /\ Newest(file, t) THEN {Len(file) + 1} ELSE {}
    BY <1>1, AppendGiven DEF OfBlock
  <2>2. Given(file, t, n) \subseteq 1 .. Len(file)
    BY <1>1, AppendLine DEF Given, BlockOf
  <2> QED
    BY <1>1, <2>1, <2>2
<1>5. IF topen = 0 THEN Titles(file) = {}
        ELSE topen \in Titles(file) /\ Newest(file, topen)
  BY DEF AllKept, ReadOK, BlocksOK, OpenOK, BlockRead
<1>6. (\E t \in Titles(file) : m \in Given(file', t, n)) <=>
        topen # 0 /\ Gives(l, n)
  BY <1>4, <1>5
<1>7. Owned(m)' <=> \E t \in Titles(file) : m \in Given(file', t, n)
  BY <1>1, <1>3 DEF Owned
<1> QED
  BY <1>6, <1>7

\* What the line that has been read came to, when it is m.
LEMMA NewKept ==
    ASSUME AllKept, NEW l \in Line, file' = Append(file, l),
           NEW m \in Nat, m = lnum,
           \/ Blank(l) \/ Unknown(l)
           \/ Timeout(l) \/ GrubPath(l) \/ GrubMap(l) \/ GrubAutodetect(l)
           \/ Title(l)
           \/ \E n \in Setting : SetOption(l, n)
           \/ Module(l) \/ Kmod(l)
    PROVE  Kept(m)'
<1>1. /\ l \in LineShape /\ l.words \in Seq(DOMAIN Atoi)
      /\ HasArgs(l.words, 1) <=> l.words # <<>>
  <2>1. l \in LineShape /\ l.words \in Seq(DOMAIN Atoi)
    BY LineAssumption DEF LineShape
  <2> QED
    BY <2>1 DEF HasArgs
<1>2. /\ file'[m] = l /\ m \notin reported /\ m # 0
      /\ m = Len(file) + 1 /\ Len(file) \in Nat
  BY <1>1, WhileRead, AppendLine
<1>3. l.name \in OfBlock =>
        (Owned(m)' <=> topen # 0 /\ Gives(l, l.name))
  BY <1>1, OwnedNow
<1> USE DEF NextLine
<1>4. Report => m \in reported'
  BY DEF Report
<1>5. CASE Timeout(l)
  <2>1. /\ l.name = "timeout"
        /\ m \in reported' \/ (l.words # <<>> /\ timeout' = Limit(l))
    BY <1>1, <1>4, <1>5 DEF Timeout
  <2>2. l.words # <<>> /\ timeout' = Limit(l) => Limits(m)'
    BY <1>2 DEF Limits, Limit
  <2> QED
    BY <1>2, <2>1, <2>2 DEF Kept, OfBlock, Setting, Option, Flag
<1>6. CASE GrubAutodetect(l)
  <2>1. /\ l.name = "grub-autodetect"
        /\ \/ m \in reported'
           \/ /\ l.words # <<>> /\ Head(l.words) \in AnyOn \cup AnyOff
              /\ autodetect' = IF Head(l.words) \in AnyOn THEN 2 ELSE 0
    BY <1>1, <1>4, <1>6 DEF GrubAutodetect
  <2>2. m \in reported' \/ Switches(m)'
    BY <1>2, <2>1 DEF Switches
  <2> QED
    BY <1>2, <2>1, <2>2 DEF Kept, OfBlock, Setting, Option, Flag
<1>15. CASE Blank(l)
  <2>1. l.name = "blank"
    BY <1>15 DEF Blank
  <2> QED
    BY <1>2, <2>1 DEF Kept, OfBlock, Setting, Option, Flag
<1>7. CASE Unknown(l)
  BY <1>2, <1>4, <1>7 DEF Unknown, Kept, OfBlock, Setting, Option, Flag
<1>8. CASE GrubPath(l)
  <2>1. l.name = "grub-path" /\ (m \in reported' \/ grub_path' = m)
    BY <1>4, <1>8 DEF GrubPath
  <2> QED
    BY <1>2, <2>1 DEF Kept, OfBlock, Setting, Option, Flag
<1>9. CASE GrubMap(l)
  <2>1. /\ l.name = "grub-map"
        /\ m \in reported' \/ devmap' = Append(devmap, m)
    BY <1>4, <1>9 DEF GrubMap
  <2>2. devmap' = Append(devmap, m) => \E k \in DOMAIN devmap' : devmap'[k] = m
    BY LastIsThere DEF AllKept, ReadOK, ConfTypeOK
  <2> QED
    BY <1>2, <2>1, <2>2 DEF Kept, OfBlock, Setting, Option, Flag
<1>10. CASE Kmod(l)
  <2>1. /\ l.name = "kmod"
        /\ m \in reported' \/ kmods' = Append(kmods, m)
    BY <1>4, <1>10 DEF Kmod
  <2>2. kmods' = Append(kmods, m) => \E k \in DOMAIN kmods' : kmods'[k] = m
    BY LastIsThere DEF AllKept, ReadOK, ConfTypeOK
  <2> QED
    BY <1>2, <2>1, <2>2 DEF Kept, OfBlock, Setting, Option, Flag
<1>11. CASE Title(l)
  <2>1. /\ l.name = "title" /\ at' = "read"
        /\ m \in reported' \/ topen' = m
    BY <1>4, <1>11 DEF Title
  <2> QED
    BY <1>2, <2>1 DEF Kept, OfBlock, Setting, Option, Flag
<1>12. ASSUME l.name \in OfBlock,
              IF topen # 0 /\ Gives(l, l.name) THEN UNCHANGED reported
                ELSE Report
       PROVE  Kept(m)'
  <2>1. l.name \notin {"unknown", "timeout", "grub-path", "grub-map",
                     "grub-autodetect", "kmod", "title"}
    BY <1>12 DEF OfBlock, Setting, Option, Flag
  <2>2. m \notin reported' <=> Owned(m)'
    BY <1>2, <1>3, <1>4, <1>12
  <2> QED
    BY <1>2, <2>1, <2>2 DEF Kept
<1>13. ASSUME NEW n \in Setting, SetOption(l, n)
       PROVE  Kept(m)'
  <2>1. l.name = n /\ n \in OfBlock
    BY <1>13 DEF SetOption, OfBlock
  <2>2. n \in Option <=> n \notin Flag
    BY DEF Setting, Option, Flag
  <2>3. Gives(l, n) <=> ~(n \in Option /\ ~HasArgs(l.words, 1))
    BY <1>1, <2>1, <2>2 DEF Gives
  <2>4. IF topen # 0 /\ Gives(l, n) THEN UNCHANGED reported ELSE Report
    BY <1>13, <2>3 DEF SetOption
  <2> QED
    BY <1>12, <2>1, <2>4
<1>14. CASE Module(l)
  <2>1. l.name = "module" /\ "module" \in OfBlock /\ "module" \notin Flag
    BY <1>14 DEF Module, OfBlock, Flag
  <2>2. IF topen # 0 /\ Gives(l, "module") THEN UNCHANGED reported ELSE Report
    BY <1>1, <1>14, <2>1 DEF Module, Gives
  <2> QED
    BY <1>12, <2>1, <2>2
<1> QED
  BY <1>5, <1>6, <1>7, <1>8, <1>9, <1>10, <1>11, <1>13, <1>14, <1>15

\* A title with a text leaves the block before it behind.
LEMMA BlockLeft ==
    ASSUME AllKept, topen # 0, AddTarget
    PROVE  /\ reported' \in {reported, reported \cup {topen}}
           /\ \A k \in DOMAIN targets :
                k \in DOMAIN targets' /\ targets'[k] = targets[k]
           /\ \/ topen \in reported'
              \/ \E k \in DOMAIN targets' : targets'[k].title = topen
<1> DEFINE new == [title |-> topen, set |-> set, modules |-> modules]
<1>1. targets \in Seq(Target) /\ new.title = topen
  BY DEF AllKept, ReadOK, BlocksOK, Shapes
<1> HIDE DEF new
<1>2. CASE set["root"] = 0 \/ set["kernel"] = 0
  BY <1>2 DEF AddTarget
<1>3. CASE ~(set["root"] = 0 \/ set["kernel"] = 0)
  <2>1. targets' = Append(targets, new) /\ UNCHANGED reported
    BY <1>3 DEF AddTarget, new
  <2>2. /\ \A k \in DOMAIN targets :
             k \in DOMAIN targets' /\ targets'[k] = targets[k]
        /\ Len(targets) + 1 \in DOMAIN targets'
        /\ targets'[Len(targets) + 1] = new
    BY <1>1, <2>1
  <2> QED
    BY <1>1, <2>1, <2>2
<1> QED
  BY <1>2, <1>3

LEMMA LineKept ==
    ASSUME AllKept, ReadOK', NEW l \in Line,
           \/ Blank(l) \/ Unknown(l)
           \/ Timeout(l) \/ GrubPath(l) \/ GrubMap(l) \/ GrubAutodetect(l)
           \/ Title(l)
           \/ \E n \in Setting : SetOption(l, n)
           \/ Module(l) \/ Kmod(l)
    PROVE  AllKept'
<1>1. /\ at = "read" /\ at' = "read" /\ file' = Append(file, l)
      /\ l \in LineShape
  BY LineAssumption DEF Blank, Unknown, Timeout, GrubPath, GrubMap,
        GrubAutodetect, Title, SetOption, Module, Kmod, NextLine
<1>2. /\ reported \subseteq reported'
      /\ reported' \subseteq reported \cup {lnum, topen}
      /\ \/ grub_path' = grub_path
         \/ grub_path' = lnum /\ l.name = "grub-path" /\ UNCHANGED reported
      /\ \/ timeout' = timeout
         \/ l.name = "timeout" /\ UNCHANGED reported
      /\ \/ autodetect' = autodetect
         \/ l.name = "grub-autodetect" /\ UNCHANGED reported
      /\ devmap' \in {devmap, Append(devmap, lnum)}
      /\ kmods' \in {kmods, Append(kmods, lnum)}
      /\ \A k \in DOMAIN targets :
            k \in DOMAIN targets' /\ targets'[k] = targets[k]
      /\ topen' = topen \/ topen = 0 \/ topen \in reported'
           \/ \E k \in DOMAIN targets' : targets'[k].title = topen
  <2> USE DEF Report, block, grub
  <2>1. CASE Title(l)
    <3>1. CASE HasArgs(l.words, 1) /\ topen # 0
      BY <2>1, <3>1, BlockLeft DEF Title
    <3>2. CASE ~(HasArgs(l.words, 1) /\ topen # 0)
      BY <2>1, <3>2 DEF Title
    <3> QED
      BY <3>1, <3>2
  <2>2. CASE Blank(l) \/ Unknown(l) \/ Timeout(l) \/ GrubAutodetect(l)
    BY <2>2 DEF Blank, Unknown, Timeout, GrubAutodetect, NextLine
  <2>3. CASE GrubPath(l) \/ GrubMap(l) \/ Kmod(l)
    BY <2>3 DEF GrubPath, GrubMap, Kmod, NextLine
  <2>4. CASE Module(l) \/ \E n \in Setting : SetOption(l, n)
    BY <2>4 DEF Module, SetOption
  <2> QED
    BY <2>1, <2>2, <2>3, <2>4
<1>3. PathKept'
  BY <1>1, <1>2, PathStays
<1>4. \A i \in DOMAIN file : Kept(i)'
  BY <1>1, <1>2, OlderKept
<1>5. PICK m \in Nat : m = lnum
  BY WhileRead
<1>6. Kept(m)'
  BY <1>1, <1>5, NewKept
<1>7. DOMAIN file' = DOMAIN file \cup {m}
  BY <1>1, <1>5, WhileRead, AppendLine
<1> QED
  BY <1>3, <1>4, <1>6, <1>7 DEF AllKept, ReadOK

LEMMA EndKept ==
    ASSUME AllKept, ReadOK', EndOfFile
    PROVE  AllKept'
<1>1. /\ file' = file /\ topen' = topen /\ at' = "done"
      /\ UNCHANGED <<kmods, grub_path, devmap, timeout, autodetect>>
  BY DEF EndOfFile, block, grub
<1>2. /\ reported' \in {reported, reported \cup {topen}}
      /\ topen = 0 => UNCHANGED reported
      /\ \A k \in DOMAIN targets :
            k \in DOMAIN targets' /\ targets'[k] = targets[k]
      /\ \/ topen = 0 \/ topen \in reported'
         \/ \E k \in DOMAIN targets' : targets'[k].title = topen
  <2>1. CASE topen # 0
    BY <2>1, BlockLeft DEF EndOfFile
  <2>2. CASE topen = 0
    BY <2>2 DEF EndOfFile
  <2> QED
    BY <2>1, <2>2
<1>3. PathKept'
  BY <1>1, <1>2, WhileRead DEF AllKept, PathKept
<1>4. ASSUME NEW i \in DOMAIN file
      PROVE  Kept(i)'
  <2>1. Kept(i) /\ i # 0
    BY <1>4, WhileRead DEF AllKept
  <2>2. file[i].name # "title" => (i \in reported' <=> i \in reported)
    BY <1>2, WhileRead
  <2>3. Owned(i)' <=> Owned(i)
    BY <1>1 DEF Owned
  <2>4. file[i].name \in OfBlock => file[i].name # "title"
    BY DEF OfBlock, Setting, Option, Flag
  <2>5. file[i].name = "title" =>
          \/ i \in reported'
          \/ \E k \in DOMAIN targets' : targets'[k].title = i
    BY <1>2, <2>1 DEF Kept
  <2>6. file[i].name # "title" /\ Later(i) => Later(i)'
    <3>1. \A j \in DOMAIN file : file[j].name # "title" =>
            (j \in reported' <=> j \in reported)
      BY <1>2, WhileRead
    <3> QED
      BY <1>1, <3>1 DEF Later
  <2>7. (Limits(i)' <=> Limits(i)) /\ (Switches(i)' <=> Switches(i))
    BY <1>1 DEF Limits, Limit, Switches
  <2> QED
    BY <1>1, <1>2, <2>1, <2>2, <2>3, <2>4, <2>5, <2>6, <2>7 DEF Kept
<1> QED
  BY <1>1, <1>3, <1>4 DEF AllKept, ReadOK

LEMMA KeptStep == AllKept /\ [ConfNext]_confVars => AllKept'
<1> SUFFICES ASSUME AllKept, [ConfNext]_confVars PROVE AllKept'
  OBVIOUS
<1>1. ReadOK'
  BY ConfTypeStep, BlocksStep DEF AllKept, ReadOK
<1>2. CASE EndOfFile
  BY <1>1, <1>2, EndKept
<1>3. CASE Returned \/ UNCHANGED confVars
  BY <1>1, <1>3 DEF Returned, confVars, block, grub, AllKept, ReadOK,
                    PathKept, Kept, Owned, Later, Limits, Limit, Switches
<1> QED
  BY <1>1, <1>2, <1>3, LineKept DEF ConfNext

\* At the end of the file, a line that was kept is in effect, or a later one
\* of its name is.
LEMMA KeptIsHeard == AllKept => NoSilentLine
<1> SUFFICES ASSUME AllKept, at = "done", NEW i \in DOMAIN file,
                    file[i].name # "blank", i \notin reported
             PROVE  \/ i \in Effective
                    \/ SetAgain(i)
                    \/ /\ file[i].name \in Setting \cup {"module"}
                       /\ \E t \in Titles(file) \cap reported :
                            i \in BlockOf(file, t)
  BY DEF NoSilentLine
<1>1. /\ Kept(i) /\ file \in Seq(LineShape) /\ DOMAIN file = 1 .. Len(file)
      /\ Len(file) \in Nat /\ grub_path \in 0 .. Len(file) /\ PathKept
  BY WhileRead DEF AllKept
<1>2. file[i].name \in Directive \cup {"unknown"}
  <2>1. file[i] \in LineShape
    BY <1>1
  <2> QED
    BY <2>1 DEF LineShape
<1>3. CASE file[i].name \in {"grub-map", "kmod", "unknown", "title"}
  BY <1>1, <1>3 DEF Kept, Effective
<1>6. CASE file[i].name = "timeout"
  BY <1>1, <1>6 DEF Kept, Limits, Later, Effective, SetAgain
<1>7. CASE file[i].name = "grub-autodetect"
  BY <1>1, <1>7 DEF Kept, Switches, Later, Effective, SetAgain
<1>4. CASE file[i].name = "grub-path"
  <2>1. i <= grub_path /\ grub_path # 0
    BY <1>1, <1>4 DEF Kept
  <2>2. CASE i = grub_path
    BY <2>2 DEF Effective
  <2>3. CASE i # grub_path
    <3>1. i < grub_path
      BY <1>1, <2>1, <2>3
    <3> QED
      BY <1>1, <1>4, <2>1, <3>1 DEF PathKept, SetAgain
  <2> QED
    BY <2>2, <2>3
<1>5. CASE file[i].name \in OfBlock
  <2> DEFINE n == file[i].name
  <2>1. PICK t \in Titles(file) : i \in Given(file, t, n)
    BY <1>1, <1>5 DEF Kept, Owned
  <2>2. i \in BlockOf(file, t) /\ t \in DOMAIN file /\ file[t].name = "title"
    BY <2>1 DEF Given, Titles
  <2>3. CASE t \in reported
    BY <1>5, <2>2, <2>3 DEF OfBlock
  <2>4. CASE t \notin reported
    <3>1. PICK k \in DOMAIN targets : targets[k].title = t
      <4>1. Kept(t)
        BY <2>2 DEF AllKept
      <4> QED
        BY <2>2, <2>4, <4>1 DEF Kept
    <3>2. BlockRead(file, t, targets[k].set, targets[k].modules)
      BY <3>1 DEF AllKept, ReadOK, BlocksOK, ClosedOK
    <3>3. CASE n = "module"
      <4>1. i \in {targets[k].modules[x] : x \in DOMAIN targets[k].modules}
        BY <2>1, <3>2, <3>3 DEF BlockRead, IsListOf
      <4> QED
        BY <4>1 DEF Effective
    <3>4. CASE n \in Setting
      <4> DEFINE j == targets[k].set[n]
      <4>1. j \in Given(file, t, n) /\ i <= j
        BY <2>1, <3>2, <3>4 DEF BlockRead, IsLast
      <4>2. j \in DOMAIN file /\ file[j].name = n /\ j \in BlockOf(file, t)
        BY <4>1 DEF Given, BlockOf
      <4>3. j \notin reported
        <5>1. Owned(j) /\ Kept(j)
          BY <4>1, <4>2 DEF Owned, AllKept
        <5> QED
          BY <1>5, <4>2, <5>1 DEF Kept
      <4>4. CASE i = j
        BY <3>4, <4>4 DEF Effective
      <4>5. CASE i # j
        <5>1. i < j
          BY <1>1, <4>1, <4>2, <4>5
        <5> QED
          BY <2>2, <3>4, <4>2, <4>3, <5>1 DEF SetAgain
      <4> QED
        BY <4>4, <4>5
    <3> QED
      BY <1>5, <3>3, <3>4 DEF OfBlock
  <2> QED
    BY <2>3, <2>4
<1> QED
  BY <1>2, <1>3, <1>4, <1>5, <1>6, <1>7 DEF Directive, Global, OfBlock

\* No line of the file is lost without a word, for any file.
THEOREM NoLineIsLost == ConfSpec => []NoSilentLine
<1>1. ConfInit => AllKept
  BY KeptInit
<1>2. AllKept /\ [ConfNext]_confVars => AllKept'
  BY KeptStep
<1>3. AllKept => NoSilentLine
  BY KeptIsHeard
<1> QED
  BY <1>1, <1>2, <1>3, PTL DEF ConfSpec
=============================================================================

----------------------------- MODULE GrubProofs -----------------------------
(***************************************************************************)
(* For files of any length, any lines and any devices: types, and that     *)
(* each target is an entry of its file, offered once, with the settings of *)
(* its own lines and the default mark it deserves.                         *)
(*                                                                         *)
(* The kinds of lines are sets here, so that menu.lst and grub.cfg share   *)
(* the lemmas on what one more line does to a file.                        *)
(***************************************************************************)
EXTENDS Grub, FiniteSetTheorems, WellFoundedInduction, TLAPS

-----------------------------------------------------------------------------
(***************************************************************************)
(* Least and greatest numbers.                                             *)
(***************************************************************************)
LEMMA LeastOf ==
    ASSUME NEW S \in SUBSET Nat, S # {}
    PROVE  \E m \in S : \A k \in S : m <= k
<1> DEFINE R == {p \in Nat \X Nat : p[1] < p[2]}
<1>1. IsWellFoundedOn(R, Nat)
  BY NatLessThanWellFounded DEF OpToRel
<1>2. \E m \in S : \A k \in S : <<k, m>> \notin R
  <2> HIDE DEF R
  <2> QED
    BY <1>1, WFMin
<1>3. PICK m \in S : \A k \in S : <<k, m>> \notin R
  BY <1>2
<1>4. ASSUME NEW k \in S PROVE m <= k
  <2>1. k \in Nat /\ m \in Nat
    OBVIOUS
  <2>2. <<k, m>> \notin R
    BY <1>3
  <2>3. ~(k < m)
    BY <2>1, <2>2
  <2> QED
    BY <2>1, <2>3
<1> QED
  BY <1>4

LEMMA GreatestOf ==
    ASSUME NEW n \in Nat, NEW S \in SUBSET (1 .. n), S # {}
    PROVE  \E m \in S : \A k \in S : k <= m
<1> DEFINE D == {n - i : i \in S}
<1>1. D \in SUBSET Nat
  OBVIOUS
<1>2. D # {}
  <2>1. PICK i \in S : TRUE
    OBVIOUS
  <2>2. n - i \in D
    OBVIOUS
  <2> QED
    BY <2>2
<1>3. PICK d \in D : \A e \in D : d <= e
  <2> HIDE DEF D
  <2> QED
    BY <1>1, <1>2, LeastOf
<1>4. PICK m \in S : d = n - m
  OBVIOUS
<1>5. ASSUME NEW k \in S PROVE k <= m
  <2>1. n - k \in D
    OBVIOUS
  <2>2. d <= n - k
    BY <1>3, <2>1
  <2> QED
    BY <1>4, <2>2
<1> QED
  BY <1>5

-----------------------------------------------------------------------------
(***************************************************************************)
(* The lines of a file f that are in a set L, and what one more line does  *)
(* to them.                                                                *)
(***************************************************************************)
Lines(f, L) == {i \in DOMAIN f : f[i] \in L}

\* x is the greatest of S, or 0 if S is empty.
IsLast(x, S) == IF S = {} THEN x = 0 ELSE x \in S /\ \A i \in S : i <= x

\* The last line of S has a value.
Filled(f, S) == \E m \in S : (\A i \in S : i <= m) /\ ~f[m].empty

\* x is the last line of S, or 0 if there is none or it has no value.
HasValue(f, S, x) ==
    \/ S = {} /\ x = 0
    \/ \E m \in S : /\ \A i \in S : i <= m
                    /\ x = IF f[m].empty THEN 0 ELSE m

\* The last line of D above u names u, a title of T.
NamedBy(f, T, D, u) ==
    \E m \in Lines(f, D) :
        /\ m < u
        /\ \A i \in Lines(f, D) : i < u => i <= m
        /\ IF f[m].num # NoTitle
             THEN f[m].num = Cardinality({t \in Lines(f, T) : t < u})
             ELSE f[m].text # NoTitle /\ f[m].text = f[u].text

\* d is what the last line of D sets the default to.
DefaultIs(f, D, d) ==
    \/ Lines(f, D) = {} /\ d = NoDefault
    \/ \E m \in Lines(f, D) :
        /\ \A i \in Lines(f, D) : i <= m
        /\ d = IF f[m].num # NoTitle
                 THEN [num |-> f[m].num, text |-> NoTitle]
                 ELSE [num |-> -1, text |-> f[m].text]

TitlesOf(ts) == [k \in DOMAIN ts |-> ts[k].title]

Target == [title : Nat, set : [Setting -> Nat], modules : Seq(Nat),
           default : BOOLEAN]

\* The variables of the entry that is open, and the targets.
Shapes ==
    /\ topen \in Nat /\ skip \in BOOLEAN /\ flag \in BOOLEAN
    /\ set \in [Setting -> Nat] /\ modules \in Seq(Nat)
    /\ targets \in Seq(Target)

LEMMA AppendLine ==
    ASSUME NEW S, NEW f \in Seq(S), NEW l \in S
    PROVE  /\ Len(f) \in Nat
           /\ DOMAIN f = 1 .. Len(f)
           /\ Append(f, l) \in Seq(S)
           /\ DOMAIN Append(f, l) = 1 .. Len(f) + 1
           /\ Len(Append(f, l)) = Len(f) + 1
           /\ \A i \in 1 .. Len(f) : Append(f, l)[i] = f[i]
           /\ Append(f, l)[Len(f) + 1] = l
  OBVIOUS

LEMMA AppendLines ==
    ASSUME NEW S, NEW f \in Seq(S), NEW l \in S, NEW L
    PROVE  /\ Lines(f, L) \subseteq 1 .. Len(f)
           /\ Lines(Append(f, l), L) =
                IF l \in L THEN Lines(f, L) \cup {Len(f) + 1} ELSE Lines(f, L)
<1> DEFINE g == Append(f, l)
<1>1. ASSUME NEW i
      PROVE  i \in Lines(g, L) <=>
               i \in Lines(f, L) \/ (l \in L /\ i = Len(f) + 1)
  <2>1. CASE i \in 1 .. Len(f)
    BY <2>1, AppendLine DEF Lines
  <2>2. CASE i = Len(f) + 1
    BY <2>2, AppendLine DEF Lines
  <2>3. CASE i \notin 1 .. Len(f) + 1
    BY <2>3, AppendLine DEF Lines
  <2> QED
    BY <2>1, <2>2, <2>3, AppendLine
<1>2. Lines(f, L) \subseteq 1 .. Len(f)
  BY AppendLine DEF Lines
<1>3. Lines(g, L) = Lines(f, L) \cup IF l \in L THEN {Len(f) + 1} ELSE {}
  <2> HIDE DEF g
  <2> QED
    BY <1>1
<1> QED
  BY <1>2, <1>3

LEMMA LinesCounted ==
    ASSUME NEW S, NEW f \in Seq(S), NEW l \in S, NEW L
    PROVE  /\ Cardinality(Lines(f, L)) \in 0 .. Len(f)
           /\ Cardinality(Lines(Append(f, l), L)) =
                IF l \in L THEN Cardinality(Lines(f, L)) + 1
                           ELSE Cardinality(Lines(f, L))
<1>1. /\ IsFiniteSet(1 .. Len(f)) /\ Cardinality(1 .. Len(f)) = Len(f)
      /\ Len(f) \in Nat
  <2>1. Len(f) \in Nat
    BY AppendLine
  <2>2. PICK n \in Nat : n = Len(f)
    BY <2>1
  <2>3. /\ IsFiniteSet(1 .. n)
        /\ Cardinality(1 .. n) = IF 1 > n THEN 0 ELSE n - 1 + 1
    BY FS_Interval
  <2> QED
    BY <2>2, <2>3
<1>2. Lines(f, L) \subseteq 1 .. Len(f)
  BY AppendLines
<1>3. /\ IsFiniteSet(Lines(f, L))
      /\ Cardinality(Lines(f, L)) <= Len(f)
  BY <1>1, <1>2, FS_Subset
<1>4. Cardinality(Lines(f, L)) \in Nat
  BY <1>3, FS_CardinalityType
<1>5. Len(f) + 1 \notin Lines(f, L)
  BY <1>1, <1>2
<1>6. Cardinality(Lines(f, L) \cup {Len(f) + 1}) = Cardinality(Lines(f, L)) + 1
  BY <1>3, <1>5, FS_AddElement
<1>7. Lines(Append(f, l), L) = IF l \in L THEN Lines(f, L) \cup {Len(f) + 1}
                                          ELSE Lines(f, L)
  BY AppendLines
<1> QED
  BY <1>1, <1>3, <1>4, <1>6, <1>7

\* What the lines so far say stays as it is.
LEMMA ValueKept ==
    ASSUME NEW S, NEW f \in Seq(S), NEW l \in S,
           NEW L \in SUBSET (1 .. Len(f)), NEW x
    PROVE  /\ Filled(Append(f, l), L) <=> Filled(f, L)
           /\ HasValue(Append(f, l), L, x) <=> HasValue(f, L, x)
<1>1. \A m \in L : Append(f, l)[m] = f[m]
  BY AppendLine
<1> QED
  BY <1>1 DEF Filled, HasValue

\* A line that is added to those that count gives the value.
LEMMA ValueAdded ==
    ASSUME NEW S, NEW f \in Seq(S), NEW l \in S,
           NEW L \in SUBSET (1 .. Len(f))
    PROVE  HasValue(Append(f, l), L \cup {Len(f) + 1},
                    IF l.empty THEN 0 ELSE Len(f) + 1)
<1>1. \A i \in L \cup {Len(f) + 1} : i <= Len(f) + 1
  BY AppendLine
<1>2. Append(f, l)[Len(f) + 1] = l
  BY AppendLine
<1> QED
  BY <1>1, <1>2 DEF HasValue

LEMMA ValueFilled ==
    ASSUME NEW f, NEW n \in Nat, NEW L \in SUBSET (1 .. n), NEW x,
           HasValue(f, L, x)
    PROVE  x # 0 <=> Filled(f, L)
<1>1. CASE L = {} /\ x = 0
  BY <1>1 DEF Filled
<1>2. ASSUME NEW m \in L, \A i \in L : i <= m,
             x = IF f[m].empty THEN 0 ELSE m
      PROVE  x # 0 <=> Filled(f, L)
  <2>1. x # 0 <=> ~f[m].empty
    BY <1>2
  <2>2. ASSUME NEW k \in L, \A i \in L : i <= k
        PROVE  k = m
    BY <1>2, <2>2
  <2> QED
    BY <1>2, <2>1, <2>2 DEF Filled
<1> QED
  BY <1>1, <1>2 DEF HasValue

LEMMA NamedKept ==
    ASSUME NEW S, NEW f \in Seq(S), NEW l \in S, NEW T, NEW D,
           NEW u \in 1 .. Len(f)
    PROVE  NamedBy(Append(f, l), T, D, u) <=> NamedBy(f, T, D, u)
<1> DEFINE g == Append(f, l)
<1>1. \A L, i : i < u => (i \in Lines(g, L) <=> i \in Lines(f, L))
  BY AppendLines, AppendLine
<1>2. {t \in Lines(g, T) : t < u} = {t \in Lines(f, T) : t < u}
  BY <1>1
<1>3. \A i \in Lines(f, D) \cup {u} : g[i] = f[i]
  BY AppendLines, AppendLine
<1>4. NamedBy(g, T, D, u) <=> NamedBy(f, T, D, u)
  <2> HIDE DEF g
  <2> QED
    BY <1>1, <1>2, <1>3 DEF NamedBy
<1> QED
  BY <1>4

\* A new title is compared with the default so far.
LEMMA NamedNew ==
    ASSUME NEW S, NEW f \in Seq(S), NEW l \in S, NEW T, NEW D, NEW d,
           DefaultIs(f, D, d), l \notin D
    PROVE  NamedBy(Append(f, l), T, D, Len(f) + 1) <=>
             \/ d.num = Cardinality(Lines(f, T))
             \/ d.text # NoTitle /\ d.text = l.text
<1> DEFINE g == Append(f, l)
           u == Len(f) + 1
           n == Cardinality(Lines(f, T))
<1>1. Lines(g, D) = Lines(f, D)
  BY AppendLines
<1>2. \A i \in Lines(f, D) : i \in Nat /\ i < u /\ g[i] = f[i]
  BY AppendLines, AppendLine
<1>3. {t \in Lines(g, T) : t < u} = Lines(f, T)
  BY AppendLines, AppendLine
<1>4. g[u] = l
  BY AppendLine
<1>5. n \in Nat /\ n # -1
  BY LinesCounted
<1> HIDE DEF g, u, n
<1>6. NamedBy(g, T, D, u) <=>
        \E m \in Lines(f, D) :
            /\ \A i \in Lines(f, D) : i <= m
            /\ IF f[m].num # NoTitle
                 THEN f[m].num = n
                 ELSE f[m].text # NoTitle /\ f[m].text = l.text
  BY <1>1, <1>2, <1>3, <1>4 DEF NamedBy, n
<1>7. CASE Lines(f, D) = {} /\ d = NoDefault
  BY <1>5, <1>6, <1>7 DEF NoDefault, g, u, n
<1>8. ASSUME NEW m \in Lines(f, D), \A i \in Lines(f, D) : i <= m,
             d = IF f[m].num # NoTitle
                   THEN [num |-> f[m].num, text |-> NoTitle]
                   ELSE [num |-> -1, text |-> f[m].text]
      PROVE  NamedBy(g, T, D, u) <=>
               d.num = n \/ (d.text # NoTitle /\ d.text = l.text)
  <2>1. \A k \in Lines(f, D) : (\A i \in Lines(f, D) : i <= k) => k = m
    BY <1>2, <1>8
  <2>2. NamedBy(g, T, D, u) <=>
          IF f[m].num # NoTitle
            THEN f[m].num = n
            ELSE f[m].text # NoTitle /\ f[m].text = l.text
    BY <1>6, <1>8, <2>1
  <2> QED
    BY <1>5, <1>8, <2>2
<1> QED
  BY <1>7, <1>8 DEF DefaultIs, g, u, n

LEMMA DefaultKept ==
    ASSUME NEW S, NEW f \in Seq(S), NEW l \in S, NEW D, l \notin D, NEW d,
           DefaultIs(f, D, d)
    PROVE  DefaultIs(Append(f, l), D, d)
<1>1. /\ Lines(Append(f, l), D) = Lines(f, D)
      /\ \A m \in Lines(f, D) : Append(f, l)[m] = f[m]
  BY AppendLines, AppendLine
<1> QED
  BY <1>1 DEF DefaultIs

LEMMA DefaultAdded ==
    ASSUME NEW S, NEW f \in Seq(S), NEW l \in S, NEW D, l \in D
    PROVE  DefaultIs(Append(f, l), D,
                     IF l.num # NoTitle
                       THEN [num |-> l.num, text |-> NoTitle]
                       ELSE [num |-> -1, text |-> l.text])
<1> DEFINE g == Append(f, l)
<1>1. /\ Len(f) + 1 \in Lines(g, D)
      /\ \A i \in Lines(g, D) : i <= Len(f) + 1
      /\ g[Len(f) + 1] = l
  BY AppendLines, AppendLine
<1> HIDE DEF g
<1>2. PICK m \in Lines(g, D) : (\A i \in Lines(g, D) : i <= m) /\ g[m] = l
  BY <1>1
<1>3. DefaultIs(g, D, IF g[m].num # NoTitle
                        THEN [num |-> g[m].num, text |-> NoTitle]
                        ELSE [num |-> -1, text |-> g[m].text])
  BY <1>2 DEF DefaultIs
<1> QED
  BY <1>2, <1>3 DEF g

LEMMA ListAdded ==
    ASSUME NEW m \in Nat, NEW S \in SUBSET Nat, \A x \in S : x < m,
           NEW s \in Seq(Nat), IsListOf(s, S)
    PROVE  IsListOf(Append(s, m), S \cup {m})
<1> DEFINE a == Append(s, m)
<1>1. /\ Len(s) \in Nat /\ DOMAIN s = 1 .. Len(s)
      /\ DOMAIN a = 1 .. Len(s) + 1
      /\ \A k \in 1 .. Len(s) : a[k] = s[k]
      /\ a[Len(s) + 1] = m
  OBVIOUS
<1>2. {a[k] : k \in DOMAIN a} = {s[k] : k \in DOMAIN s} \cup {m}
  BY <1>1
<1>3. \A k \in DOMAIN s : s[k] < m
  BY DEF IsListOf
<1>4. ASSUME NEW j \in DOMAIN a, NEW k \in DOMAIN a, j < k
      PROVE  a[j] < a[k]
  <2>1. j \in 1 .. Len(s)
    BY <1>1, <1>4
  <2>2. CASE k \in 1 .. Len(s)
    BY <1>1, <1>4, <2>1, <2>2 DEF IsListOf
  <2>3. CASE k = Len(s) + 1
    BY <1>1, <1>3, <2>1, <2>3
  <2> QED
    BY <1>1, <2>2, <2>3
<1> QED
  BY <1>2, <1>4 DEF IsListOf

\* A target whose title is below the others is added.
LEMMA TitleAdded ==
    ASSUME NEW ts \in Seq(Target), NEW new \in Target, NEW S \in SUBSET Nat,
           IsListOf(TitlesOf(ts), S), \A x \in S : x < new.title
    PROVE  IsListOf(TitlesOf(Append(ts, new)), S \cup {new.title})
<1>1. /\ Len(ts) \in Nat /\ DOMAIN ts = 1 .. Len(ts)
      /\ DOMAIN Append(ts, new) = 1 .. Len(ts) + 1
      /\ \A k \in 1 .. Len(ts) : Append(ts, new)[k] = ts[k]
      /\ Append(ts, new)[Len(ts) + 1] = new
  BY AppendLine
<1>2. new.title \in Nat
  BY DEF Target
<1>3. TitlesOf(ts) \in Seq(Nat) /\ Len(TitlesOf(ts)) = Len(ts)
  <2>1. \A k \in 1 .. Len(ts) : ts[k] \in Target
    BY <1>1
  <2>2. \A k \in 1 .. Len(ts) : ts[k].title \in Nat
    BY <2>1 DEF Target
  <2> QED
    BY <1>1, <2>2 DEF TitlesOf
<1>4. TitlesOf(Append(ts, new)) = Append(TitlesOf(ts), new.title)
  <2>1. /\ Append(TitlesOf(ts), new.title) \in Seq(Nat)
        /\ Len(Append(TitlesOf(ts), new.title)) = Len(ts) + 1
    BY <1>1, <1>2, <1>3
  <2>2. DOMAIN Append(TitlesOf(ts), new.title) =
          DOMAIN TitlesOf(Append(ts, new))
    BY <1>1, <2>1 DEF TitlesOf
  <2>3. \A k \in 1 .. Len(ts) + 1 :
          TitlesOf(Append(ts, new))[k] = Append(TitlesOf(ts), new.title)[k]
    BY <1>1, <1>2, <1>3 DEF TitlesOf
  <2> QED
    BY <1>1, <2>1, <2>2, <2>3 DEF TitlesOf
<1> QED
  BY <1>2, <1>3, <1>4, ListAdded

-----------------------------------------------------------------------------
(***************************************************************************)
(* menu.lst.                                                               *)
(***************************************************************************)
MTitle == {l \in MenuLine : l.name = "title" /\ ~l.empty}
MDefault == {l \in MenuLine : l.name = "default" /\ ~l.empty}
MSkip == {l \in MenuLine : \/ l.name = "chainloader"
                           \/ l.name = "root" /\ l.empty}

\* The lines that set n, with the devices there are.
Gives == [n \in Setting \cup {"module"} |-> {l \in MenuLine : MenuSets(l, n)}]

\* The lines from title t to the next.
MOwn(f, t) ==
    {i \in DOMAIN f : t < i /\ \A u \in Lines(f, MTitle) : ~(t < u /\ u <= i)}

MGiven(f, G, t, n) == MOwn(f, t) \cap Lines(f, G[n])

MOffered(f, G, t) ==
    /\ Filled(f, MGiven(f, G, t, "root"))
    /\ Filled(f, MGiven(f, G, t, "kernel"))
    /\ MOwn(f, t) \cap Lines(f, MSkip) = {}

\* Settings s, modules ms and mark d are those of the entry of title t.
MRead(f, G, t, s, ms, d) ==
    /\ t \in Lines(f, MTitle)
    /\ \A n \in Setting : HasValue(f, MGiven(f, G, t, n), s[n])
    /\ IsListOf(ms, MGiven(f, G, t, "module"))
    /\ d <=> NamedBy(f, MTitle, MDefault, t)

MOpenOK ==
    /\ IsLast(topen, Lines(file, MTitle))
    /\ tnum = Cardinality(Lines(file, MTitle))
    /\ DefaultIs(file, MDefault, def)
    /\ topen # 0 =>
        /\ MRead(file, Gives, topen, set, modules, flag)
        /\ skip <=> MOwn(file, topen) \cap Lines(file, MSkip) # {}

MClosedOK ==
    \A k \in DOMAIN targets :
        /\ MRead(file, Gives, targets[k].title, targets[k].set,
                 targets[k].modules, targets[k].default)
        /\ at = "menu" => targets[k].title < topen

MListedOK ==
    IsListOf(TitlesOf(targets),
             {t \in Lines(file, MTitle) :
                MOffered(file, Gives, t) /\ (at = "menu" => t # topen)})

MenuOK ==
    /\ file \in Seq(MenuLine)
    /\ Shapes /\ MOpenOK /\ MClosedOK /\ MListedOK

LEMMA GivesLines ==
    ASSUME NEW n \in Setting \cup {"module"}, NEW l \in Gives[n]
    PROVE  l \in MenuLine /\ ~l.empty /\ l \notin MTitle
  BY DEF Gives, MenuSets, MTitle, Setting

LEMMA MOwnGrows ==
    ASSUME NEW f \in Seq(MenuLine), NEW l \in MenuLine,
           NEW t \in Lines(f, MTitle)
    PROVE  /\ MOwn(f, t) \subseteq 1 .. Len(f)
           /\ MOwn(Append(f, l), t) =
                IF l \notin MTitle /\ \A u \in Lines(f, MTitle) : u <= t
                  THEN MOwn(f, t) \cup {Len(f) + 1} ELSE MOwn(f, t)
<1> DEFINE g == Append(f, l)
<1>1. /\ Len(f) \in Nat /\ DOMAIN f = 1 .. Len(f)
      /\ DOMAIN g = 1 .. Len(f) + 1
  BY AppendLine
<1>2. /\ Lines(f, MTitle) \subseteq 1 .. Len(f)
      /\ Lines(g, MTitle) = IF l \in MTitle
                              THEN Lines(f, MTitle) \cup {Len(f) + 1}
                              ELSE Lines(f, MTitle)
  BY AppendLines
<1> HIDE DEF g
<1>3. ASSUME NEW i \in 1 .. Len(f)
      PROVE  i \in MOwn(g, t) <=> i \in MOwn(f, t)
  <2>1. ~(t < Len(f) + 1 /\ Len(f) + 1 <= i)
    BY <1>1
  <2>2. (\A u \in Lines(g, MTitle) : ~(t < u /\ u <= i)) <=>
            (\A u \in Lines(f, MTitle) : ~(t < u /\ u <= i))
    BY <1>2, <2>1
  <2> QED
    BY <1>1, <2>2 DEF MOwn
<1>4. Len(f) + 1 \in MOwn(g, t) <=>
        l \notin MTitle /\ \A u \in Lines(f, MTitle) : u <= t
  <2>1. t < Len(f) + 1 /\ Len(f) + 1 \in DOMAIN g /\ t \in Nat
    BY <1>1, <1>2
  <2>2. CASE l \in MTitle
    BY <1>1, <1>2, <2>1, <2>2 DEF MOwn
  <2>3. CASE l \notin MTitle
    <3>1. \A u \in Lines(f, MTitle) :
            (t < u /\ u <= Len(f) + 1) <=> ~(u <= t)
      BY <1>1, <1>2, <2>1
    <3> QED
      BY <1>2, <2>1, <2>3, <3>1 DEF MOwn
  <2> QED
    BY <2>2, <2>3
<1>5. MOwn(f, t) \subseteq 1 .. Len(f) /\ MOwn(g, t) \subseteq 1 .. Len(f) + 1
  BY <1>1 DEF MOwn
<1>6. \A i \in 1 .. Len(f) + 1 : i \in 1 .. Len(f) \/ i = Len(f) + 1
  BY <1>1
<1>7. MOwn(g, t) = IF l \notin MTitle /\ \A u \in Lines(f, MTitle) : u <= t
                     THEN MOwn(f, t) \cup {Len(f) + 1} ELSE MOwn(f, t)
  <2>1. Len(f) + 1 \notin MOwn(f, t)
    BY <1>1, <1>5
  <2>2. CASE l \notin MTitle /\ \A u \in Lines(f, MTitle) : u <= t
    <3>1. Len(f) + 1 \in MOwn(g, t)
      BY <1>4, <2>2
    <3>2. MOwn(g, t) = MOwn(f, t) \cup {Len(f) + 1}
      BY <1>3, <1>5, <1>6, <3>1
    <3> QED
      BY <2>2, <3>2
  <2>3. CASE ~(l \notin MTitle /\ \A u \in Lines(f, MTitle) : u <= t)
    <3>1. Len(f) + 1 \notin MOwn(g, t)
      BY <1>4, <2>3
    <3>2. MOwn(g, t) = MOwn(f, t)
      BY <1>3, <1>5, <1>6, <3>1
    <3> QED
      BY <2>3, <3>2
  <2> QED
    BY <2>2, <2>3
<1> QED
  BY <1>5, <1>7 DEF g

\* The lines of L among an entry's own, after one more line.
LEMMA MOwnLines ==
    ASSUME NEW f \in Seq(MenuLine), NEW l \in MenuLine,
           NEW t \in Lines(f, MTitle), NEW L, L \cap MTitle = {}
    PROVE  /\ MOwn(f, t) \cap Lines(f, L) \subseteq 1 .. Len(f)
           /\ MOwn(Append(f, l), t) \cap Lines(Append(f, l), L) =
                IF l \in L /\ \A u \in Lines(f, MTitle) : u <= t
                  THEN (MOwn(f, t) \cap Lines(f, L)) \cup {Len(f) + 1}
                  ELSE MOwn(f, t) \cap Lines(f, L)
<1> DEFINE g == Append(f, l)
           newest == \A u \in Lines(f, MTitle) : u <= t
<1>1. /\ MOwn(f, t) \subseteq 1 .. Len(f)
      /\ MOwn(g, t) = IF l \notin MTitle /\ newest
                        THEN MOwn(f, t) \cup {Len(f) + 1} ELSE MOwn(f, t)
  BY MOwnGrows
<1>2. /\ Lines(f, L) \subseteq 1 .. Len(f)
      /\ Lines(g, L) = IF l \in L THEN Lines(f, L) \cup {Len(f) + 1}
                                  ELSE Lines(f, L)
  BY AppendLines
<1>3. Len(f) + 1 \notin 1 .. Len(f)
  BY AppendLine
<1> HIDE DEF g, newest
<1>4. MOwn(g, t) \cap Lines(g, L) =
        IF l \in L /\ newest
          THEN (MOwn(f, t) \cap Lines(f, L)) \cup {Len(f) + 1}
          ELSE MOwn(f, t) \cap Lines(f, L)
  <2>1. CASE l \in L /\ newest
    BY <1>1, <1>2, <2>1
  <2>2. CASE l \in L /\ ~newest
    BY <1>1, <1>2, <1>3, <2>2
  <2>3. CASE l \notin L
    BY <1>1, <1>2, <1>3, <2>3
  <2> QED
    BY <2>1, <2>2, <2>3
<1> QED
  BY <1>1, <1>4 DEF g, newest

\* An entry that is not the newest, or a new title: nothing is added to it.
LEMMA MReadKept ==
    ASSUME NEW f \in Seq(MenuLine), NEW l \in MenuLine, NEW t, NEW s, NEW ms,
           NEW d,
           l \in MTitle \/ \E u \in Lines(f, MTitle) : ~(u <= t)
    PROVE  /\ MRead(f, Gives, t, s, ms, d) =>
                MRead(Append(f, l), Gives, t, s, ms, d)
           /\ t \in Lines(f, MTitle) =>
                (MOffered(Append(f, l), Gives, t) <=> MOffered(f, Gives, t))
<1> SUFFICES ASSUME t \in Lines(f, MTitle)
             PROVE  /\ MRead(f, Gives, t, s, ms, d) =>
                         MRead(Append(f, l), Gives, t, s, ms, d)
                    /\ MOffered(Append(f, l), Gives, t) <=>
                         MOffered(f, Gives, t)
  BY DEF MRead
<1> DEFINE g == Append(f, l)
<1>1. t \in 1 .. Len(f) /\ t \in Lines(g, MTitle)
  BY AppendLines
<1>2. ASSUME NEW L, L \cap MTitle = {}
      PROVE  /\ MOwn(f, t) \cap Lines(f, L) \in SUBSET (1 .. Len(f))
             /\ MOwn(g, t) \cap Lines(g, L) = MOwn(f, t) \cap Lines(f, L)
  BY <1>2, MOwnLines
<1>3. \A n \in Setting \cup {"module"} : Gives[n] \cap MTitle = {}
  BY GivesLines
<1>4. MSkip \cap MTitle = {}
  BY DEF MSkip, MTitle
<1>5. \A n \in Setting \cup {"module"} :
        /\ MGiven(g, Gives, t, n) = MGiven(f, Gives, t, n)
        /\ MGiven(f, Gives, t, n) \in SUBSET (1 .. Len(f))
  BY <1>2, <1>3 DEF MGiven
<1>6. MOwn(g, t) \cap Lines(g, MSkip) = MOwn(f, t) \cap Lines(f, MSkip)
  BY <1>2, <1>4
<1>7. \A n \in Setting \cup {"module"} : \A x :
        /\ Filled(g, MGiven(g, Gives, t, n)) <=>
             Filled(f, MGiven(f, Gives, t, n))
        /\ HasValue(g, MGiven(g, Gives, t, n), x) <=>
             HasValue(f, MGiven(f, Gives, t, n), x)
  BY <1>5, ValueKept
<1>8. NamedBy(g, MTitle, MDefault, t) <=> NamedBy(f, MTitle, MDefault, t)
  BY <1>1, NamedKept
<1>9. MOffered(g, Gives, t) <=> MOffered(f, Gives, t)
  BY <1>6, <1>7 DEF MOffered, Setting
<1>10. MRead(f, Gives, t, s, ms, d) => MRead(g, Gives, t, s, ms, d)
  BY <1>1, <1>5, <1>7, <1>8 DEF MRead
<1> QED
  BY <1>9, <1>10

\* A line of menu.lst that is no title.
LEMMA MenuLineKeeps ==
    ASSUME MenuOK, at = "menu", at' = "menu", NEW l \in MenuLine,
           file' = Append(file, l), l \notin MTitle, Gives' = Gives, Shapes',
           UNCHANGED <<topen, flag, tnum, targets>>,
           DefaultIs(file', MDefault, def'),
           topen # 0 =>
             /\ skip' <=> skip \/ l \in MSkip
             /\ \A n \in Setting :
                  set'[n] = IF l \in Gives[n] THEN lnum ELSE set[n]
             /\ modules' = IF l \in Gives["module"] THEN Append(modules, lnum)
                                                    ELSE modules
    PROVE  MenuOK'
<1> USE DEF lnum
<1>1. file \in Seq(MenuLine) /\ Len(file) \in Nat /\ file' \in Seq(MenuLine)
  BY AppendLine DEF MenuOK
<1>2. Lines(file', MTitle) = Lines(file, MTitle)
  BY <1>1, AppendLines
<1>3. ASSUME NEW t \in Lines(file, MTitle), t # topen
      PROVE  \E u \in Lines(file, MTitle) : ~(u <= t)
  <2>1. topen \in Lines(file, MTitle) /\ t <= topen
    BY <1>3 DEF MenuOK, MOpenOK, IsLast
  <2>2. topen \in Nat /\ t \in Nat
    BY <1>1, <2>1, AppendLines
  <2> QED
    BY <1>3, <2>1, <2>2
<1>4. ASSUME topen # 0
      PROVE  /\ MRead(file', Gives, topen, set', modules', flag)
             /\ skip' <=> MOwn(file', topen) \cap Lines(file', MSkip) # {}
  <2>1. /\ topen \in Lines(file, MTitle)
        /\ \A u \in Lines(file, MTitle) : u <= topen
        /\ MRead(file, Gives, topen, set, modules, flag)
        /\ skip <=> MOwn(file, topen) \cap Lines(file, MSkip) # {}
    BY <1>4 DEF MenuOK, MOpenOK, IsLast
  <2>2. ASSUME NEW L, L \cap MTitle = {}
        PROVE  /\ MOwn(file, topen) \cap Lines(file, L) \in
                    SUBSET (1 .. Len(file))
               /\ MOwn(file', topen) \cap Lines(file', L) =
                    IF l \in L
                      THEN (MOwn(file, topen) \cap Lines(file, L))
                             \cup {lnum}
                      ELSE MOwn(file, topen) \cap Lines(file, L)
    BY <1>1, <2>1, <2>2, MOwnLines
  <2>3. ASSUME NEW n \in Setting \cup {"module"}
        PROVE  /\ MGiven(file, Gives, topen, n) \in SUBSET (1 .. Len(file))
               /\ MGiven(file', Gives, topen, n) =
                    IF l \in Gives[n]
                      THEN MGiven(file, Gives, topen, n) \cup {lnum}
                      ELSE MGiven(file, Gives, topen, n)
    <3>1. Gives[n] \cap MTitle = {}
      BY GivesLines
    <3> QED
      BY <2>2, <3>1 DEF MGiven
  <2>4. ASSUME NEW n \in Setting
        PROVE  HasValue(file', MGiven(file', Gives, topen, n), set'[n])
    <3>1. HasValue(file, MGiven(file, Gives, topen, n), set[n])
      BY <2>1 DEF MRead
    <3>2. CASE l \in Gives[n]
      <4>1. ~l.empty
        BY <3>2, GivesLines
      <4>2. HasValue(file', MGiven(file, Gives, topen, n) \cup {lnum},
                     IF l.empty THEN 0 ELSE lnum)
        BY <1>1, <2>3, ValueAdded
      <4> QED
        BY <1>4, <2>3, <3>2, <4>1, <4>2
    <3>3. CASE l \notin Gives[n]
      <4>1. HasValue(file', MGiven(file, Gives, topen, n), set[n])
        BY <1>1, <2>3, <3>1, ValueKept
      <4> QED
        BY <1>4, <2>3, <3>3, <4>1
    <3> QED
      BY <3>2, <3>3
  <2>5. IsListOf(modules', MGiven(file', Gives, topen, "module"))
    <3>1. IsListOf(modules, MGiven(file, Gives, topen, "module"))
          /\ modules \in Seq(Nat)
      BY <2>1 DEF MRead, MenuOK, Shapes
    <3>2. CASE l \in Gives["module"]
      <4>1. \A x \in MGiven(file, Gives, topen, "module") :
              x \in Nat /\ x < lnum
        BY <1>1, <2>3
      <4>2. lnum \in Nat
        BY <1>1
      <4>3. IsListOf(Append(modules, lnum),
                     MGiven(file, Gives, topen, "module") \cup {lnum})
        BY <3>1, <4>1, <4>2, ListAdded
      <4> QED
        BY <1>4, <2>3, <3>2, <4>3
    <3>3. CASE l \notin Gives["module"]
      BY <1>4, <2>3, <3>1, <3>3
    <3> QED
      BY <3>2, <3>3
  <2>6. flag <=> NamedBy(file', MTitle, MDefault, topen)
    <3>1. topen \in 1 .. Len(file)
      BY <1>1, <2>1, AppendLines
    <3>2. NamedBy(file', MTitle, MDefault, topen) <=>
            NamedBy(file, MTitle, MDefault, topen)
      BY <1>1, <3>1, NamedKept
    <3> QED
      BY <2>1, <3>2 DEF MRead
  <2>7. skip' <=> MOwn(file', topen) \cap Lines(file', MSkip) # {}
    <3>1. MSkip \cap MTitle = {}
      BY DEF MSkip, MTitle
    <3>2. MOwn(file', topen) \cap Lines(file', MSkip) =
            IF l \in MSkip
              THEN (MOwn(file, topen) \cap Lines(file, MSkip)) \cup {lnum}
              ELSE MOwn(file, topen) \cap Lines(file, MSkip)
      BY <2>2, <3>1
    <3>3. CASE l \in MSkip
      BY <1>4, <3>2, <3>3
    <3>4. CASE l \notin MSkip
      BY <1>4, <2>1, <3>2, <3>4
    <3> QED
      BY <3>3, <3>4
  <2> QED
    BY <1>2, <2>1, <2>4, <2>5, <2>6, <2>7 DEF MRead
<1>5. MOpenOK'
  <2>1. IsLast(topen', Lines(file', MTitle))
        /\ tnum' = Cardinality(Lines(file', MTitle))
    BY <1>2 DEF MenuOK, MOpenOK
  <2> QED
    BY <1>4, <2>1 DEF MOpenOK
<1>6. MClosedOK'
  <2> SUFFICES ASSUME NEW k \in DOMAIN targets
               PROVE  /\ MRead(file', Gives, targets[k].title, targets[k].set,
                               targets[k].modules, targets[k].default)
                      /\ targets[k].title < topen
    BY DEF MClosedOK
  <2>1. /\ MRead(file, Gives, targets[k].title, targets[k].set,
                 targets[k].modules, targets[k].default)
        /\ targets[k].title < topen
    BY DEF MenuOK, MClosedOK
  <2>2. targets[k].title \in Lines(file, MTitle) /\ targets[k].title # topen
    <3>1. targets[k].title \in Lines(file, MTitle)
      BY <2>1 DEF MRead
    <3>2. targets[k].title \in Nat /\ topen \in Nat
      BY <1>1, <3>1, AppendLines DEF MenuOK, Shapes
    <3> QED
      BY <2>1, <3>1, <3>2
  <2> QED
    BY <1>1, <1>3, <2>1, <2>2, MReadKept
<1>7. MListedOK'
  <2>1. {t \in Lines(file', MTitle) :
            MOffered(file', Gives, t) /\ t # topen} =
          {t \in Lines(file, MTitle) : MOffered(file, Gives, t) /\ t # topen}
    <3>1. ASSUME NEW t \in Lines(file, MTitle), t # topen
          PROVE  MOffered(file', Gives, t) <=> MOffered(file, Gives, t)
      <4>1. \E u \in Lines(file, MTitle) : ~(u <= t)
        BY <1>3, <3>1
      <4> QED
        BY <1>1, <4>1, MReadKept
    <3> QED
      BY <1>2, <3>1
  <2> QED
    BY <2>1 DEF MenuOK, MListedOK
<1> QED
  BY <1>1, <1>5, <1>6, <1>7 DEF MenuOK

\* The entry that is open is added to the targets, or left out.
LEMMA MenuAdds ==
    ASSUME MenuOK, at = "menu", Add
    PROVE  /\ targets' \in Seq(Target)
           /\ \A k \in DOMAIN targets' :
                MRead(file, Gives, targets'[k].title, targets'[k].set,
                      targets'[k].modules, targets'[k].default)
           /\ IsListOf(TitlesOf(targets'), {t \in Lines(file, MTitle) :
                                              MOffered(file, Gives, t)})
<1> DEFINE new == [title |-> topen, set |-> set, modules |-> modules,
                   default |-> flag]
           All == {t \in Lines(file, MTitle) : MOffered(file, Gives, t)}
           Closed == {t \in Lines(file, MTitle) :
                        MOffered(file, Gives, t) /\ t # topen}
<1>1. /\ file \in Seq(MenuLine) /\ topen \in Nat /\ Len(file) \in Nat
      /\ new \in Target /\ targets \in Seq(Target)
  BY AppendLine DEF MenuOK, Shapes, Target
<1>2. /\ \A k \in DOMAIN targets :
            MRead(file, Gives, targets[k].title, targets[k].set,
                  targets[k].modules, targets[k].default)
      /\ IsListOf(TitlesOf(targets), Closed)
  BY DEF MenuOK, MClosedOK, MListedOK
<1>3. Closed = All \ {topen}
  OBVIOUS
<1>4. topen \in All <=> topen # 0 /\ ~skip
                          /\ ~(set["root"] = 0 \/ set["kernel"] = 0)
  <2>1. CASE topen = 0
    <3>1. 0 \notin Lines(file, MTitle)
      BY <1>1 DEF Lines
    <3> QED
      BY <2>1, <3>1
  <2>2. CASE topen # 0
    <3>1. /\ MRead(file, Gives, topen, set, modules, flag)
          /\ skip <=> MOwn(file, topen) \cap Lines(file, MSkip) # {}
      BY <2>2 DEF MenuOK, MOpenOK
    <3>2. ASSUME NEW n \in Setting
          PROVE  set[n] # 0 <=> Filled(file, MGiven(file, Gives, topen, n))
      <4>1. HasValue(file, MGiven(file, Gives, topen, n), set[n])
        BY <3>1 DEF MRead
      <4>2. MGiven(file, Gives, topen, n) \in SUBSET (1 .. Len(file))
        BY <1>1 DEF MGiven, MOwn
      <4> QED
        BY <1>1, <4>1, <4>2, ValueFilled
    <3> QED
      BY <2>2, <3>1, <3>2 DEF MOffered, MRead, Setting
  <2> QED
    BY <2>1, <2>2
<1> HIDE DEF All, Closed
<1>5. CASE topen \notin All
  <2>1. targets' = targets
    BY <1>4, <1>5 DEF Add
  <2>2. Closed = All
    BY <1>3, <1>5
  <2> QED
    BY <1>1, <1>2, <2>1, <2>2 DEF All
<1>6. CASE topen \in All
  <2>1. targets' = Append(targets, new)
    BY <1>4, <1>6 DEF Add
  <2>2. MRead(file, Gives, new.title, new.set, new.modules, new.default)
    BY <1>4, <1>6 DEF MenuOK, MOpenOK
  <2>3. Closed \cup {topen} = All
    BY <1>3, <1>6
  <2>4. \A x \in Closed : x \in Nat /\ x < topen
    <3> SUFFICES ASSUME NEW x \in Closed PROVE x \in Nat /\ x < topen
      OBVIOUS
    <3>1. x \in Lines(file, MTitle) /\ x # topen
      BY DEF Closed
    <3>2. x <= topen
      BY <3>1 DEF MenuOK, MOpenOK, IsLast
    <3>3. x \in Nat
      BY <1>1, <3>1 DEF Lines
    <3> QED
      BY <1>1, <3>1, <3>2, <3>3
  <2>5. IsListOf(TitlesOf(Append(targets, new)), Closed \cup {new.title})
    <3>1. Closed \in SUBSET Nat /\ \A x \in Closed : x < new.title
      BY <2>4
    <3> HIDE DEF new
    <3> QED
      BY <1>1, <1>2, <3>1, TitleAdded
  <2>6. ASSUME NEW k \in DOMAIN targets'
        PROVE  MRead(file, Gives, targets'[k].title, targets'[k].set,
                     targets'[k].modules, targets'[k].default)
    <3>1. /\ DOMAIN targets' = 1 .. Len(targets) + 1
          /\ DOMAIN targets = 1 .. Len(targets)
          /\ \A j \in 1 .. Len(targets) : targets'[j] = targets[j]
          /\ targets'[Len(targets) + 1] = new
          /\ Len(targets) \in Nat
      BY <1>1, <2>1, AppendLine
    <3>2. k \in 1 .. Len(targets) \/ k = Len(targets) + 1
      BY <3>1
    <3> QED
      BY <1>2, <2>2, <3>1, <3>2
  <2>7. targets' \in Seq(Target)
    BY <1>1, <2>1, AppendLine
  <2> QED
    BY <2>1, <2>3, <2>5, <2>6, <2>7 DEF All
<1> QED
  BY <1>5, <1>6

LEMMA MenuTitleKeeps ==
    ASSUME MenuOK, at = "menu", at' = "menu", NEW l \in MenuLine,
           file' = Append(file, l), l \in MTitle, Gives' = Gives, Add,
           topen' = lnum, skip' = FALSE, set' = NoSettings, modules' = <<>>,
           flag' = (tnum = def.num), tnum' = tnum + 1, def' = def
    PROVE  MenuOK'
<1> USE DEF lnum
<1>1. file \in Seq(MenuLine) /\ Len(file) \in Nat /\ file' \in Seq(MenuLine)
  BY AppendLine DEF MenuOK
<1>2. /\ targets' \in Seq(Target)
      /\ \A k \in DOMAIN targets' :
            MRead(file, Gives, targets'[k].title, targets'[k].set,
                  targets'[k].modules, targets'[k].default)
      /\ IsListOf(TitlesOf(targets'), {t \in Lines(file, MTitle) :
                                         MOffered(file, Gives, t)})
  BY MenuAdds
<1>3. /\ Lines(file', MTitle) = Lines(file, MTitle) \cup {lnum}
      /\ Lines(file, MTitle) \subseteq 1 .. Len(file)
  BY <1>1, AppendLines
<1>4. Shapes'
  <2>1. <<>> \in Seq(Nat)
    OBVIOUS
  <2>2. NoSettings \in [Setting -> Nat]
    BY DEF NoSettings
  <2>3. flag' \in BOOLEAN
    BY Zenon
  <2>4. lnum \in Nat
    BY <1>1
  <2> HIDE DEF lnum
  <2> QED
    BY <1>2, <2>1, <2>2, <2>3, <2>4 DEF Shapes
<1>5. IsLast(lnum, Lines(file', MTitle))
  BY <1>1, <1>3 DEF IsLast
<1>6. MOwn(file', lnum) = {}
  <2>1. \A i \in DOMAIN file' : ~(lnum < i)
    BY <1>1, AppendLine
  <2> QED
    BY <2>1 DEF MOwn
<1>7. MOpenOK'
  <2>1. tnum' = Cardinality(Lines(file', MTitle))
    BY <1>1, LinesCounted DEF MenuOK, MOpenOK
  <2>2. /\ l \notin MDefault
        /\ DefaultIs(file, MDefault, def)
    BY DEF MTitle, MDefault, MenuOK, MOpenOK
  <2>3. DefaultIs(file', MDefault, def')
    BY <1>1, <2>2, DefaultKept
  <2>4. def.text = NoTitle
    <3>1. \A m \in Lines(file, MDefault) : file[m].num # NoTitle
      <4> SUFFICES ASSUME NEW m \in Lines(file, MDefault)
                   PROVE  file[m].num # NoTitle
        OBVIOUS
      <4>1. file[m] \in MenuShape
        BY <1>1, LinesAssumption DEF Lines, MDefault
      <4> QED
        BY <4>1, ValuesAssumption DEF MenuShape
    <3> QED
      BY <2>2, <3>1 DEF DefaultIs, NoDefault
  <2>5. NamedBy(file', MTitle, MDefault, lnum) <=> tnum = def.num
    <3>1. NamedBy(file', MTitle, MDefault, Len(file) + 1) <=>
            \/ def.num = Cardinality(Lines(file, MTitle))
            \/ def.text # NoTitle /\ def.text = l.text
      BY <1>1, <2>2, NamedNew
    <3> QED
      BY <2>4, <3>1 DEF MenuOK, MOpenOK
  <2>6. \A n : MGiven(file', Gives, lnum, n) = {}
    BY <1>6 DEF MGiven
  <2>7. \A n \in Setting :
          HasValue(file', MGiven(file', Gives, lnum, n), NoSettings[n])
    BY <2>6 DEF HasValue, NoSettings
  <2>8. IsListOf(<<>>, MGiven(file', Gives, lnum, "module"))
    BY <2>6 DEF IsListOf
  <2>9. MRead(file', Gives, lnum, NoSettings, <<>>, tnum = def.num)
    BY <1>3, <2>5, <2>7, <2>8 DEF MRead
  <2>10. skip' <=> MOwn(file', lnum) \cap Lines(file', MSkip) # {}
    BY <1>6
  <2> QED
    BY <1>5, <2>1, <2>3, <2>9, <2>10 DEF MOpenOK
<1>8. MClosedOK'
  <2> SUFFICES ASSUME NEW k \in DOMAIN targets'
               PROVE  /\ MRead(file', Gives, targets'[k].title,
                               targets'[k].set, targets'[k].modules,
                               targets'[k].default)
                      /\ targets'[k].title < lnum
    BY DEF MClosedOK
  <2>1. MRead(file, Gives, targets'[k].title, targets'[k].set,
              targets'[k].modules, targets'[k].default)
    BY <1>2
  <2>2. targets'[k].title < lnum
    BY <1>1, <1>3, <2>1 DEF MRead
  <2> QED
    BY <1>1, <2>1, <2>2, MReadKept
<1>9. MListedOK'
  <2>1. ~MOffered(file', Gives, lnum)
    BY <1>6 DEF MOffered, Filled, MGiven
  <2>2. \A t \in Lines(file, MTitle) : t # lnum
    BY <1>1, <1>3
  <2>3. \A t \in Lines(file, MTitle) :
          MOffered(file', Gives, t) <=> MOffered(file, Gives, t)
    BY <1>1, MReadKept
  <2>4. {t \in Lines(file', MTitle) :
            MOffered(file', Gives, t) /\ t # lnum} =
          {t \in Lines(file, MTitle) : MOffered(file, Gives, t)}
    BY <1>3, <2>2, <2>3
  <2> QED
    BY <1>2, <2>4 DEF MListedOK
<1> QED
  BY <1>1, <1>4, <1>7, <1>8, <1>9 DEF MenuOK

LEMMA MenuEndKeeps == MenuOK /\ at = "menu" /\ MenuEnd => MenuOK'
<1> SUFFICES ASSUME MenuOK, at = "menu", MenuEnd PROVE MenuOK'
  OBVIOUS
<1>1. /\ at' = "done" /\ Add
      /\ UNCHANGED <<devmap, file, topen, skip, set, modules, flag, tnum, def>>
  BY DEF MenuEnd, block
<1>2. Gives' = Gives
  BY <1>1 DEF Gives, MenuSets, IsPath, IsDevice, Known
<1>3. /\ targets' \in Seq(Target)
      /\ \A k \in DOMAIN targets' :
            MRead(file, Gives, targets'[k].title, targets'[k].set,
                  targets'[k].modules, targets'[k].default)
      /\ IsListOf(TitlesOf(targets'), {t \in Lines(file, MTitle) :
                                         MOffered(file, Gives, t)})
  BY <1>1, MenuAdds
<1>4. Shapes' /\ file' \in Seq(MenuLine)
  BY <1>1, <1>3 DEF MenuOK, Shapes
<1>5. MOpenOK'
  BY <1>1, <1>2 DEF MenuOK, MOpenOK
<1>6. MClosedOK'
  BY <1>1, <1>2, <1>3 DEF MClosedOK
<1>7. MListedOK'
  BY <1>1, <1>2, <1>3 DEF MListedOK
<1> QED
  BY <1>4, <1>5, <1>6, <1>7 DEF MenuOK

LEMMA MenuStepKeeps ==
    ASSUME MenuOK, at = "menu", NEW l \in MenuLine, MenuStep(l)
    PROVE  MenuOK' /\ at' = "menu"
<1>1. /\ at' = "menu" /\ file' = Append(file, l) /\ devmap' = devmap
      /\ file \in Seq(MenuLine)
  BY DEF MenuStep, MenuTimeout, MenuDefault, MenuTitle, MenuRoot, MenuKernel,
         MenuInitrd, MenuModule, MenuChainloader, MenuOther, NextLine, MenuOK
<1>2. Gives' = Gives
  BY <1>1 DEF Gives, MenuSets, IsPath, IsDevice, Known
<1>3. /\ topen \in Nat /\ skip \in BOOLEAN /\ flag \in BOOLEAN
      /\ set \in [Setting -> Nat] /\ modules \in Seq(Nat)
      /\ targets \in Seq(Target) /\ lnum \in Nat
  BY <1>1, AppendLine DEF MenuOK, Shapes, lnum
<1>4. DefaultIs(file, MDefault, def)
  BY DEF MenuOK, MOpenOK
<1>5. \A n \in Setting \cup {"module"} : l \in Gives[n] <=> MenuSets(l, n)
  BY DEF Gives
<1>6. ASSUME l \notin MTitle, UNCHANGED <<topen, flag, tnum, targets>>,
             \/ l \notin MDefault /\ def' = def
             \/ /\ l \in MDefault
                /\ def' = [num |-> l.num, text |-> NoTitle],
             skip' \in BOOLEAN, set' \in [Setting -> Nat],
             modules' \in Seq(Nat),
             topen # 0 =>
               /\ skip' <=> skip \/ l \in MSkip
               /\ \A n \in Setting :
                    set'[n] = IF MenuSets(l, n) THEN lnum ELSE set[n]
               /\ modules' = IF MenuSets(l, "module")
                               THEN Append(modules, lnum) ELSE modules
      PROVE  MenuOK'
  <2>1. Shapes'
    BY <1>3, <1>6 DEF Shapes
  <2>2. DefaultIs(file', MDefault, def')
    <3>1. CASE l \notin MDefault /\ def' = def
      BY <1>1, <1>4, <3>1, DefaultKept
    <3>2. CASE /\ l \in MDefault
               /\ def' = [num |-> l.num, text |-> NoTitle]
      <4>1. l.num # NoTitle
        BY LinesAssumption, ValuesAssumption DEF MenuShape
      <4>2. DefaultIs(file', MDefault,
                      IF l.num # NoTitle
                        THEN [num |-> l.num, text |-> NoTitle]
                        ELSE [num |-> -1, text |-> l.text])
        BY <1>1, <3>2, DefaultAdded
      <4> QED
        BY <3>2, <4>1, <4>2
    <3> QED
      BY <1>6, <3>1, <3>2
  <2>3. topen # 0 =>
          /\ skip' <=> skip \/ l \in MSkip
          /\ \A n \in Setting :
               set'[n] = IF l \in Gives[n] THEN lnum ELSE set[n]
          /\ modules' = IF l \in Gives["module"] THEN Append(modules, lnum)
                                                 ELSE modules
    BY <1>5, <1>6
  <2> QED
    BY <1>1, <1>2, <1>6, <2>1, <2>2, <2>3, MenuLineKeeps
<1> USE DEF Report, Nothing, NextLine, block
<1>7. CASE MenuTimeout(l)
  <2>1. UNCHANGED <<topen, skip, set, modules, flag, tnum, def, targets>>
    BY <1>7 DEF MenuTimeout
  <2>2. l.name = "timeout"
    BY <1>7 DEF MenuTimeout
  <2> QED
    BY <1>1, <1>3, <1>6, <2>1, <2>2 DEF MTitle, MDefault, MSkip, MenuSets,
                                        Setting
<1>8. CASE MenuDefault(l)
  <2>1. l.name = "default" /\ (l \in MDefault <=> ~l.empty)
    BY <1>8 DEF MenuDefault, MDefault
  <2>2. /\ UNCHANGED <<topen, skip, set, modules, flag, tnum, targets>>
        /\ def' = IF l.empty THEN def ELSE [num |-> l.num, text |-> NoTitle]
    BY <1>8 DEF MenuDefault
  <2> QED
    BY <1>1, <1>3, <1>6, <2>1, <2>2 DEF MTitle, MSkip, MenuSets, Setting
<1>9. CASE MenuTitle(l)
  <2>1. l.name = "title"
    BY <1>9 DEF MenuTitle
  <2>2. CASE l.empty
    <3>1. UNCHANGED <<topen, skip, set, modules, flag, tnum, def, targets>>
      BY <1>9, <2>2 DEF MenuTitle
    <3> QED
      BY <1>1, <1>3, <1>6, <2>1, <2>2, <3>1
      DEF MTitle, MDefault, MSkip, MenuSets, Setting
  <2>3. CASE ~l.empty
    <3>1. /\ Add
          /\ topen' = lnum /\ skip' = FALSE
          /\ set' = NoSettings /\ modules' = <<>>
          /\ flag' = (tnum = def.num)
          /\ tnum' = tnum + 1
          /\ def' = def
      BY <1>9, <2>3 DEF MenuTitle
    <3>2. l \in MTitle
      BY <2>1, <2>3 DEF MTitle
    <3> QED
      BY <1>1, <1>2, <3>1, <3>2, MenuTitleKeeps
  <2> QED
    BY <2>2, <2>3
<1>10. CASE MenuRoot(l)
  <2>1. /\ l.name = "root"
        /\ UNCHANGED <<topen, modules, flag, tnum, def, targets>>
    BY <1>10 DEF MenuRoot
  <2>2. CASE topen = 0 \/ (~l.empty /\ ~IsDevice(l))
    <3>1. UNCHANGED <<skip, set>>
      BY <1>10, <2>2 DEF MenuRoot
    <3> QED
      BY <1>1, <1>3, <1>6, <2>1, <2>2, <3>1
      DEF MTitle, MDefault, MSkip, MenuSets, Setting
  <2>3. CASE topen # 0 /\ l.empty
    <3>1. skip' = TRUE /\ set' = set
      BY <1>10, <2>3 DEF MenuRoot
    <3> QED
      BY <1>1, <1>3, <1>6, <2>1, <2>3, <3>1
      DEF MTitle, MDefault, MSkip, MenuSets, Setting
  <2>4. CASE topen # 0 /\ ~l.empty /\ IsDevice(l)
    <3>1. skip' = skip /\ set' = [set EXCEPT !["root"] = lnum]
      BY <1>10, <2>4 DEF MenuRoot, Set
    <3> QED
      BY <1>1, <1>3, <1>6, <2>1, <2>4, <3>1
      DEF MTitle, MDefault, MSkip, MenuSets, Setting
  <2> QED
    BY <2>2, <2>3, <2>4
<1>11. CASE MenuKernel(l)
  <2>1. /\ l.name = "kernel"
        /\ UNCHANGED <<topen, skip, modules, flag, tnum, def, targets>>
    BY <1>11 DEF MenuKernel
  <2>2. CASE topen = 0 \/ l.empty
    <3>1. UNCHANGED set
      BY <1>11, <2>2 DEF MenuKernel
    <3> QED
      BY <1>1, <1>3, <1>6, <2>1, <2>2, <3>1
      DEF MTitle, MDefault, MSkip, MenuSets, Setting
  <2>3. CASE topen # 0 /\ ~l.empty
    <3>1. set' = [set EXCEPT !["args"] = lnum,
                             !["kernel"] = IF IsPath(l) THEN lnum ELSE @]
      BY <1>11, <2>3 DEF MenuKernel
    <3> QED
      BY <1>1, <1>3, <1>6, <2>1, <2>3, <3>1
      DEF MTitle, MDefault, MSkip, MenuSets, Setting
  <2> QED
    BY <2>2, <2>3
<1>12. CASE MenuInitrd(l)
  <2>1. /\ l.name = "initrd"
        /\ UNCHANGED <<topen, skip, modules, flag, tnum, def, targets>>
        /\ set' = IF topen = 0 \/ l.empty \/ ~IsPath(l) THEN set
                    ELSE [set EXCEPT !["initrd"] = lnum]
    BY <1>12 DEF MenuInitrd, Set
  <2> QED
    BY <1>1, <1>3, <1>6, <2>1 DEF MTitle, MDefault, MSkip, MenuSets, Setting
<1>13. CASE MenuModule(l)
  <2>1. /\ l.name = "module"
        /\ UNCHANGED <<topen, skip, set, flag, tnum, def, targets>>
        /\ modules' = IF topen = 0 \/ l.empty \/ ~IsPath(l) THEN modules
                        ELSE Append(modules, lnum)
    BY <1>13 DEF MenuModule
  <2>2. modules' \in Seq(Nat)
    BY <1>3, <2>1, AppendLine
  <2> QED
    BY <1>1, <1>3, <1>6, <2>1, <2>2
    DEF MTitle, MDefault, MSkip, MenuSets, Setting
<1>14. CASE MenuChainloader(l)
  <2>1. /\ l.name = "chainloader" /\ skip' = TRUE
        /\ UNCHANGED <<topen, set, modules, flag, tnum, def, targets>>
    BY <1>14 DEF MenuChainloader
  <2> QED
    BY <1>1, <1>3, <1>6, <2>1 DEF MTitle, MDefault, MSkip, MenuSets, Setting
<1>15. CASE MenuOther(l)
  <2>1. /\ l.name = "other"
        /\ UNCHANGED <<topen, skip, set, modules, flag, tnum, def, targets>>
    BY <1>15 DEF MenuOther
  <2> QED
    BY <1>1, <1>3, <1>6, <2>1 DEF MTitle, MDefault, MSkip, MenuSets, Setting
<1> QED
  BY <1>7, <1>8, <1>9, <1>10, <1>11, <1>12, <1>13, <1>14, <1>15 DEF MenuStep

-----------------------------------------------------------------------------
(***************************************************************************)
(* grub.cfg.                                                               *)
(***************************************************************************)
CTitle == {l \in CfgLine : l.name = "menuentry" /\ ~l.open}
CDefault == {l \in CfgLine : l.name = "set default" /\ ~l.open}
CSkip == {l \in CfgLine : l.name = "chainloader"}
CBrace == {l \in CfgLine : l.name = "}"}
CSet(n) == {l \in CfgLine : CfgSetsTo(l, n)}

\* The braces that close an entry.
CClose(f) ==
    {c \in Lines(f, CBrace) :
        \E t \in Lines(f, CTitle) :
            t < c /\ \A i \in Lines(f, CBrace) : ~(t < i /\ i < c)}

\* The lines between the same two of them as t, and those after the last.
CSeg(f, t) == {i \in DOMAIN f : \A c \in CClose(f) : c < i <=> c < t}
CSince(f) == {i \in DOMAIN f : \A c \in CClose(f) : c < i}

CGiven(f, t, n) == CSeg(f, t) \cap Lines(f, CSet(n))

CEnded(f, t) ==
    /\ \E c \in CClose(f) : t < c
    /\ \A u \in Lines(f, CTitle) \cap CSeg(f, t) : u <= t

COffered(f, t) ==
    /\ Filled(f, CGiven(f, t, "root")) /\ Filled(f, CGiven(f, t, "kernel"))
    /\ \A i \in CSeg(f, t) \cap Lines(f, CSkip) : ~(t < i)
    /\ CEnded(f, t)

\* The titles since the last entry was closed.
CNew(f) == Lines(f, CTitle) \cap CSince(f)

\* No brace comes after them.
Tidy(f) == \A u \in CNew(f), i \in Lines(f, CBrace) : i < u

COpenOK ==
    /\ IsLast(topen, CNew(file))
    /\ tnum = Cardinality(Lines(file, CTitle))
    /\ DefaultIs(file, CDefault, def)
    /\ \A n \in Setting :
        HasValue(file, CSince(file) \cap Lines(file, CSet(n)), set[n])
    /\ topen # 0 =>
        (skip <=> \E i \in CSince(file) \cap Lines(file, CSkip) : topen < i)
    /\ flag <=> \E u \in CNew(file) : NamedBy(file, CTitle, CDefault, u)
    /\ Tidy(file)

CClosedOK ==
    \A k \in DOMAIN targets :
        LET t == targets[k].title
        IN  /\ t \in Lines(file, CTitle)
            /\ \E c \in CClose(file) : t < c
            /\ \A n \in Setting :
                 HasValue(file, CGiven(file, t, n), targets[k].set[n])
            /\ targets[k].default <=>
                 \E u \in Lines(file, CTitle) \cap CSeg(file, t) :
                    NamedBy(file, CTitle, CDefault, u)

CListedOK ==
    IsListOf(TitlesOf(targets),
             {t \in Lines(file, CTitle) : COffered(file, t)})

CfgOK ==
    /\ file \in Seq(CfgLine)
    /\ Shapes /\ COpenOK /\ CClosedOK /\ CListedOK

\* Does line l close an entry?
Closing(f, l) == l \in CBrace /\ CNew(f) # {}

LEMMA CfgKinds ==
    /\ CBrace \cap CTitle = {} /\ CDefault \cap CTitle = {}
    /\ CDefault \cap CBrace = {} /\ CSkip \cap CBrace = {}
    /\ CSkip \cap CTitle = {}
    /\ \A n \in Setting : CSet(n) \cap (CTitle \cup CBrace \cup CDefault) = {}
<1>1. ASSUME NEW n \in Setting, NEW l \in CSet(n)
      PROVE  l.name \in {"set root", "search", "linux", "initrd"}
  BY DEF CSet, CfgSetsTo
<1> QED
  BY <1>1 DEF CTitle, CBrace, CDefault, CSkip

LEMMA CCloseGrows ==
    ASSUME NEW f \in Seq(CfgLine), NEW l \in CfgLine, Tidy(f)
    PROVE  /\ CClose(f) \subseteq 1 .. Len(f)
           /\ CClose(Append(f, l)) =
                IF Closing(f, l) THEN CClose(f) \cup {Len(f) + 1}
                                 ELSE CClose(f)
<1> DEFINE g == Append(f, l)
           e == Len(f) + 1
<1>1. /\ Len(f) \in Nat /\ e = Len(f) + 1
      /\ Lines(f, CTitle) \subseteq 1 .. Len(f)
      /\ Lines(f, CBrace) \subseteq 1 .. Len(f)
      /\ Lines(g, CTitle) = IF l \in CTitle THEN Lines(f, CTitle) \cup {e}
                                            ELSE Lines(f, CTitle)
      /\ Lines(g, CBrace) = IF l \in CBrace THEN Lines(f, CBrace) \cup {e}
                                            ELSE Lines(f, CBrace)
  BY AppendLine, AppendLines
<1>2. Lines(f, CTitle) \subseteq DOMAIN f /\ DOMAIN f = 1 .. Len(f)
  BY AppendLine DEF Lines
<1>3. Lines(f, CTitle) \cap Lines(f, CBrace) = {}
  BY CfgKinds DEF Lines
<1> HIDE DEF g, e
<1>4. /\ CClose(f) \subseteq Lines(f, CBrace)
      /\ CClose(g) \subseteq Lines(g, CBrace)
  BY DEF CClose
<1>5. ASSUME NEW c \in 1 .. Len(f)
      PROVE  c \in CClose(g) <=> c \in CClose(f)
  <2>1. \A t, i : t < c => (t \in Lines(g, CTitle) <=> t \in Lines(f, CTitle))
    BY <1>1
  <2>2. \A i : i < c => (i \in Lines(g, CBrace) <=> i \in Lines(f, CBrace))
    BY <1>1
  <2>3. c \in Lines(g, CBrace) <=> c \in Lines(f, CBrace)
    BY <1>1
  <2> QED
    BY <2>1, <2>2, <2>3 DEF CClose
<1>6. e \in CClose(g) <=> Closing(f, l)
  <2>1. ASSUME e \in CClose(g) PROVE Closing(f, l)
    <3>1. l \in CBrace
      BY <1>1, <1>4, <2>1
    <3>2. PICK t \in Lines(g, CTitle) :
            t < e /\ \A i \in Lines(g, CBrace) : ~(t < i /\ i < e)
      BY <2>1 DEF CClose
    <3>3. t \in Lines(f, CTitle) /\ t \in Nat /\ t \in DOMAIN f
      BY <1>1, <1>2, <3>2
    <3>4. \A c \in CClose(f) : c < t
      <4> SUFFICES ASSUME NEW c \in CClose(f) PROVE c < t
        OBVIOUS
      <4>1. c \in Lines(f, CBrace) /\ c \in Lines(g, CBrace) /\ c \in Nat
        BY <1>1, <1>4
      <4>2. c < e /\ c # t
        BY <1>1, <1>3, <3>3, <4>1
      <4> QED
        BY <3>2, <3>3, <4>1, <4>2
    <3> QED
      BY <3>1, <3>3, <3>4 DEF Closing, CNew, CSince
  <2>2. ASSUME Closing(f, l) PROVE e \in CClose(g)
    <3>1. PICK t \in CNew(f) : \A i \in Lines(f, CBrace) : i < t
      BY <2>2 DEF Closing, Tidy
    <3>2. t \in Lines(f, CTitle) /\ t \in Lines(g, CTitle) /\ t < e
      BY <1>1 DEF CNew
    <3>3. ASSUME NEW i \in Lines(g, CBrace) PROVE ~(t < i /\ i < e)
      <4>1. CASE i \in Lines(f, CBrace)
        <5>1. i < t /\ i \in Nat /\ t \in Nat
          BY <1>1, <3>1, <3>2, <4>1
        <5> QED
          BY <5>1
      <4>2. CASE i = e
        BY <1>1, <4>2
      <4> QED
        BY <1>1, <4>1, <4>2
    <3>4. e \in Lines(g, CBrace)
      BY <1>1, <2>2 DEF Closing
    <3> QED
      BY <3>2, <3>3, <3>4 DEF CClose
  <2> QED
    BY <2>1, <2>2
<1>7. /\ CClose(g) \subseteq 1 .. Len(f) \cup {e}
      /\ CClose(f) \subseteq 1 .. Len(f)
  BY <1>1, <1>4
<1>8. CClose(g) = IF Closing(f, l) THEN CClose(f) \cup {e} ELSE CClose(f)
  <2>1. e \notin CClose(f)
    BY <1>1, <1>7
  <2>2. CASE Closing(f, l)
    BY <1>5, <1>6, <1>7, <2>2
  <2>3. CASE ~Closing(f, l)
    BY <1>5, <1>6, <1>7, <2>1, <2>3
  <2> QED
    BY <2>2, <2>3
<1> QED
  BY <1>7, <1>8 DEF g, e

\* The lines since the last entry are one more, or none.
LEMMA CSinceGrows ==
    ASSUME NEW f \in Seq(CfgLine), NEW l \in CfgLine, Tidy(f)
    PROVE  /\ CSince(f) \subseteq 1 .. Len(f)
           /\ CSince(Append(f, l)) = IF Closing(f, l) THEN {}
                                     ELSE CSince(f) \cup {Len(f) + 1}
<1> DEFINE g == Append(f, l)
<1>1. /\ Len(f) \in Nat /\ DOMAIN f = 1 .. Len(f)
      /\ DOMAIN g = 1 .. Len(f) + 1
  BY AppendLine
<1>2. /\ CClose(f) \subseteq 1 .. Len(f)
      /\ CClose(g) = IF Closing(f, l) THEN CClose(f) \cup {Len(f) + 1}
                                      ELSE CClose(f)
  BY CCloseGrows
<1> HIDE DEF g
<1>3. CASE Closing(f, l)
  <2>1. \A i \in DOMAIN g : ~(Len(f) + 1 < i)
    BY <1>1
  <2>2. CSince(g) = {}
    BY <1>2, <1>3, <2>1 DEF CSince
  <2> QED
    BY <1>1, <1>3, <2>2 DEF CSince, g
<1>4. CASE ~Closing(f, l)
  <2>1. \A c \in CClose(f) : c < Len(f) + 1
    BY <1>1, <1>2
  <2>2. CSince(g) = CSince(f) \cup {Len(f) + 1}
    BY <1>1, <1>2, <1>4, <2>1 DEF CSince
  <2> QED
    BY <1>1, <1>4, <2>2 DEF CSince, g
<1> QED
  BY <1>3, <1>4

\* An entry that is closed stays as it is.
LEMMA CSegKept ==
    ASSUME NEW f \in Seq(CfgLine), NEW l \in CfgLine, Tidy(f),
           NEW t \in Lines(f, CTitle), \E c \in CClose(f) : t < c
    PROVE  /\ CSeg(f, t) \in SUBSET (1 .. Len(f))
           /\ CSeg(Append(f, l), t) = CSeg(f, t)
           /\ \E c \in CClose(Append(f, l)) : t < c
<1> DEFINE g == Append(f, l)
<1>1. /\ Len(f) \in Nat /\ DOMAIN f = 1 .. Len(f)
      /\ DOMAIN g = 1 .. Len(f) + 1 /\ t \in 1 .. Len(f)
  BY AppendLine, AppendLines
<1>2. /\ CClose(f) \subseteq 1 .. Len(f)
      /\ CClose(g) = IF Closing(f, l) THEN CClose(f) \cup {Len(f) + 1}
                                      ELSE CClose(f)
  BY CCloseGrows
<1> HIDE DEF g
<1>3. Len(f) + 1 \notin CSeg(g, t)
  <2>1. PICK c \in CClose(f) : t < c
    OBVIOUS
  <2>2. c \in CClose(g) /\ c < Len(f) + 1 /\ ~(c < t)
    BY <1>1, <1>2, <2>1
  <2> QED
    BY <2>2 DEF CSeg
<1>4. ASSUME NEW i \in 1 .. Len(f)
      PROVE  i \in CSeg(g, t) <=> i \in CSeg(f, t)
  <2>1. ~(Len(f) + 1 < i) /\ ~(Len(f) + 1 < t)
    BY <1>1
  <2>2. (\A c \in CClose(g) : c < i <=> c < t) <=>
            (\A c \in CClose(f) : c < i <=> c < t)
    BY <1>2, <2>1
  <2> QED
    BY <1>1, <2>2 DEF CSeg
<1>5. CSeg(g, t) \subseteq 1 .. Len(f) + 1 /\ CSeg(f, t) \subseteq 1 .. Len(f)
  BY <1>1 DEF CSeg
<1>6. CSeg(g, t) = CSeg(f, t)
  <2>1. \A i \in 1 .. Len(f) + 1 : i \in 1 .. Len(f) \/ i = Len(f) + 1
    BY <1>1
  <2> QED
    BY <1>3, <1>4, <1>5, <2>1
<1>7. \E c \in CClose(g) : t < c
  BY <1>2
<1> QED
  BY <1>5, <1>6, <1>7 DEF g

LEMMA CEntryKept ==
    ASSUME NEW f \in Seq(CfgLine), NEW l \in CfgLine, Tidy(f),
           NEW t \in Lines(f, CTitle), \E c \in CClose(f) : t < c
    PROVE  /\ t \in Lines(Append(f, l), CTitle)
           /\ \A n, x : HasValue(f, CGiven(f, t, n), x) =>
                          HasValue(Append(f, l),
                                   CGiven(Append(f, l), t, n), x)
           /\ (\E u \in Lines(f, CTitle) \cap CSeg(f, t) :
                    NamedBy(f, CTitle, CDefault, u)) <=>
              (\E u \in Lines(Append(f, l), CTitle)
                          \cap CSeg(Append(f, l), t) :
                    NamedBy(Append(f, l), CTitle, CDefault, u))
           /\ COffered(Append(f, l), t) <=> COffered(f, t)
<1> DEFINE g == Append(f, l)
<1>1. /\ CSeg(f, t) \in SUBSET (1 .. Len(f))
      /\ CSeg(g, t) = CSeg(f, t)
      /\ \E c \in CClose(g) : t < c
  BY CSegKept
<1>2. \A L : CSeg(g, t) \cap Lines(g, L) = CSeg(f, t) \cap Lines(f, L)
  <2>1. \A L : Lines(g, L) = IF l \in L THEN Lines(f, L) \cup {Len(f) + 1}
                                        ELSE Lines(f, L)
    BY AppendLines
  <2>2. Len(f) + 1 \notin 1 .. Len(f)
    BY AppendLine
  <2> QED
    BY <1>1, <2>1, <2>2
<1>3. \A n : /\ CGiven(g, t, n) = CGiven(f, t, n)
             /\ CGiven(f, t, n) \in SUBSET (1 .. Len(f))
  BY <1>1, <1>2 DEF CGiven
<1>4. \A n, x :
        /\ Filled(g, CGiven(g, t, n)) <=> Filled(f, CGiven(f, t, n))
        /\ HasValue(g, CGiven(g, t, n), x) <=> HasValue(f, CGiven(f, t, n), x)
  BY <1>3, ValueKept
<1>5. \A u \in CSeg(f, t) :
        NamedBy(g, CTitle, CDefault, u) <=> NamedBy(f, CTitle, CDefault, u)
  BY <1>1, NamedKept
<1>6. t \in Lines(g, CTitle)
  BY AppendLines
<1> HIDE DEF g
<1>7. COffered(g, t) <=> COffered(f, t)
  BY <1>1, <1>2, <1>4 DEF COffered, CEnded
<1>8. (\E u \in Lines(f, CTitle) \cap CSeg(f, t) :
            NamedBy(f, CTitle, CDefault, u)) <=>
      (\E u \in Lines(g, CTitle) \cap CSeg(g, t) :
            NamedBy(g, CTitle, CDefault, u))
  BY <1>2, <1>5
<1> QED
  BY <1>4, <1>6, <1>7, <1>8 DEF g

\* A line that closes no entry adds no target and changes none.
LEMMA CfgTargetsKept ==
    ASSUME CfgOK, NEW l \in CfgLine, ~Closing(file, l),
           file' = Append(file, l), targets' = targets
    PROVE  CClosedOK' /\ CListedOK'
<1>1. file \in Seq(CfgLine) /\ Tidy(file)
  BY DEF CfgOK, COpenOK
<1>2. ASSUME NEW t \in Lines(file, CTitle), \E c \in CClose(file) : t < c
      PROVE  /\ t \in Lines(file', CTitle)
             /\ \A n, x : HasValue(file, CGiven(file, t, n), x) =>
                            HasValue(file', CGiven(file', t, n), x)
             /\ (\E u \in Lines(file, CTitle) \cap CSeg(file, t) :
                      NamedBy(file, CTitle, CDefault, u)) <=>
                (\E u \in Lines(file', CTitle) \cap CSeg(file', t) :
                      NamedBy(file', CTitle, CDefault, u))
             /\ COffered(file', t) <=> COffered(file, t)
             /\ \E c \in CClose(file') : t < c
  BY <1>1, <1>2, CEntryKept, CSegKept
<1>3. CClosedOK'
  <2> SUFFICES ASSUME NEW k \in DOMAIN targets, NEW t, t = targets[k].title
               PROVE  /\ t \in Lines(file', CTitle)
                      /\ \E c \in CClose(file') : t < c
                      /\ \A n \in Setting :
                           HasValue(file', CGiven(file', t, n),
                                    targets[k].set[n])
                      /\ targets[k].default <=>
                           \E u \in Lines(file', CTitle) \cap CSeg(file', t) :
                              NamedBy(file', CTitle, CDefault, u)
    BY DEF CClosedOK
  <2>1. /\ t \in Lines(file, CTitle)
        /\ \E c \in CClose(file) : t < c
        /\ \A n \in Setting :
             HasValue(file, CGiven(file, t, n), targets[k].set[n])
        /\ targets[k].default <=>
             \E u \in Lines(file, CTitle) \cap CSeg(file, t) :
                NamedBy(file, CTitle, CDefault, u)
    BY DEF CfgOK, CClosedOK
  <2> QED
    BY <1>2, <2>1
<1>4. CListedOK'
  <2>1. CClose(file') = CClose(file) /\ CClose(file) \subseteq 1 .. Len(file)
    BY <1>1, CCloseGrows
  <2>2. /\ Lines(file', CTitle) \subseteq
             Lines(file, CTitle) \cup {Len(file) + 1}
        /\ Lines(file, CTitle) \subseteq Lines(file', CTitle)
        /\ Len(file) \in Nat
    BY <1>1, AppendLines, AppendLine
  <2>3. ~COffered(file', Len(file) + 1)
    <3>1. \A c \in CClose(file') : ~(Len(file) + 1 < c)
      BY <2>1, <2>2
    <3> QED
      BY <3>1 DEF COffered, CEnded
  <2>4. ASSUME NEW t \in Lines(file, CTitle)
        PROVE  COffered(file', t) <=> COffered(file, t)
    <3>1. CASE \E c \in CClose(file) : t < c
      BY <1>2, <3>1
    <3>2. CASE ~\E c \in CClose(file) : t < c
      BY <2>1, <3>2 DEF COffered, CEnded
    <3> QED
      BY <3>1, <3>2
  <2>5. {t \in Lines(file', CTitle) : COffered(file', t)} =
          {t \in Lines(file, CTitle) : COffered(file, t)}
    BY <2>2, <2>3, <2>4
  <2> QED
    BY <2>5 DEF CfgOK, CListedOK
<1> QED
  BY <1>3, <1>4

\* A line of grub.cfg that neither is a title nor closes an entry.
LEMMA CfgLineKeeps ==
    ASSUME CfgOK, NEW l \in CfgLine, file' = Append(file, l),
           l \notin CTitle, ~Closing(file, l), Shapes',
           UNCHANGED <<topen, flag, tnum, targets>>,
           DefaultIs(file', CDefault, def'),
           \A n \in Setting :
             set'[n] = IF l \in CSet(n) THEN IF l.empty THEN 0 ELSE lnum
                                        ELSE set[n],
           topen # 0 => (skip' <=> skip \/ l \in CSkip)
    PROVE  CfgOK'
<1> USE DEF lnum
<1>1. /\ file \in Seq(CfgLine) /\ Len(file) \in Nat /\ Tidy(file)
      /\ file' \in Seq(CfgLine)
  BY AppendLine DEF CfgOK, COpenOK
<1>2. /\ \A L : Lines(file, L) \subseteq 1 .. Len(file)
      /\ \A L : Lines(file', L) = IF l \in L THEN Lines(file, L) \cup {lnum}
                                             ELSE Lines(file, L)
      /\ CSince(file) \subseteq 1 .. Len(file)
      /\ CSince(file') = CSince(file) \cup {lnum}
      /\ lnum \notin 1 .. Len(file)
  BY <1>1, AppendLines, CSinceGrows
<1>3. CNew(file') = CNew(file) /\ Lines(file', CTitle) = Lines(file, CTitle)
  BY <1>2 DEF CNew
<1>4. \A L : CSince(file') \cap Lines(file', L) =
               IF l \in L THEN (CSince(file) \cap Lines(file, L)) \cup {lnum}
                          ELSE CSince(file) \cap Lines(file, L)
  BY <1>2
<1>5. ASSUME NEW n \in Setting
      PROVE  HasValue(file', CSince(file') \cap Lines(file', CSet(n)), set'[n])
  <2> DEFINE L == CSince(file) \cap Lines(file, CSet(n))
  <2>1. L \in SUBSET (1 .. Len(file)) /\ HasValue(file, L, set[n])
    BY <1>2 DEF CfgOK, COpenOK
  <2>2. CSince(file') \cap Lines(file', CSet(n)) =
          IF l \in CSet(n) THEN L \cup {lnum} ELSE L
    BY <1>4
  <2> HIDE DEF L
  <2>3. CASE l \in CSet(n)
    <3>1. HasValue(file', L \cup {lnum}, IF l.empty THEN 0 ELSE lnum)
      BY <1>1, <2>1, ValueAdded
    <3> QED
      BY <2>2, <2>3, <3>1
  <2>4. CASE l \notin CSet(n)
    <3>1. HasValue(file', L, set[n])
      BY <1>1, <2>1, ValueKept
    <3> QED
      BY <2>2, <2>4, <3>1
  <2> QED
    BY <2>3, <2>4
<1>6. ASSUME topen # 0
      PROVE  skip' <=> \E i \in CSince(file') \cap Lines(file', CSkip) :
                          topen < i
  <2>1. skip <=> \E i \in CSince(file) \cap Lines(file, CSkip) : topen < i
    BY <1>6 DEF CfgOK, COpenOK
  <2>2. topen < lnum
    <3>1. topen \in CNew(file)
      BY <1>6 DEF CfgOK, COpenOK, IsLast
    <3> QED
      BY <1>1, <1>2, <3>1 DEF CNew
  <2>3. CASE l \in CSkip
    BY <1>4, <1>6, <2>2, <2>3
  <2>4. CASE l \notin CSkip
    BY <1>4, <1>6, <2>1, <2>4
  <2> QED
    BY <2>3, <2>4
<1>7. flag <=> \E u \in CNew(file') : NamedBy(file', CTitle, CDefault, u)
  <2>1. flag <=> \E u \in CNew(file) : NamedBy(file, CTitle, CDefault, u)
    BY DEF CfgOK, COpenOK
  <2>2. ASSUME NEW u \in CNew(file)
        PROVE  NamedBy(file', CTitle, CDefault, u) <=>
                 NamedBy(file, CTitle, CDefault, u)
    <3>1. u \in 1 .. Len(file)
      BY <1>2 DEF CNew
    <3> QED
      BY <1>1, <3>1, NamedKept
  <2> QED
    BY <1>3, <2>1, <2>2
<1>8. Tidy(file')
  <2>1. CASE l \in CBrace
    BY <1>3, <2>1 DEF Tidy, Closing
  <2>2. CASE l \notin CBrace
    BY <1>1, <1>2, <1>3, <2>2 DEF Tidy
  <2> QED
    BY <2>1, <2>2
<1>9. COpenOK'
  <2>1. /\ IsLast(topen', CNew(file'))
        /\ tnum' = Cardinality(Lines(file', CTitle))
    BY <1>3 DEF CfgOK, COpenOK
  <2> QED
    BY <1>5, <1>6, <1>7, <1>8, <2>1 DEF COpenOK
<1> QED
  BY <1>1, <1>9, CfgTargetsKept DEF CfgOK

LEMMA CfgTitleKeeps ==
    ASSUME CfgOK, NEW l \in CfgLine, file' = Append(file, l), l \in CTitle,
           topen' = lnum, skip' = FALSE, flag' = (flag \/ IsDefault(l)),
           tnum' = tnum + 1, UNCHANGED <<set, modules, def, targets>>
    PROVE  CfgOK'
<1> USE DEF lnum
<1>1. /\ file \in Seq(CfgLine) /\ Len(file) \in Nat /\ Tidy(file)
      /\ file' \in Seq(CfgLine)
  BY AppendLine DEF CfgOK, COpenOK
<1>2. /\ ~Closing(file, l)
      /\ l \notin CBrace
      /\ l \notin CDefault
      /\ l \notin CSkip
      /\ \A n \in Setting : l \notin CSet(n)
  BY CfgKinds DEF Closing
<1>3. /\ \A L : Lines(file, L) \subseteq 1 .. Len(file)
      /\ \A L : Lines(file', L) = IF l \in L THEN Lines(file, L) \cup {lnum}
                                             ELSE Lines(file, L)
      /\ CSince(file) \subseteq 1 .. Len(file)
      /\ CSince(file') = CSince(file) \cup {lnum}
      /\ lnum \notin 1 .. Len(file)
  BY <1>1, <1>2, AppendLines, CSinceGrows
<1>4. /\ CNew(file') = CNew(file) \cup {lnum}
      /\ CNew(file) \subseteq 1 .. Len(file)
  BY <1>3 DEF CNew
<1>5. \A L : l \notin L => CSince(file') \cap Lines(file', L) =
                             CSince(file) \cap Lines(file, L)
  BY <1>3
<1>6. Shapes'
  <2>1. flag' \in BOOLEAN
    BY Zenon
  <2>2. lnum \in Nat
    BY <1>1
  <2> HIDE DEF lnum
  <2> QED
    BY <2>1, <2>2 DEF CfgOK, Shapes
<1>7. IsLast(lnum, CNew(file'))
  BY <1>1, <1>4 DEF IsLast
<1>8. ASSUME NEW n \in Setting
      PROVE  HasValue(file', CSince(file') \cap Lines(file', CSet(n)), set[n])
  <2> DEFINE L == CSince(file) \cap Lines(file, CSet(n))
  <2>1. L \in SUBSET (1 .. Len(file)) /\ HasValue(file, L, set[n])
    BY <1>3 DEF CfgOK, COpenOK
  <2>2. CSince(file') \cap Lines(file', CSet(n)) = L
    BY <1>2, <1>5
  <2> HIDE DEF L
  <2> QED
    BY <1>1, <2>1, <2>2, ValueKept
<1>9. ~\E i \in CSince(file') \cap Lines(file', CSkip) : lnum < i
  BY <1>1, <1>2, <1>3, <1>5
<1>10. flag' <=> \E u \in CNew(file') : NamedBy(file', CTitle, CDefault, u)
  <2>1. flag <=> \E u \in CNew(file) : NamedBy(file, CTitle, CDefault, u)
    BY DEF CfgOK, COpenOK
  <2>2. ASSUME NEW u \in CNew(file)
        PROVE  NamedBy(file', CTitle, CDefault, u) <=>
                 NamedBy(file, CTitle, CDefault, u)
    BY <1>1, <1>4, NamedKept
  <2>3. NamedBy(file', CTitle, CDefault, lnum) <=> IsDefault(l)
    <3>1. /\ DefaultIs(file, CDefault, def)
          /\ tnum = Cardinality(Lines(file, CTitle))
      BY DEF CfgOK, COpenOK
    <3>2. NamedBy(file', CTitle, CDefault, Len(file) + 1) <=>
            \/ def.num = Cardinality(Lines(file, CTitle))
            \/ def.text # NoTitle /\ def.text = l.text
      BY <1>1, <1>2, <3>1, NamedNew
    <3> QED
      BY <3>1, <3>2 DEF IsDefault
  <2> QED
    BY <1>4, <2>1, <2>2, <2>3
<1>11. Tidy(file')
  BY <1>1, <1>2, <1>3, <1>4 DEF Tidy
<1>12. tnum' = Cardinality(Lines(file', CTitle))
  BY <1>1, LinesCounted DEF CfgOK, COpenOK
<1>13. DefaultIs(file', CDefault, def')
  BY <1>1, <1>2, DefaultKept DEF CfgOK, COpenOK
<1>14. COpenOK'
  BY <1>7, <1>8, <1>9, <1>10, <1>11, <1>12, <1>13 DEF COpenOK
<1> QED
  BY <1>1, <1>2, <1>6, <1>14, CfgTargetsKept DEF CfgOK

\* A title is new, or its entry is closed.
LEMMA CTitleCases ==
    ASSUME NEW f \in Seq(CfgLine), NEW t \in Lines(f, CTitle),
           ~\E c \in CClose(f) : t < c
    PROVE  t \in CNew(f)
<1>1. \A L : /\ Lines(f, L) \subseteq 1 .. Len(f)
             /\ Lines(f, L) \subseteq DOMAIN f
  BY DEF Lines
<1>2. ASSUME NEW c \in CClose(f) PROVE c < t
  <2>1. c \in Lines(f, CBrace)
    BY DEF CClose
  <2>2. c # t
    BY <2>1, CfgKinds DEF Lines
  <2>3. c \in Nat /\ t \in Nat
    BY <1>1, <2>1
  <2> QED
    BY <2>2, <2>3
<1> QED
  BY <1>1, <1>2 DEF CNew, CSince

\* The brace that closes an entry: its lines are those since the last one.
LEMMA CSegClosed ==
    ASSUME NEW f \in Seq(CfgLine), NEW l \in CfgLine, Tidy(f), Closing(f, l),
           NEW t \in CNew(f)
    PROVE  /\ CSeg(Append(f, l), t) = CSince(f) \cup {Len(f) + 1}
           /\ \E c \in CClose(Append(f, l)) : t < c
<1> DEFINE g == Append(f, l)
<1>1. /\ Len(f) \in Nat /\ DOMAIN f = 1 .. Len(f)
      /\ DOMAIN g = 1 .. Len(f) + 1
  BY AppendLine
<1>2. /\ CClose(f) \subseteq 1 .. Len(f)
      /\ CClose(g) = CClose(f) \cup {Len(f) + 1}
  BY CCloseGrows
<1>3. t \in 1 .. Len(f) /\ \A c \in CClose(f) : c < t
  BY <1>1 DEF CNew, CSince, Lines
<1> HIDE DEF g
<1>4. ASSUME NEW i \in 1 .. Len(f) + 1
      PROVE  i \in CSeg(g, t) <=> \A c \in CClose(f) : c < i
  <2>1. ~(Len(f) + 1 < i) /\ ~(Len(f) + 1 < t)
    BY <1>1, <1>3
  <2>2. (\A c \in CClose(g) : c < i <=> c < t) <=>
            (\A c \in CClose(f) : c < i <=> c < t)
    BY <1>2, <2>1
  <2> QED
    BY <1>1, <1>3, <2>2 DEF CSeg
<1>5. CSeg(g, t) \subseteq 1 .. Len(f) + 1
  BY <1>1 DEF CSeg
<1>6. \A c \in CClose(f) : c < Len(f) + 1
  BY <1>1, <1>2
<1>7. \A i \in 1 .. Len(f) + 1 : i \in 1 .. Len(f) \/ i = Len(f) + 1
  BY <1>1
<1>8. CSince(f) = {i \in 1 .. Len(f) : \A c \in CClose(f) : c < i}
  BY <1>1 DEF CSince
<1>9. Len(f) + 1 \in 1 .. Len(f) + 1 /\ 1 .. Len(f) \subseteq 1 .. Len(f) + 1
  BY <1>1
<1>10. CSeg(g, t) = CSince(f) \cup {Len(f) + 1}
  BY <1>4, <1>5, <1>6, <1>7, <1>8, <1>9
<1>11. t < Len(f) + 1 /\ Len(f) + 1 \in CClose(g)
  BY <1>1, <1>2, <1>3
<1> QED
  BY <1>10, <1>11 DEF g

LEMMA CfgCloses ==
    ASSUME CfgOK, NEW l \in CfgLine, file' = Append(file, l), l \in CBrace,
           topen # 0, Add, topen' = 0, set' = NoSettings, modules' = <<>>,
           flag' = FALSE, UNCHANGED <<skip, tnum, def>>
    PROVE  CfgOK'
<1> USE DEF lnum
<1> DEFINE new == [title |-> topen, set |-> set, modules |-> modules,
                   default |-> flag]
           Old == {t \in Lines(file, CTitle) : COffered(file, t)}
           All == {t \in Lines(file', CTitle) : COffered(file', t)}
<1>1. /\ file \in Seq(CfgLine) /\ Len(file) \in Nat /\ Tidy(file)
      /\ file' \in Seq(CfgLine) /\ targets \in Seq(Target) /\ topen \in Nat
      /\ new \in Target
  BY AppendLine DEF CfgOK, COpenOK, Shapes, Target
<1>2. topen \in CNew(file) /\ \A u \in CNew(file) : u <= topen
  BY DEF CfgOK, COpenOK, IsLast
<1>3. /\ Closing(file, l)
      /\ l \notin CTitle
      /\ l \notin CDefault
      /\ l \notin CSkip
      /\ \A n \in Setting : l \notin CSet(n)
  BY <1>2, CfgKinds DEF Closing
<1>4. /\ \A L : Lines(file, L) \subseteq 1 .. Len(file)
      /\ \A L : Lines(file', L) = IF l \in L THEN Lines(file, L) \cup {lnum}
                                             ELSE Lines(file, L)
      /\ CSince(file) \subseteq 1 .. Len(file)
      /\ CSince(file') = {}
      /\ lnum \notin 1 .. Len(file)
  BY <1>1, <1>3, AppendLines, CSinceGrows
<1>5. CNew(file') = {} /\ Lines(file', CTitle) = Lines(file, CTitle)
  BY <1>3, <1>4 DEF CNew
<1>6. \A u \in CNew(file) :
        /\ CSeg(file', u) = CSince(file) \cup {lnum}
        /\ \E c \in CClose(file') : u < c
  BY <1>1, <1>3, CSegClosed
<1>7. \A L, u : l \notin L /\ u \in CNew(file) =>
        CSeg(file', u) \cap Lines(file', L) = CSince(file) \cap Lines(file, L)
  BY <1>4, <1>6
<1>8. ASSUME NEW n \in Setting
      PROVE  HasValue(file', CGiven(file', topen, n), set[n])
  <2> DEFINE L == CSince(file) \cap Lines(file, CSet(n))
  <2>1. L \in SUBSET (1 .. Len(file)) /\ HasValue(file, L, set[n])
    BY <1>4 DEF CfgOK, COpenOK
  <2>2. CGiven(file', topen, n) = L
    BY <1>2, <1>3, <1>7 DEF CGiven
  <2> HIDE DEF L
  <2> QED
    BY <1>1, <2>1, <2>2, ValueKept
<1>9. Lines(file', CTitle) \cap CSeg(file', topen) = CNew(file)
  BY <1>2, <1>3, <1>7 DEF CNew
<1>10. flag <=> \E u \in Lines(file', CTitle) \cap CSeg(file', topen) :
                   NamedBy(file', CTitle, CDefault, u)
  <2>1. flag <=> \E u \in CNew(file) : NamedBy(file, CTitle, CDefault, u)
    BY DEF CfgOK, COpenOK
  <2>2. ASSUME NEW u \in CNew(file)
        PROVE  NamedBy(file', CTitle, CDefault, u) <=>
                 NamedBy(file, CTitle, CDefault, u)
    <3>1. u \in 1 .. Len(file)
      BY <1>4 DEF CNew
    <3> QED
      BY <1>1, <3>1, NamedKept
  <2> QED
    BY <1>9, <2>1, <2>2
<1>11. ASSUME NEW t \in Lines(file, CTitle), \E c \in CClose(file) : t < c
       PROVE  /\ t \in Lines(file', CTitle)
              /\ \A n, x : HasValue(file, CGiven(file, t, n), x) =>
                             HasValue(file', CGiven(file', t, n), x)
              /\ (\E u \in Lines(file, CTitle) \cap CSeg(file, t) :
                       NamedBy(file, CTitle, CDefault, u)) <=>
                 (\E u \in Lines(file', CTitle) \cap CSeg(file', t) :
                       NamedBy(file', CTitle, CDefault, u))
              /\ COffered(file', t) <=> COffered(file, t)
              /\ \E c \in CClose(file') : t < c
  BY <1>1, <1>11, CEntryKept, CSegKept
<1>12. COffered(file', topen) <=>
         ~skip /\ ~(set["root"] = 0 \/ set["kernel"] = 0)
  <2>1. \A n \in Setting : set[n] # 0 <=>
                             Filled(file', CGiven(file', topen, n))
    <3> SUFFICES ASSUME NEW n \in Setting
                 PROVE  set[n] # 0 <=> Filled(file', CGiven(file', topen, n))
      OBVIOUS
    <3>1. CGiven(file', topen, n) \in SUBSET (1 .. Len(file'))
          /\ Len(file') \in Nat
      BY <1>1, AppendLine DEF CGiven, Lines
    <3> QED
      BY <1>8, <3>1, ValueFilled
  <2>2. skip <=> ~\A i \in CSeg(file', topen) \cap Lines(file', CSkip) :
                     ~(topen < i)
    <3>1. skip <=> \E i \in CSince(file) \cap Lines(file, CSkip) : topen < i
      BY DEF CfgOK, COpenOK
    <3>2. CSeg(file', topen) \cap Lines(file', CSkip) =
            CSince(file) \cap Lines(file, CSkip)
      BY <1>2, <1>3, <1>7
    <3> QED
      BY <3>1, <3>2
  <2>3. CEnded(file', topen)
    BY <1>2, <1>6, <1>9 DEF CEnded
  <2> QED
    BY <2>1, <2>2, <2>3 DEF COffered, Setting
<1>13. All \ {topen} = Old
  <2>1. ASSUME NEW t \in Lines(file, CTitle), t # topen
        PROVE  COffered(file', t) <=> COffered(file, t)
    <3>1. CASE \E c \in CClose(file) : t < c
      BY <1>11, <3>1
    <3>2. CASE ~\E c \in CClose(file) : t < c
      <4>1. t \in CNew(file)
        BY <1>1, <3>2, CTitleCases
      <4>2. topen \in Lines(file', CTitle) \cap CSeg(file', t)
        BY <1>2, <1>5, <1>6, <4>1 DEF CNew
      <4>3. t <= topen /\ t \in Nat
        BY <1>2, <1>4, <4>1 DEF CNew
      <4>4. ~(topen <= t)
        BY <1>1, <2>1, <4>3
      <4> QED
        BY <3>2, <4>2, <4>4 DEF COffered, CEnded
    <3> QED
      BY <3>1, <3>2
  <2>2. topen \notin Old
    <3>1. ~\E c \in CClose(file) : topen < c
      <4> SUFFICES ASSUME NEW c \in CClose(file) PROVE ~(topen < c)
        OBVIOUS
      <4>1. c < topen
        BY <1>2 DEF CNew, CSince
      <4>2. c \in Nat
        BY <1>4 DEF CClose
      <4> QED
        BY <1>1, <4>1, <4>2
    <3> QED
      BY <3>1 DEF COffered, CEnded
  <2> QED
    BY <1>5, <2>1, <2>2
<1>14. topen \in All <=> ~skip /\ ~(set["root"] = 0 \/ set["kernel"] = 0)
  BY <1>2, <1>5, <1>12 DEF CNew
<1>15. IsListOf(TitlesOf(targets), Old)
  BY DEF CfgOK, CListedOK
<1>16. \A x \in Old : x \in Nat /\ x < topen
  <2> SUFFICES ASSUME NEW x \in Old PROVE x \in Nat /\ x < topen
    OBVIOUS
  <2>1. x \in Nat
    BY <1>4
  <2>2. PICK c \in CClose(file) : x < c
    BY DEF COffered, CEnded
  <2>3. c < topen /\ c \in Nat
    BY <1>2, <1>4 DEF CNew, CSince, CClose
  <2> QED
    BY <1>1, <2>1, <2>2, <2>3
<1>17. /\ targets' \in Seq(Target)
       /\ IsListOf(TitlesOf(targets'), All)
       /\ \A k \in DOMAIN targets' :
            \/ k \in DOMAIN targets /\ targets'[k] = targets[k]
            \/ targets'[k] = new
  <2> HIDE DEF All, Old
  <2>1. CASE topen \notin All
    <3>1. targets' = targets
      BY <1>14, <2>1 DEF Add
    <3> QED
      BY <1>1, <1>13, <1>15, <2>1, <3>1
  <2>2. CASE topen \in All
    <3>1. targets' = Append(targets, new)
      BY <1>14, <2>2 DEF Add
    <3>2. /\ DOMAIN targets' = 1 .. Len(targets) + 1
          /\ DOMAIN targets = 1 .. Len(targets)
          /\ \A k \in 1 .. Len(targets) : targets'[k] = targets[k]
          /\ targets'[Len(targets) + 1] = new
          /\ Len(targets) \in Nat
          /\ targets' \in Seq(Target)
      BY <1>1, <3>1, AppendLine
    <3>3. IsListOf(TitlesOf(Append(targets, new)), Old \cup {new.title})
      <4>1. Old \in SUBSET Nat /\ \A x \in Old : x < new.title
        BY <1>16
      <4> HIDE DEF new
      <4> QED
        BY <1>1, <1>15, <4>1, TitleAdded
    <3>4. Old \cup {new.title} = All
      BY <1>13, <2>2
    <3>5. \A k \in 1 .. Len(targets) + 1 :
            k \in 1 .. Len(targets) \/ k = Len(targets) + 1
      BY <3>2
    <3> QED
      BY <3>1, <3>2, <3>3, <3>4, <3>5
  <2> QED
    BY <2>1, <2>2
<1>18. CClosedOK'
  <2> SUFFICES ASSUME NEW k \in DOMAIN targets', NEW t, t = targets'[k].title
               PROVE  /\ t \in Lines(file', CTitle)
                      /\ \E c \in CClose(file') : t < c
                      /\ \A n \in Setting :
                           HasValue(file', CGiven(file', t, n),
                                    targets'[k].set[n])
                      /\ targets'[k].default <=>
                           \E u \in Lines(file', CTitle) \cap CSeg(file', t) :
                              NamedBy(file', CTitle, CDefault, u)
    BY DEF CClosedOK
  <2>1. CASE k \in DOMAIN targets /\ targets'[k] = targets[k]
    <3>1. /\ t \in Lines(file, CTitle)
          /\ \E c \in CClose(file) : t < c
          /\ \A n \in Setting :
               HasValue(file, CGiven(file, t, n), targets[k].set[n])
          /\ targets[k].default <=>
               \E u \in Lines(file, CTitle) \cap CSeg(file, t) :
                  NamedBy(file, CTitle, CDefault, u)
      BY <2>1 DEF CfgOK, CClosedOK
    <3> QED
      BY <1>11, <2>1, <3>1
  <2>2. CASE targets'[k] = new
    BY <1>2, <1>5, <1>6, <1>8, <1>10, <2>2 DEF CNew
  <2> QED
    BY <1>17, <2>1, <2>2
<1>19. CListedOK'
  BY <1>17 DEF CListedOK
<1>20. Shapes'
  <2>1. <<>> \in Seq(Nat) /\ NoSettings \in [Setting -> Nat]
    BY DEF NoSettings
  <2> QED
    BY <1>17, <2>1 DEF CfgOK, Shapes
<1>21. COpenOK'
  <2>1. \A n \in Setting :
          HasValue(file', CSince(file') \cap Lines(file', CSet(n)), set'[n])
    BY <1>4 DEF HasValue, NoSettings
  <2>2. DefaultIs(file', CDefault, def')
    BY <1>1, <1>3, DefaultKept DEF CfgOK, COpenOK
  <2> QED
    BY <1>5, <2>1, <2>2 DEF COpenOK, IsLast, Tidy, CfgOK
<1> QED
  BY <1>1, <1>18, <1>19, <1>20, <1>21 DEF CfgOK

LEMMA CfgStepKeeps ==
    ASSUME CfgOK, at = "cfg", NEW l \in CfgLine, CfgStep(l)
    PROVE  CfgOK' /\ at' \in {"cfg", "done"}
<1>1. /\ at' \in {"cfg", "done"} /\ file' = Append(file, l)
      /\ file \in Seq(CfgLine)
  BY DEF CfgStep, CfgQuote, CfgEntry, CfgClose, CfgChainloader, CfgRoot,
         CfgLinux, CfgInitrd, CfgDefault, CfgTimeout, CfgSearch, CfgOther,
         CfgLineOf, NextLine, CfgOK
<1>2. /\ topen \in Nat /\ skip \in BOOLEAN /\ flag \in BOOLEAN
      /\ set \in [Setting -> Nat] /\ modules \in Seq(Nat)
      /\ targets \in Seq(Target) /\ lnum \in Nat
  BY <1>1, AppendLine DEF CfgOK, Shapes, lnum
<1>3. /\ DefaultIs(file, CDefault, def)
      /\ topen = 0 <=> CNew(file) = {}
  <2>1. DefaultIs(file, CDefault, def) /\ IsLast(topen, CNew(file))
    BY DEF CfgOK, COpenOK
  <2>2. 0 \notin CNew(file)
    BY <1>1 DEF CNew, Lines
  <2> QED
    BY <2>1, <2>2 DEF IsLast
<1>4. ASSUME l \notin CTitle, l \notin CBrace \/ topen = 0,
             UNCHANGED <<topen, modules, flag, tnum, targets>>,
             \/ l \notin CDefault /\ def' = def
             \/ /\ l \in CDefault
                /\ def' = IF l.num # NoTitle
                            THEN [num |-> l.num, text |-> NoTitle]
                            ELSE [num |-> -1, text |-> l.text],
             skip' = skip \/ (l \in CSkip /\ skip' = TRUE),
             l \in CSkip => skip' = TRUE,
             set' \in [Setting -> Nat],
             \A n \in Setting :
               set'[n] = IF CfgSetsTo(l, n) THEN IF l.empty THEN 0 ELSE lnum
                                            ELSE set[n]
      PROVE  CfgOK'
  <2>1. Shapes'
    BY <1>2, <1>4 DEF Shapes
  <2>2. DefaultIs(file', CDefault, def')
    <3>1. CASE l \notin CDefault /\ def' = def
      BY <1>1, <1>3, <3>1, DefaultKept
    <3>2. CASE /\ l \in CDefault
               /\ def' = IF l.num # NoTitle
                           THEN [num |-> l.num, text |-> NoTitle]
                           ELSE [num |-> -1, text |-> l.text]
      BY <1>1, <3>2, DefaultAdded
    <3> QED
      BY <1>4, <3>1, <3>2
  <2>3. ~Closing(file, l)
    BY <1>3, <1>4 DEF Closing
  <2>4. \A n \in Setting :
          set'[n] = IF l \in CSet(n) THEN IF l.empty THEN 0 ELSE lnum
                                     ELSE set[n]
    BY <1>4 DEF CSet
  <2>5. skip' <=> skip \/ l \in CSkip
    BY <1>2, <1>4
  <2> QED
    BY <1>1, <1>4, <2>1, <2>2, <2>3, <2>4, <2>5, CfgLineKeeps
<1>5. ASSUME l \notin CTitle, l \notin CBrace \/ topen = 0, l \notin CDefault,
             l \notin CSkip, \A n \in Setting : ~CfgSetsTo(l, n),
             UNCHANGED <<topen, skip, set, modules, flag, tnum, def, targets>>
      PROVE  CfgOK'
  BY <1>2, <1>4, <1>5
<1> SUFFICES CfgOK'
  BY <1>1
<1> USE DEF Report, Nothing, CfgLineOf, NextLine, block
<1>6. CASE CfgQuote(l)
  <2>1. l.open
        /\ UNCHANGED <<topen, skip, set, modules, flag, tnum, def, targets>>
    BY <1>6 DEF CfgQuote
  <2>2. l.name \in Quoted
    <3>1. \A k \in CfgLine : k.open => k.name \in Quoted
      BY LinesAssumption, Zenon
    <3> QED
      BY <2>1, <3>1, Zenon
  <2>3. /\ l \notin CTitle
        /\ l \notin CBrace
        /\ l \notin CDefault
        /\ l \notin CSkip
    BY <2>1, <2>2 DEF CTitle, CBrace, CDefault, CSkip, Quoted
  <2>4. \A n : ~CfgSetsTo(l, n)
    BY <2>1 DEF CfgSetsTo
  <2> QED
    BY <1>5, <2>1, <2>3, <2>4
<1>7. CASE CfgEntry(l)
  <2>1. l \in CTitle
    BY <1>7 DEF CfgEntry, CTitle
  <2>2. /\ topen' = lnum /\ skip' = FALSE /\ flag' = (flag \/ IsDefault(l))
        /\ tnum' = tnum + 1 /\ UNCHANGED <<set, modules, def, targets>>
    BY <1>7 DEF CfgEntry
  <2> QED
    BY <1>1, <2>1, <2>2, CfgTitleKeeps
<1>8. CASE CfgClose(l)
  <2>1. l.name = "}" /\ l \in CBrace /\ l \notin CTitle /\ l \notin CDefault
        /\ l \notin CSkip /\ \A n : ~CfgSetsTo(l, n)
    BY <1>8 DEF CfgClose, CBrace, CTitle, CDefault, CSkip, CfgSetsTo
  <2>2. CASE topen = 0
    <3>1. UNCHANGED <<topen, skip, set, modules, flag, tnum, def, targets>>
      BY <1>8, <2>2 DEF CfgClose
    <3> QED
      BY <1>5, <2>1, <2>2, <3>1
  <2>3. CASE topen # 0
    <3>1. /\ Add
          /\ topen' = 0 /\ set' = NoSettings /\ modules' = <<>>
          /\ flag' = FALSE
          /\ UNCHANGED <<skip, tnum, def, timeout>>
      BY <1>8, <2>3 DEF CfgClose
    <3> QED
      BY <1>1, <2>1, <2>3, <3>1, CfgCloses
  <2> QED
    BY <2>2, <2>3
<1>9. CASE CfgChainloader(l)
  <2>1. l \notin CTitle /\ l \notin CBrace /\ l \notin CDefault /\ l \in CSkip
        /\ \A n : ~CfgSetsTo(l, n)
    BY <1>9 DEF CfgChainloader, CBrace, CTitle, CDefault, CSkip, CfgSetsTo
  <2>2. skip' = TRUE
        /\ UNCHANGED <<topen, set, modules, flag, tnum, def, targets>>
    BY <1>9 DEF CfgChainloader
  <2> QED
    BY <1>2, <1>4, <2>1, <2>2
<1>10. ASSUME NEW ns \in SUBSET Setting, CfgSets(l, ns),
              l \notin CTitle, l \notin CBrace, l \notin CDefault,
              l \notin CSkip, UNCHANGED file \/ file' = Append(file, l),
              \A n \in Setting : CfgSetsTo(l, n) <=> n \in ns
       PROVE  CfgOK'
  <2>1. /\ set' = [n \in Setting |-> IF n \notin ns THEN set[n]
                                     ELSE IF l.empty THEN 0 ELSE lnum]
        /\ UNCHANGED <<topen, skip, modules, flag, tnum, def, targets>>
    BY <1>10 DEF CfgSets
  <2>2. /\ set' \in [Setting -> Nat]
        /\ \A n \in Setting :
             set'[n] = IF CfgSetsTo(l, n) THEN IF l.empty THEN 0 ELSE lnum
                                          ELSE set[n]
    BY <1>2, <1>10, <2>1
  <2> QED
    BY <1>4, <1>10, <2>1, <2>2
<1>11. CASE CfgRoot(l)
  <2>1. l \notin CTitle /\ l \notin CBrace /\ l \notin CDefault
        /\ l \notin CSkip /\ \A n \in Setting : CfgSetsTo(l, n) <=> n = "root"
    BY <1>11 DEF CfgRoot, CBrace, CTitle, CDefault, CSkip, CfgSetsTo
  <2> QED
    BY <1>10, <1>11, <2>1 DEF CfgRoot, Setting
<1>12. CASE CfgLinux(l)
  <2>1. l \notin CTitle /\ l \notin CBrace /\ l \notin CDefault
        /\ l \notin CSkip
        /\ \A n \in Setting : CfgSetsTo(l, n) <=> n \in {"kernel", "args"}
    BY <1>12 DEF CfgLinux, CBrace, CTitle, CDefault, CSkip, CfgSetsTo
  <2> QED
    BY <1>10, <1>12, <2>1 DEF CfgLinux, Setting
<1>13. CASE CfgInitrd(l)
  <2>1. l \notin CTitle /\ l \notin CBrace /\ l \notin CDefault
        /\ l \notin CSkip
        /\ \A n \in Setting : CfgSetsTo(l, n) <=> n = "initrd"
    BY <1>13 DEF CfgInitrd, CBrace, CTitle, CDefault, CSkip, CfgSetsTo, Setting
  <2> QED
    BY <1>10, <1>13, <2>1 DEF CfgInitrd, Setting
<1>14. CASE CfgDefault(l)
  <2>1. l \notin CTitle /\ l \notin CBrace /\ l \in CDefault /\ l \notin CSkip
        /\ \A n : ~CfgSetsTo(l, n)
    BY <1>14 DEF CfgDefault, CBrace, CTitle, CDefault, CSkip, CfgSetsTo
  <2>2. /\ def' = IF l.num # NoTitle THEN [num |-> l.num, text |-> NoTitle]
                                     ELSE [num |-> -1, text |-> l.text]
        /\ UNCHANGED <<topen, skip, set, modules, flag, tnum, targets>>
    BY <1>14 DEF CfgDefault
  <2> QED
    BY <1>2, <1>4, <2>1, <2>2
<1>15. CASE CfgTimeout(l)
  <2>1. l \notin CTitle /\ l \notin CBrace /\ l \notin CDefault
        /\ l \notin CSkip /\ \A n : ~CfgSetsTo(l, n)
    BY <1>15 DEF CfgTimeout, CBrace, CTitle, CDefault, CSkip, CfgSetsTo
  <2>2. UNCHANGED <<topen, skip, set, modules, flag, tnum, def, targets>>
    BY <1>15 DEF CfgTimeout
  <2> QED
    BY <1>5, <2>1, <2>2
<1>16. CASE CfgSearch(l)
  <2>1. l.name = "search" /\ ~l.open /\ l \notin CTitle /\ l \notin CBrace
        /\ l \notin CDefault /\ l \notin CSkip
    BY <1>16 DEF CfgSearch, CBrace, CTitle, CDefault, CSkip
  <2>2. \A n \in Setting :
          CfgSetsTo(l, n) <=>
            n = "root" /\ SetsRoot(l) /\ By(l) \in {"label", "uuid"}
    BY <2>1 DEF CfgSetsTo
  <2>3. CASE SetsRoot(l) /\ By(l) \in {"label", "uuid"}
    <3>1. CfgSets(l, {"root"})
      BY <1>16, <2>3 DEF CfgSearch
    <3> QED
      BY <1>1, <1>10, <2>1, <2>2, <2>3, <3>1 DEF Setting
  <2>4. CASE ~(SetsRoot(l) /\ By(l) \in {"label", "uuid"})
    <3>1. UNCHANGED <<topen, skip, set, modules, flag, tnum, def, targets>>
      BY <1>16, <2>4 DEF CfgSearch
    <3>2. \A n \in Setting : ~CfgSetsTo(l, n)
      BY <2>2, <2>4
    <3> QED
      BY <1>5, <2>1, <3>1, <3>2
  <2> QED
    BY <2>3, <2>4
<1>17. CASE CfgOther(l)
  <2>1. l \notin CTitle /\ l \notin CBrace /\ l \notin CDefault
        /\ l \notin CSkip /\ \A n : ~CfgSetsTo(l, n)
    BY <1>17 DEF CfgOther, CBrace, CTitle, CDefault, CSkip, CfgSetsTo
  <2>2. UNCHANGED <<topen, skip, set, modules, flag, tnum, def, targets>>
    BY <1>17 DEF CfgOther
  <2> QED
    BY <1>5, <2>1, <2>2
<1> QED
  BY <1>1, <1>6, <1>7, <1>8, <1>9, <1>11, <1>12, <1>13, <1>14, <1>15, <1>16,
     <1>17 DEF CfgStep

-----------------------------------------------------------------------------
(***************************************************************************)
(* The invariant.                                                          *)
(***************************************************************************)
\* Before a file is read.
FreshOK ==
    /\ file = <<>> /\ topen = 0 /\ skip = FALSE /\ set = NoSettings
    /\ modules = <<>> /\ flag = FALSE /\ tnum = 0 /\ def = NoDefault
    /\ targets = <<>>

FilesOK ==
    \/ FreshOK
    \/ at \in {"menu", "done"} /\ MenuOK
    \/ at \in {"cfg", "done"} /\ CfgOK

LEMMA FreshLines ==
    ASSUME FreshOK
    PROVE  /\ \A L : Lines(file, L) = {} /\ IsLast(0, {})
           /\ CClose(file) = {} /\ CNew(file) = {}
           /\ Cardinality({}) = 0
           /\ \A D : DefaultIs(file, D, def)
           /\ Shapes /\ \A S : file \in Seq(S)
           /\ DOMAIN targets = {} /\ IsListOf(TitlesOf(targets), {})
<1>1. DOMAIN file = {} /\ DOMAIN targets = {}
  BY DEF FreshOK
<1>2. \A L : Lines(file, L) = {}
  BY <1>1 DEF Lines
<1>3. CClose(file) = {} /\ CNew(file) = {}
  BY <1>2 DEF CClose, CNew
<1>4. \A D : DefaultIs(file, D, def)
  BY <1>2 DEF DefaultIs, FreshOK
<1>5. \A S : <<>> \in Seq(S)
  OBVIOUS
<1>6. Shapes /\ \A S : file \in Seq(S)
  BY <1>5 DEF FreshOK, Shapes, NoSettings
<1>7. IsListOf(TitlesOf(targets), {})
  BY <1>1 DEF IsListOf, TitlesOf
<1> QED
  BY <1>1, <1>2, <1>3, <1>4, <1>6, <1>7, FS_EmptySet DEF IsLast

LEMMA FreshMenu == FreshOK => MenuOK
<1> SUFFICES ASSUME FreshOK PROVE MenuOK
  OBVIOUS
<1>1. MOpenOK
  BY FreshLines DEF MOpenOK, FreshOK
<1>2. MClosedOK
  BY FreshLines DEF MClosedOK
<1>3. MListedOK
  <2>1. {t \in Lines(file, MTitle) :
            MOffered(file, Gives, t) /\ (at = "menu" => t # topen)} = {}
    BY FreshLines
  <2> QED
    BY <2>1, FreshLines DEF MListedOK
<1> QED
  BY <1>1, <1>2, <1>3, FreshLines DEF MenuOK

LEMMA FreshCfg == FreshOK => CfgOK
<1> SUFFICES ASSUME FreshOK PROVE CfgOK
  OBVIOUS
<1>1. COpenOK
  <2>1. \A n \in Setting :
          HasValue(file, CSince(file) \cap Lines(file, CSet(n)), set[n])
    BY FreshLines DEF HasValue, FreshOK, NoSettings
  <2>2. Tidy(file)
    BY FreshLines DEF Tidy
  <2> QED
    BY <2>1, <2>2, FreshLines DEF COpenOK, FreshOK
<1>2. CClosedOK
  BY FreshLines DEF CClosedOK
<1>3. CListedOK
  <2>1. {t \in Lines(file, CTitle) : COffered(file, t)} = {}
    BY FreshLines
  <2> QED
    BY <2>1, FreshLines DEF CListedOK
<1> QED
  BY <1>1, <1>2, <1>3, FreshLines DEF CfgOK

\* What a step is: a line or the end of a file, or it reads neither file.
LEMMA GStep ==
    ASSUME [GNext]_gvars
    PROVE  \/ at = "menu" /\ \E l \in MenuLine : MenuStep(l)
           \/ at = "menu" /\ MenuEnd
           \/ at = "cfg" /\ \E l \in CfgLine : CfgStep(l)
           \/ at = "cfg" /\ at' = "done"
                /\ UNCHANGED <<search, mapLines, devmap, file, topen, skip, set, modules, flag, tnum,
                               def, targets, timeout, reported>>
           \/ at \notin {"menu", "cfg", "done"}
                /\ UNCHANGED <<file, topen, skip, set, modules, flag, tnum,
                               def, targets, timeout, reported>>
           \/ UNCHANGED gvars
<1>1. CASE GNext
  <2>1. CASE GProcess
    BY <2>1 DEF GProcess, SearchKey, SearchDisks, ProbeFinds, ProbeMisses,
                ProbedAll, LoadMounts, LoadFinds, LoadWaits, LoadAgain,
                LoadKey, TakeKey, EraseHangs, MapEntry, MapEnd, FindCfg,
                FindMenu, CfgEnd, read, block
  <2>2. CASE Plug \/ Type
    BY <2>2 DEF Plug, Type, read, block
  <2> QED
    BY <1>1, <2>1, <2>2 DEF GNext, Loaded
<1> QED
  BY <1>1

LEMMA FilesInit == GInit => FilesOK
  BY DEF GInit, FilesOK, FreshOK

LEMMA FilesStep == FilesOK /\ [GNext]_gvars => FilesOK'
<1> SUFFICES ASSUME FilesOK, [GNext]_gvars PROVE FilesOK'
  OBVIOUS
<1>1. CASE at = "menu" /\ ((\E l \in MenuLine : MenuStep(l)) \/ MenuEnd)
  <2>1. MenuOK
    BY <1>1, FreshMenu DEF FilesOK
  <2>2. CASE \E l \in MenuLine : MenuStep(l)
    BY <1>1, <2>1, <2>2, MenuStepKeeps DEF FilesOK
  <2>3. CASE MenuEnd
    <3>1. at' = "done"
      BY <2>3 DEF MenuEnd
    <3> QED
      BY <1>1, <2>1, <2>3, <3>1, MenuEndKeeps DEF FilesOK
  <2> QED
    BY <1>1, <2>2, <2>3
<1>2. CASE at = "cfg" /\ \E l \in CfgLine : CfgStep(l)
  <2>1. CfgOK
    BY <1>2, FreshCfg DEF FilesOK
  <2> QED
    BY <1>2, <2>1, CfgStepKeeps DEF FilesOK
<1>3. CASE at = "cfg" /\ at' = "done"
             /\ UNCHANGED <<devmap, file, topen, skip, set, modules, flag,
                            tnum, def, targets>>
  <2>1. CfgOK
    BY <1>3, FreshCfg DEF FilesOK
  <2>2. CfgOK'
    BY <1>3, <2>1 DEF CfgOK, Shapes, COpenOK, CClosedOK, CListedOK
  <2> QED
    BY <1>3, <2>2 DEF FilesOK
<1>4. CASE at \notin {"menu", "cfg", "done"}
             /\ UNCHANGED <<file, topen, skip, set, modules, flag, tnum, def,
                            targets>>
  BY <1>4 DEF FilesOK, FreshOK
<1>5. CASE UNCHANGED gvars
  <2>1. UNCHANGED <<at, devmap, file, topen, skip, set, modules, flag, tnum,
                    def, targets>>
    BY <1>5 DEF gvars, block
  <2>2. Gives' = Gives
    BY <2>1 DEF Gives, MenuSets, IsPath, IsDevice, Known
  <2>3. MenuOK => MenuOK'
    BY <2>1, <2>2 DEF MenuOK, Shapes, MOpenOK, MClosedOK, MListedOK
  <2>4. CfgOK => CfgOK'
    BY <2>1 DEF CfgOK, Shapes, COpenOK, CClosedOK, CListedOK
  <2> QED
    BY <2>1, <2>3, <2>4 DEF FilesOK, FreshOK
<1> QED
  BY <1>1, <1>2, <1>3, <1>4, <1>5, GStep

LEMMA FilesHold == GSpec => []FilesOK
  BY FilesInit, FilesStep, PTL DEF GSpec

-----------------------------------------------------------------------------
(***************************************************************************)
(* The invariant in the words of Grub.                                     *)
(***************************************************************************)
LEMMA LastIs ==
    ASSUME NEW n \in Nat, NEW S \in SUBSET (1 .. n), S # {}
    PROVE  /\ Last(S) \in S /\ \A i \in S : i <= Last(S)
           /\ \A m \in S : (\A i \in S : i <= m) => m = Last(S)
<1>1. \E m \in S : \A i \in S : i <= m
  BY GreatestOf
<1>2. Last(S) \in S /\ \A i \in S : i <= Last(S)
  BY <1>1 DEF Last
<1>3. ASSUME NEW m \in S, \A i \in S : i <= m PROVE m = Last(S)
  <2>1. m <= Last(S) /\ Last(S) <= m
    BY <1>2, <1>3
  <2>2. \A i \in S : i \in Nat
    OBVIOUS
  <2>3. m \in Nat /\ Last(S) \in Nat
    BY <1>2, <2>2
  <2> QED
    BY <2>1, <2>3
<1> QED
  BY <1>2, <1>3

\* What the lines S of f leave: Value(f, t, n) for those of setting n.
ValueOf(f, S) ==
    IF S = {} THEN 0 ELSE IF f[Last(S)].empty THEN 0 ELSE Last(S)

LEMMA ValueMeans ==
    ASSUME NEW f, Len(f) \in Nat, NEW S \in SUBSET (1 .. Len(f))
    PROVE  /\ \A x : HasValue(f, S, x) => x = ValueOf(f, S)
           /\ Filled(f, S) <=> ValueOf(f, S) # 0
<1>1. CASE S = {}
  BY <1>1 DEF HasValue, Filled, ValueOf
<1>2. CASE S # {}
  <2>1. /\ Last(S) \in S /\ \A i \in S : i <= Last(S)
        /\ \A m \in S : (\A i \in S : i <= m) => m = Last(S)
    BY <1>2, LastIs
  <2>2. Last(S) # 0
    BY <2>1
  <2> QED
    BY <1>2, <2>1, <2>2 DEF HasValue, Filled, ValueOf
<1> QED
  BY <1>1, <1>2

\* The last line of E names u.
LastNames(f, T, E, u) ==
    /\ E # {}
    /\ IF f[Last(E)].num # NoTitle
         THEN f[Last(E)].num = Cardinality({t \in Lines(f, T) : t < u})
         ELSE f[Last(E)].text # NoTitle /\ f[Last(E)].text = f[u].text

LEMMA NamedMeans ==
    ASSUME NEW S, NEW f \in Seq(S), NEW T, NEW D, NEW u
    PROVE  NamedBy(f, T, D, u) <=>
             LastNames(f, T, {i \in Lines(f, D) : i < u}, u)
<1> DEFINE E == {i \in Lines(f, D) : i < u}
<1>1. E \in SUBSET (1 .. Len(f)) /\ Len(f) \in Nat
  BY DEF Lines
<1>2. CASE E = {}
  BY <1>2 DEF NamedBy, LastNames
<1>3. CASE E # {}
  <2>1. /\ Last(E) \in E /\ \A i \in E : i <= Last(E)
        /\ \A m \in E : (\A i \in E : i <= m) => m = Last(E)
    BY <1>1, <1>3, LastIs
  <2>2. Last(E) \in Lines(f, D) /\ Last(E) < u
    BY <2>1
  <2>3. \A m \in Lines(f, D) :
          m < u /\ (\A i \in Lines(f, D) : i < u => i <= m) => m = Last(E)
    BY <2>1
  <2>4. \A i \in Lines(f, D) : i < u => i <= Last(E)
    BY <2>1
  <2>5. LastNames(f, T, E, u) <=>
          IF f[Last(E)].num # NoTitle
            THEN f[Last(E)].num = Cardinality({t \in Lines(f, T) : t < u})
            ELSE f[Last(E)].text # NoTitle /\ f[Last(E)].text = f[u].text
    BY <1>3 DEF LastNames
  <2>6. NamedBy(f, T, D, u) <=> LastNames(f, T, E, u)
    <3> HIDE DEF E
    <3> QED
      BY <2>2, <2>3, <2>4, <2>5 DEF NamedBy
  <2> QED
    BY <2>6 DEF E
<1> QED
  BY <1>2, <1>3

\* menu.lst ...
LEMMA MenuMeans ==
    ASSUME NEW f \in Seq(MenuLine)
    PROVE  /\ ~IsCfg(f) /\ Titles(f) = Lines(f, MTitle)
           /\ \A t, n : n \in Setting \cup {"module"} =>
                /\ Given(f, t, n) = MGiven(f, Gives, t, n)
                /\ MGiven(f, Gives, t, n) \in SUBSET (1 .. Len(f))
           /\ \A t : /\ Own(f, t) = MOwn(f, t)
                     /\ Skipped(f, t) <=> MOwn(f, t) \cap Lines(f, MSkip) # {}
           /\ \A u : Named(f, u) <=> NamedBy(f, MTitle, MDefault, u)
<1>1. /\ DOMAIN f = 1 .. Len(f) /\ Len(f) \in Nat
      /\ \A i \in DOMAIN f : f[i] \in MenuLine
  OBVIOUS
<1>2. ~IsCfg(f)
  <2>1. ASSUME IsCfg(f) PROVE FALSE
    <3>1. f[1] \in MenuLine /\ f[1] \in CfgLine
      BY <2>1 DEF IsCfg
    <3>2. f[1] \in MenuShape /\ f[1] \in CfgShape
      BY <3>1, LinesAssumption
    <3>3. "open" \notin DOMAIN f[1]
      BY <3>2 DEF MenuShape
    <3>4. "open" \in DOMAIN f[1]
      BY <3>2 DEF CfgShape
    <3> QED
      BY <3>3, <3>4
  <2> QED
    BY <2>1
<1>3. Titles(f) = Lines(f, MTitle)
  BY <1>1, <1>2 DEF Titles, Lines, MTitle
<1>4. \A t : Own(f, t) = MOwn(f, t)
  BY <1>2, <1>3 DEF Own, MOwn
<1>5. ASSUME NEW t, NEW n \in Setting \cup {"module"}
      PROVE  /\ Given(f, t, n) = MGiven(f, Gives, t, n)
             /\ MGiven(f, Gives, t, n) \in SUBSET (1 .. Len(f))
  <2>1. Given(f, t, n) = {i \in MOwn(f, t) : MenuSets(f[i], n)}
    BY <1>2, <1>4 DEF Given
  <2>2. MOwn(f, t) \subseteq DOMAIN f
    BY DEF MOwn
  <2>3. Lines(f, Gives[n]) = {i \in DOMAIN f : MenuSets(f[i], n)}
    BY <1>1 DEF Lines, Gives
  <2> QED
    BY <1>1, <2>1, <2>2, <2>3 DEF MGiven
<1>6. ASSUME NEW t
      PROVE  Skipped(f, t) <=> MOwn(f, t) \cap Lines(f, MSkip) # {}
  <2>1. \A i \in MOwn(f, t) : t < i /\ i \in DOMAIN f
    BY DEF MOwn
  <2>2. \A i \in DOMAIN f :
          i \in Lines(f, MSkip) <=> \/ f[i].name = "chainloader"
                                    \/ f[i].name = "root" /\ f[i].empty
    BY <1>1 DEF Lines, MSkip
  <2> QED
    BY <1>4, <2>1, <2>2 DEF Skipped
<1>7. ASSUME NEW u
      PROVE  Named(f, u) <=> NamedBy(f, MTitle, MDefault, u)
  <2> DEFINE E == {i \in Lines(f, MDefault) : i < u}
  <2>1. {i \in DOMAIN f : /\ i < u
                          /\ f[i].name = "default" /\ ~f[i].empty} = E
    BY <1>1 DEF Lines, MDefault
  <2>2. NamedBy(f, MTitle, MDefault, u) <=> LastNames(f, MTitle, E, u)
    BY NamedMeans
  <2> HIDE DEF E
  <2>3. Named(f, u) <=> LastNames(f, MTitle, E, u)
    BY <1>2, <1>3, <2>1 DEF Named, LastNames
  <2> QED
    BY <2>2, <2>3
<1> QED
  BY <1>2, <1>3, <1>4, <1>5, <1>6, <1>7

\* ... and grub.cfg.
LEMMA CfgMeans ==
    ASSUME NEW f \in Seq(CfgLine), f # <<>>
    PROVE  /\ IsCfg(f) /\ Titles(f) = Lines(f, CTitle)
           /\ \A t, n : n \in Setting =>
                /\ Given(f, t, n) = CGiven(f, t, n)
                /\ CGiven(f, t, n) \in SUBSET (1 .. Len(f))
           /\ \A t : /\ Own(f, t) = CSeg(f, t)
                     /\ Skipped(f, t) <=>
                          \E i \in CSeg(f, t) \cap Lines(f, CSkip) : t < i
                     /\ Ended(f, t) <=> CEnded(f, t)
           /\ \A u : Named(f, u) <=> NamedBy(f, CTitle, CDefault, u)
<1>1. /\ DOMAIN f = 1 .. Len(f) /\ Len(f) \in Nat
      /\ \A i \in DOMAIN f : f[i] \in CfgLine
  OBVIOUS
<1>2. IsCfg(f)
  <2>1. 1 \in DOMAIN f
    BY <1>1
  <2> QED
    BY <1>1, <2>1 DEF IsCfg
<1>3. Titles(f) = Lines(f, CTitle)
  BY <1>1, <1>2 DEF Titles, Lines, CTitle
<1>4. Closes(f) = CClose(f)
  <2>1. \A i \in DOMAIN f : f[i].name = "}" <=> i \in Lines(f, CBrace)
    BY <1>1 DEF Lines, CBrace
  <2>2. Lines(f, CBrace) \subseteq DOMAIN f
    BY DEF Lines
  <2>3. \A t, c : (\A i \in DOMAIN f : t < i /\ i < c => f[i].name # "}") <=>
                  (\A i \in Lines(f, CBrace) : ~(t < i /\ i < c))
    BY <2>1, <2>2
  <2>4. ASSUME NEW c \in DOMAIN f
        PROVE  (/\ f[c].name = "}"
                /\ \E t \in Titles(f) :
                     /\ t < c
                     /\ \A i \in DOMAIN f : t < i /\ i < c => f[i].name # "}")
               <=> c \in CClose(f)
    <3>1. c \in CClose(f) <=>
            /\ c \in Lines(f, CBrace)
            /\ \E t \in Lines(f, CTitle) :
                 t < c /\ \A i \in Lines(f, CBrace) : ~(t < i /\ i < c)
      BY DEF CClose
    <3>2. \A t : (/\ t < c
                  /\ \A i \in DOMAIN f : t < i /\ i < c => f[i].name # "}")
                 <=> t < c /\ \A i \in Lines(f, CBrace) : ~(t < i /\ i < c)
      BY <2>3
    <3>3. f[c].name = "}" <=> c \in Lines(f, CBrace)
      BY <2>1
    <3> QED
      BY <1>3, <3>1, <3>2, <3>3, Zenon
  <2>5. Closes(f) \subseteq DOMAIN f /\ CClose(f) \subseteq DOMAIN f
    BY <2>2 DEF Closes, CClose
  <2>6. \A c \in DOMAIN f : c \in Closes(f) <=> c \in CClose(f)
    BY <2>4 DEF Closes
  <2> QED
    BY <2>5, <2>6
<1>5. \A t : Own(f, t) = CSeg(f, t)
  BY <1>2, <1>4 DEF Own, CSeg
<1>6. ASSUME NEW t, NEW n \in Setting
      PROVE  /\ Given(f, t, n) = CGiven(f, t, n)
             /\ CGiven(f, t, n) \in SUBSET (1 .. Len(f))
  <2>1. Given(f, t, n) = {i \in CSeg(f, t) : CfgSetsTo(f[i], n)}
    BY <1>2, <1>5 DEF Given
  <2>2. CSeg(f, t) \subseteq DOMAIN f
    BY DEF CSeg
  <2>3. Lines(f, CSet(n)) = {i \in DOMAIN f : CfgSetsTo(f[i], n)}
    BY <1>1 DEF Lines, CSet
  <2> QED
    BY <1>1, <2>1, <2>2, <2>3 DEF CGiven
<1>7. ASSUME NEW t
      PROVE  Skipped(f, t) <=>
               \E i \in CSeg(f, t) \cap Lines(f, CSkip) : t < i
  <2>1. \A i \in CSeg(f, t) : i \in DOMAIN f
    BY DEF CSeg
  <2>2. \A i \in DOMAIN f :
          i \in Lines(f, CSkip) <=> f[i].name = "chainloader"
    BY <1>1 DEF Lines, CSkip
  <2>3. \A i \in DOMAIN f : f[i].name # "root"
    <3> SUFFICES ASSUME NEW i \in DOMAIN f PROVE f[i].name # "root"
      OBVIOUS
    <3>1. f[i] \in CfgShape
      BY <1>1, LinesAssumption
    <3>2. f[i].name \in CfgName
      BY <3>1 DEF CfgShape
    <3> QED
      BY <3>2 DEF CfgName
  <2> QED
    BY <1>5, <2>1, <2>2, <2>3 DEF Skipped
<1>8. ASSUME NEW t PROVE Ended(f, t) <=> CEnded(f, t)
  BY <1>2, <1>3, <1>4, <1>5 DEF Ended, CEnded
<1>9. ASSUME NEW u
      PROVE  Named(f, u) <=> NamedBy(f, CTitle, CDefault, u)
  <2> DEFINE E == {i \in Lines(f, CDefault) : i < u}
  <2>1. {i \in DOMAIN f : /\ i < u
                          /\ f[i].name = "set default" /\ ~f[i].open} = E
    BY <1>1 DEF Lines, CDefault
  <2>2. NamedBy(f, CTitle, CDefault, u) <=> LastNames(f, CTitle, E, u)
    BY NamedMeans
  <2> HIDE DEF E
  <2>3. Named(f, u) <=> LastNames(f, CTitle, E, u)
    BY <1>2, <1>3, <2>1 DEF Named, LastNames
  <2> QED
    BY <2>2, <2>3
<1> QED
  BY <1>2, <1>3, <1>5, <1>6, <1>7, <1>8, <1>9

LEMMA MenuOKMeans ==
    ASSUME MenuOK, at # "cfg"
    PROVE  /\ MenuOwnLines /\ CfgOwnLines /\ DefaultCounted
           /\ OfferedOnce
<1>1. file \in Seq(MenuLine) /\ Len(file) \in Nat
  BY AppendLine DEF MenuOK
<1>2. /\ ~IsCfg(file) /\ Titles(file) = Lines(file, MTitle)
      /\ \A t, n : n \in Setting \cup {"module"} =>
           /\ Given(file, t, n) = MGiven(file, Gives, t, n)
           /\ MGiven(file, Gives, t, n) \in SUBSET (1 .. Len(file))
      /\ \A t : /\ Own(file, t) = MOwn(file, t)
                /\ Skipped(file, t) <=>
                     MOwn(file, t) \cap Lines(file, MSkip) # {}
      /\ \A u : Named(file, u) <=> NamedBy(file, MTitle, MDefault, u)
  BY <1>1, MenuMeans
<1>3. ASSUME NEW t, NEW n \in Setting
      PROVE  /\ \A x : HasValue(file, MGiven(file, Gives, t, n), x) =>
                         x = Value(file, t, n)
             /\ Filled(file, MGiven(file, Gives, t, n)) <=>
                  Value(file, t, n) # 0
  <2> DEFINE S == MGiven(file, Gives, t, n)
  <2>1. S \in SUBSET (1 .. Len(file)) /\ S = Given(file, t, n)
    BY <1>2
  <2>2. Value(file, t, n) = ValueOf(file, S)
    BY <2>1 DEF Value, ValueOf
  <2> HIDE DEF S
  <2>3. /\ \A x : HasValue(file, S, x) => x = Value(file, t, n)
        /\ Filled(file, S) <=> Value(file, t, n) # 0
    BY <1>1, <2>1, <2>2, ValueMeans
  <2> QED
    BY <2>3 DEF S
<1>4. ASSUME NEW k \in DOMAIN targets
      PROVE  /\ targets[k].title \in Titles(file)
             /\ OwnSettings(k)
             /\ IsListOf(targets[k].modules,
                         Given(file, targets[k].title, "module"))
             /\ targets[k].default <=> Named(file, targets[k].title)
  <2>1. MRead(file, Gives, targets[k].title, targets[k].set,
              targets[k].modules, targets[k].default)
    BY DEF MenuOK, MClosedOK
  <2> QED
    BY <1>2, <1>3, <2>1 DEF MRead, OwnSettings
<1>5. MenuOwnLines /\ CfgOwnLines
  BY <1>2, <1>4 DEF MenuOwnLines, CfgOwnLines
<1>6. DefaultCounted
  BY <1>2, <1>4 DEF DefaultCounted
<1>7. OfferedOnce
  <2> SUFFICES ASSUME at = "done"
               PROVE  IsListOf([k \in DOMAIN targets |-> targets[k].title],
                               {t \in Titles(file) : /\ Complete(file, t)
                                                     /\ ~Skipped(file, t)
                                                     /\ Ended(file, t)})
    BY DEF OfferedOnce
  <2>1. \A t : MOffered(file, Gives, t) <=>
                 Complete(file, t) /\ ~Skipped(file, t) /\ Ended(file, t)
    BY <1>2, <1>3 DEF MOffered, Complete, Ended, Setting
  <2>2. {t \in Lines(file, MTitle) :
            MOffered(file, Gives, t) /\ (at = "menu" => t # topen)} =
          {t \in Titles(file) : /\ Complete(file, t)
                                /\ ~Skipped(file, t)
                                /\ Ended(file, t)}
    BY <1>2, <2>1
  <2> QED
    BY <2>2 DEF MenuOK, MListedOK, TitlesOf
<1> QED
  BY <1>5, <1>6, <1>7

LEMMA CfgOKMeans ==
    ASSUME CfgOK, file # <<>>
    PROVE  /\ MenuOwnLines /\ CfgOwnLines /\ DefaultCounted
           /\ OfferedOnce
<1>1. file \in Seq(CfgLine) /\ Len(file) \in Nat
  BY AppendLine DEF CfgOK
<1>2. /\ IsCfg(file) /\ Titles(file) = Lines(file, CTitle)
      /\ \A t, n : n \in Setting =>
           /\ Given(file, t, n) = CGiven(file, t, n)
           /\ CGiven(file, t, n) \in SUBSET (1 .. Len(file))
      /\ \A t : /\ Own(file, t) = CSeg(file, t)
                /\ Skipped(file, t) <=>
                     \E i \in CSeg(file, t) \cap Lines(file, CSkip) : t < i
                /\ Ended(file, t) <=> CEnded(file, t)
      /\ \A u : Named(file, u) <=> NamedBy(file, CTitle, CDefault, u)
  BY <1>1, CfgMeans
<1>3. ASSUME NEW t, NEW n \in Setting
      PROVE  /\ \A x : HasValue(file, CGiven(file, t, n), x) =>
                         x = Value(file, t, n)
             /\ Filled(file, CGiven(file, t, n)) <=> Value(file, t, n) # 0
  <2> DEFINE S == CGiven(file, t, n)
  <2>1. S \in SUBSET (1 .. Len(file)) /\ S = Given(file, t, n)
    BY <1>2
  <2>2. Value(file, t, n) = ValueOf(file, S)
    BY <2>1 DEF Value, ValueOf
  <2> HIDE DEF S
  <2>3. /\ \A x : HasValue(file, S, x) => x = Value(file, t, n)
        /\ Filled(file, S) <=> Value(file, t, n) # 0
    BY <1>1, <2>1, <2>2, ValueMeans
  <2> QED
    BY <2>3 DEF S
<1>4. ASSUME NEW k \in DOMAIN targets, NEW t, t = targets[k].title
      PROVE  /\ t \in Titles(file)
             /\ OwnSettings(k)
             /\ targets[k].default <=>
                  \E u \in Titles(file) \cap Own(file, t) : Named(file, u)
  <2>1. /\ t \in Lines(file, CTitle)
        /\ \A n \in Setting :
             HasValue(file, CGiven(file, t, n), targets[k].set[n])
        /\ targets[k].default <=>
             \E u \in Lines(file, CTitle) \cap CSeg(file, t) :
                NamedBy(file, CTitle, CDefault, u)
    BY <1>4 DEF CfgOK, CClosedOK
  <2> QED
    BY <1>2, <1>3, <1>4, <2>1 DEF OwnSettings
<1>5. MenuOwnLines /\ CfgOwnLines
  BY <1>2, <1>4 DEF MenuOwnLines, CfgOwnLines
<1>6. DefaultCounted
  <2>1. \A t \in Titles(file) : t \in Own(file, t)
    BY <1>2 DEF CSeg, Lines
  <2> QED
    BY <1>2, <1>4, <2>1 DEF DefaultCounted
<1>7. OfferedOnce
  <2>1. \A t : COffered(file, t) <=>
                 Complete(file, t) /\ ~Skipped(file, t) /\ Ended(file, t)
    BY <1>2, <1>3 DEF COffered, Complete, Setting
  <2>2. {t \in Lines(file, CTitle) : COffered(file, t)} =
          {t \in Titles(file) : /\ Complete(file, t)
                                /\ ~Skipped(file, t)
                                /\ Ended(file, t)}
    BY <1>2, <2>1
  <2> QED
    BY <2>2 DEF CfgOK, CListedOK, TitlesOf, OfferedOnce
<1> QED
  BY <1>5, <1>6, <1>7

LEMMA FilesMean ==
    FilesOK => MenuOwnLines /\ CfgOwnLines /\ DefaultCounted /\ OfferedOnce
<1> SUFFICES ASSUME FilesOK
             PROVE  MenuOwnLines /\ CfgOwnLines /\ DefaultCounted
                      /\ OfferedOnce
  OBVIOUS
<1>1. CASE CfgOK /\ file # <<>>
  BY <1>1, CfgOKMeans
<1>2. CASE MenuOK /\ at # "cfg"
  BY <1>2, MenuOKMeans
<1>3. CASE (CfgOK /\ file = <<>>) \/ FreshOK
  <2>1. file = <<>> /\ Titles(file) = {}
    BY <1>3 DEF FreshOK, Titles
  <2>2. DOMAIN targets = {}
    <3>1. CASE FreshOK
      <4>1. targets = <<>>
        BY <3>1 DEF FreshOK
      <4> QED
        BY <4>1
    <3>2. CASE CfgOK
      <4>1. Lines(file, CTitle) = {}
        BY <2>1 DEF Lines
      <4>2. \A k \in DOMAIN targets : targets[k].title \in Lines(file, CTitle)
        BY <3>2 DEF CfgOK, CClosedOK
      <4> QED
        BY <4>1, <4>2
    <3> QED
      BY <1>3, <3>1, <3>2
  <2> QED
    BY <2>1, <2>2 DEF MenuOwnLines, CfgOwnLines, DefaultCounted, OfferedOnce,
                      IsListOf
<1> QED
  BY <1>1, <1>2, <1>3 DEF FilesOK

\* The targets are the entries that are complete and of no other boot loader,
\* each once and in their order, for menu.lst and grub.cfg.
THEOREM EntriesAreOffered == GSpec => []OfferedOnce
  BY FilesMean, FilesHold, PTL

\* A target is the default exactly if the last "default" line above its title
\* counts to that title, or gives it, whatever entries were skipped.
THEOREM DefaultIsCounted == GSpec => []DefaultCounted
  BY FilesMean, FilesHold, PTL

-----------------------------------------------------------------------------
(***************************************************************************)
(* Types.  P is the numbers of the lines.                                  *)
(***************************************************************************)
TargetOf(P) ==
    [title : P, set : [Setting -> P], modules : Seq(P), default : BOOLEAN]

Typed(P) ==
    /\ topen \in P /\ skip \in BOOLEAN /\ flag \in BOOLEAN
    /\ set \in [Setting -> P] /\ modules \in Seq(P)
    /\ def.num \in Int /\ def.text \in Text \cup {NoTitle}
    /\ targets \in Seq(TargetOf(P))
    /\ timeout \in Int
    /\ reported \subseteq P

\* Where the search is.
SearchTyped ==
    /\ at \in {"search", "probe", "load", "wait", "rescan", "key", "abort",
               "map", "find cfg", "find menu", "menu", "cfg", "done", "stuck"}
    /\ present \subseteq Disk /\ left \subseteq Disk
    /\ disk \in Disk \cup {NoDisk}
    /\ at \in {"load", "wait", "rescan", "map", "find cfg", "find menu", "menu",
               "cfg"} =>
         disk # NoDisk
    /\ mapLines \in Nat /\ devmap \subseteq Gdev

LEMMA TypeParts ==
    GTypeOK <=> /\ SearchTyped
                /\ file \in Seq(MenuLine) \cup Seq(CfgLine)
                /\ tnum \in LineNo
                /\ Typed(LineNo)
  BY DEF GTypeOK, SearchTyped, Typed, TargetOf

LEMMA SeqWider ==
    ASSUME NEW P, NEW Q, P \subseteq Q, NEW s \in Seq(P)
    PROVE  s \in Seq(Q)
  OBVIOUS

LEMMA TypedWider ==
    ASSUME NEW P, NEW Q, P \subseteq Q, Typed(P)
    PROVE  Typed(Q)
<1>1. modules \in Seq(Q)
  BY SeqWider DEF Typed
<1>2. targets \in Seq(TargetOf(Q))
  <2>1. \A t \in TargetOf(P) : t \in TargetOf(Q)
    BY SeqWider DEF TargetOf
  <2> QED
    BY <2>1, SeqWider DEF Typed
<1> QED
  BY <1>1, <1>2 DEF Typed

LEMMA TypeInit == GInit => GTypeOK
<1> SUFFICES ASSUME GInit PROVE GTypeOK
  OBVIOUS
<1>1. /\ <<>> \in Seq(LineNo) /\ <<>> \in Seq(TargetOf(LineNo))
      /\ <<>> \in Seq(MenuLine)
  OBVIOUS
<1>2. Len(file) = 0 /\ 0 \in LineNo
  BY DEF GInit, LineNo
<1>3. Typed(LineNo)
  <2>1. set \in [Setting -> LineNo]
    BY <1>2 DEF GInit, NoSettings
  <2>2. def.num \in Int /\ def.text = NoTitle
    BY DEF GInit, NoDefault
  <2>3. timeout \in Int
    BY ValuesAssumption DEF GInit
  <2>4. /\ topen = 0 /\ skip = FALSE /\ flag = FALSE /\ modules = <<>>
        /\ targets = <<>> /\ reported = {}
    BY DEF GInit
  <2> QED
    BY <1>1, <1>2, <2>1, <2>2, <2>3, <2>4 DEF Typed
<1>4. SearchTyped
  BY NoDiskAssumption DEF GInit, SearchTyped
<1> QED
  BY <1>1, <1>2, <1>3, <1>4, TypeParts DEF GInit

LEMMA AddTyped ==
    ASSUME NEW P, Typed(P), Add
    PROVE  targets' \in Seq(TargetOf(P)) /\ reported' \subseteq P
<1> DEFINE new == [title |-> topen, set |-> set, modules |-> modules,
                   default |-> flag]
<1>1. /\ new \in TargetOf(P) /\ targets \in Seq(TargetOf(P))
      /\ reported \subseteq P /\ topen \in P
  BY DEF Typed, TargetOf
<1>2. targets' = targets \/ targets' = Append(targets, new)
  BY DEF Add
<1>3. reported' \subseteq reported \cup {topen}
  BY DEF Add
<1> HIDE DEF new
<1>4. targets' \in Seq(TargetOf(P))
  BY <1>1, <1>2
<1> QED
  BY <1>1, <1>3, <1>4

LEMMA ReportTyped ==
    ASSUME NEW P, Typed(P), lnum \in P, Report \/ Nothing
    PROVE  Typed(P)'
  BY DEF Typed, Report, Nothing, block

LEMMA MenuTyped ==
    ASSUME NEW P, Typed(P), lnum \in P, 0 \in P, NEW l \in MenuLine,
           MenuStep(l)
    PROVE  Typed(P)'
<1>1. l \in MenuShape
  BY LinesAssumption
<1>2. l.num \in Int
  BY <1>1 DEF MenuShape
<1> HIDE DEF lnum
<1> USE DEF NextLine
<1>3. CASE MenuTimeout(l)
  <2>1. CASE timeout # -1 \/ l.empty
    BY <1>3, <2>1, ReportTyped DEF MenuTimeout
  <2>2. CASE ~(timeout # -1 \/ l.empty)
    BY <1>2, <1>3, <2>2 DEF MenuTimeout, Typed, block
  <2> QED
    BY <2>1, <2>2
<1>10. CASE MenuDefault(l)
  <2>1. CASE l.empty
    BY <1>10, <2>1, ReportTyped DEF MenuDefault
  <2>2. CASE ~l.empty
    <3>1. def' = [num |-> l.num, text |-> NoTitle]
      BY <1>10, <2>2 DEF MenuDefault
    <3>2. UNCHANGED <<block, targets, timeout, reported>>
      BY <1>10, <2>2 DEF MenuDefault
    <3> QED
      BY <1>2, <3>1, <3>2 DEF Typed, block
  <2> QED
    BY <2>1, <2>2
<1>4. CASE MenuTitle(l)
  <2>1. CASE l.empty
    BY <1>4, <2>1, ReportTyped DEF MenuTitle
  <2>2. CASE ~l.empty
    <3>1. targets' \in Seq(TargetOf(P)) /\ reported' \subseteq P
      BY <1>4, <2>2, AddTyped DEF MenuTitle
    <3>2. (tnum = def.num) \in BOOLEAN
      OBVIOUS
    <3>3. flag' \in BOOLEAN
      BY <1>4, <2>2, <3>2, Zenon DEF MenuTitle
    <3>4. /\ topen' = lnum /\ skip' = FALSE /\ set' = NoSettings
          /\ modules' = <<>> /\ UNCHANGED <<def, timeout>>
      BY <1>4, <2>2 DEF MenuTitle
    <3>5. set' \in [Setting -> P] /\ modules' \in Seq(P)
      BY <3>4 DEF NoSettings
    <3> QED
      BY <3>1, <3>3, <3>4, <3>5 DEF Typed
  <2> QED
    BY <2>1, <2>2
<1>5. CASE MenuRoot(l)
  <2>1. CASE topen = 0 \/ (~l.empty /\ ~IsDevice(l))
    BY <1>5, <2>1, ReportTyped DEF MenuRoot
  <2>2. CASE ~(topen = 0 \/ (~l.empty /\ ~IsDevice(l)))
    <3>1. set' \in [Setting -> P] /\ skip' \in BOOLEAN
      BY <1>5, <2>2 DEF MenuRoot, Set, Typed
    <3>2. UNCHANGED <<topen, modules, flag, def, targets, timeout, reported>>
      BY <1>5, <2>2 DEF MenuRoot
    <3> QED
      BY <3>1, <3>2 DEF Typed
  <2> QED
    BY <2>1, <2>2
<1>6. CASE MenuKernel(l)
  <2>1. CASE topen = 0 \/ l.empty
    BY <1>6, <2>1, ReportTyped DEF MenuKernel
  <2>2. CASE ~(topen = 0 \/ l.empty)
    <3>1. set' = [set EXCEPT !["args"] = lnum,
                             !["kernel"] = IF IsPath(l) THEN lnum ELSE @]
      BY <1>6, <2>2 DEF MenuKernel
    <3>2. set' \in [Setting -> P]
      BY <3>1 DEF Typed
    <3>3. reported' \subseteq reported \cup {lnum}
      BY <1>6, <2>2 DEF MenuKernel
    <3>4. UNCHANGED <<topen, skip, modules, flag, def, targets, timeout>>
      BY <1>6, <2>2 DEF MenuKernel
    <3> QED
      BY <3>2, <3>3, <3>4 DEF Typed
  <2> QED
    BY <2>1, <2>2
<1>7. CASE MenuInitrd(l)
  <2>1. CASE topen = 0 \/ l.empty \/ ~IsPath(l)
    BY <1>7, <2>1, ReportTyped DEF MenuInitrd
  <2>2. CASE ~(topen = 0 \/ l.empty \/ ~IsPath(l))
    BY <1>7, <2>2 DEF MenuInitrd, Set, Typed
  <2> QED
    BY <2>1, <2>2
<1>8. CASE MenuModule(l)
  <2>1. CASE topen = 0 \/ l.empty \/ ~IsPath(l)
    BY <1>8, <2>1, ReportTyped DEF MenuModule
  <2>2. CASE ~(topen = 0 \/ l.empty \/ ~IsPath(l))
    <3>1. modules \in Seq(P)
      BY DEF Typed
    <3>2. modules' \in Seq(P)
      BY <1>8, <2>2, <3>1 DEF MenuModule
    <3> QED
      BY <1>8, <2>2, <3>2 DEF MenuModule, Typed
  <2> QED
    BY <2>1, <2>2
<1>9. CASE MenuChainloader(l) \/ MenuOther(l)
  BY <1>9, ReportTyped DEF MenuChainloader, MenuOther, Typed
<1> QED
  BY <1>3, <1>4, <1>5, <1>6, <1>7, <1>8, <1>9, <1>10 DEF MenuStep

LEMMA CfgSetsTyped ==
    ASSUME NEW P, Typed(P), lnum \in P, 0 \in P, NEW l, NEW ns, CfgSets(l, ns)
    PROVE  Typed(P)'
<1> HIDE DEF lnum
<1>1. set' \in [Setting -> P]
  BY DEF CfgSets, Typed
<1> QED
  BY <1>1 DEF CfgSets, Typed

LEMMA CfgTyped ==
    ASSUME NEW P, Typed(P), lnum \in P, 0 \in P, NEW l \in CfgLine,
           CfgStep(l)
    PROVE  Typed(P)'
<1>1. l \in CfgShape /\ (l.name = "set timeout" => l.num \in Int)
  BY LinesAssumption
<1>2. l.num \in Int \cup {NoTitle} /\ l.text \in Text \cup {NoTitle}
  BY <1>1 DEF CfgShape
<1> HIDE DEF lnum
<1> USE DEF CfgLineOf, NextLine
<1>3. CASE CfgQuote(l) \/ CfgOther(l)
  BY <1>3, ReportTyped DEF CfgQuote, CfgOther
<1>4. CASE CfgEntry(l)
  <2>1. (flag \/ IsDefault(l)) \in BOOLEAN
    OBVIOUS
  <2>2. flag' \in BOOLEAN
    BY <1>4, <2>1, Zenon DEF CfgEntry
  <2>3. /\ topen' = lnum /\ skip' = FALSE
        /\ UNCHANGED <<set, modules, def, targets, timeout, reported>>
    BY <1>4 DEF CfgEntry
  <2> QED
    BY <2>2, <2>3 DEF Typed
<1>5. CASE CfgClose(l)
  <2>1. CASE topen = 0
    BY <1>5, <2>1, ReportTyped DEF CfgClose
  <2>2. CASE topen # 0
    <3>1. targets' \in Seq(TargetOf(P)) /\ reported' \subseteq P
      BY <1>5, <2>2, AddTyped DEF CfgClose
    <3>2. /\ topen' = 0 /\ set' = NoSettings /\ modules' = <<>>
          /\ flag' = FALSE /\ UNCHANGED <<skip, def, timeout>>
      BY <1>5, <2>2 DEF CfgClose
    <3>3. set' \in [Setting -> P] /\ modules' \in Seq(P)
      BY <3>2 DEF NoSettings
    <3> QED
      BY <3>1, <3>2, <3>3 DEF Typed
  <2> QED
    BY <2>1, <2>2
<1>6. CASE CfgChainloader(l)
  BY <1>6 DEF CfgChainloader, Typed
<1>7. CASE CfgRoot(l) \/ CfgLinux(l) \/ CfgInitrd(l)
  BY <1>7, CfgSetsTyped DEF CfgRoot, CfgLinux, CfgInitrd
<1>8. CASE CfgDefault(l)
  <2>1. def'.num \in Int /\ def'.text \in Text \cup {NoTitle}
    <3>1. CASE l.num # NoTitle
      <4>1. def' = [num |-> l.num, text |-> NoTitle]
        BY <1>8, <3>1 DEF CfgDefault
      <4> QED
        BY <1>2, <3>1, <4>1
    <3>2. CASE l.num = NoTitle
      <4>1. def' = [num |-> -1, text |-> l.text]
        BY <1>8, <3>2 DEF CfgDefault
      <4> QED
        BY <1>2, <4>1
    <3> QED
      BY <3>1, <3>2
  <2>2. reported' \subseteq reported \cup {lnum}
    BY <1>8 DEF CfgDefault
  <2>3. UNCHANGED <<topen, skip, set, modules, flag, targets, timeout>>
    BY <1>8 DEF CfgDefault, block
  <2> QED
    BY <2>1, <2>2, <2>3 DEF Typed
<1>9. CASE CfgTimeout(l)
  BY <1>1, <1>9 DEF CfgTimeout, Typed, block
<1>10. CASE CfgSearch(l)
  BY <1>10, CfgSetsTyped, ReportTyped DEF CfgSearch
<1> QED
  BY <1>3, <1>4, <1>5, <1>6, <1>7, <1>8, <1>9, <1>10 DEF CfgStep

\* What the lines do to the rest: one more line, and one more title at most.
LEMMA LineGrows ==
    ASSUME \/ at = "menu" /\ \E l \in MenuLine : MenuStep(l)
           \/ at = "cfg" /\ \E l \in CfgLine : CfgStep(l)
    PROVE  /\ UNCHANGED <<search, mapLines, devmap>>
           /\ at' = at \/ at' = "done"
           /\ tnum' = tnum \/ tnum' = tnum + 1
           /\ \/ \E l \in MenuLine : at = "menu" /\ file' = Append(file, l)
              \/ \E l \in CfgLine : at = "cfg" /\ file' = Append(file, l)
<1>1. ASSUME NEW l, MenuStep(l) \/ CfgStep(l)
      PROVE  /\ UNCHANGED <<search, mapLines, devmap>>
             /\ at' = at \/ at' = "done"
             /\ file' = Append(file, l)
             /\ tnum' = tnum \/ tnum' = tnum + 1
  <2> USE DEF NextLine, Report, Nothing
  <2>1. CASE MenuStep(l)
    BY <2>1 DEF MenuStep, MenuTimeout, MenuDefault, MenuTitle, MenuRoot,
                MenuKernel, MenuInitrd, MenuModule, MenuChainloader, MenuOther
  <2>2. CASE CfgStep(l)
    BY <2>2 DEF CfgStep, CfgLineOf, CfgQuote, CfgEntry, CfgClose,
                CfgChainloader, CfgRoot, CfgLinux, CfgInitrd, CfgDefault,
                CfgTimeout, CfgSearch, CfgOther, CfgSets
  <2> QED
    BY <1>1, <2>1, <2>2
<1> QED
  BY <1>1

\* The search, device.map, and the ends of the files.
LEMMA SearchStep ==
    ASSUME SearchTyped, [GNext]_gvars
    PROVE  SearchTyped'
<1>1. CASE at \in {"menu", "cfg"} /\ UNCHANGED <<search, mapLines, devmap>>
             /\ (at' = at \/ at' = "done")
  BY <1>1 DEF SearchTyped, search
<1> USE DEF SearchTyped, search, read
<1>2. CASE SearchKey \/ LoadWaits \/ LoadAgain \/ LoadKey \/ TakeKey
             \/ EraseHangs
  BY <1>2 DEF SearchKey, LoadWaits, LoadAgain, LoadKey, TakeKey, EraseHangs
<1>3. CASE SearchDisks \/ ProbedAll \/ LoadMounts \/ MapEnd
  BY <1>3 DEF SearchDisks, ProbedAll, LoadMounts, LoadFinds, MapEnd
<1>4. CASE \E d \in Disk : ProbeFinds(d) \/ ProbeMisses(d)
  <2>1. PICK d \in Disk : ProbeFinds(d) \/ ProbeMisses(d)
    BY <1>4
  <2> QED
    BY <2>1, NoDiskAssumption DEF ProbeFinds, ProbeMisses
<1>5. CASE \E g \in MapLine : MapEntry(g)
  <2>1. PICK g \in MapLine : MapEntry(g)
    BY <1>5
  <2>2. mapLines' \in Nat
    BY <2>1 DEF MapEntry
  <2>3. {g} \ {Bad} \subseteq Gdev
    BY LinesAssumption
  <2>4. devmap' \subseteq Gdev
    BY <2>1, <2>3 DEF MapEntry
  <2> QED
    BY <2>1, <2>2, <2>4 DEF MapEntry
<1>6. CASE FindCfg
  <2>1. CASE There("grub.cfg")
    <3>1. at' = "cfg" /\ UNCHANGED <<mapLines, devmap>>
      BY <1>6, <2>1 DEF FindCfg
    <3>2. present' = {disk} /\ left' = {} /\ disk' = disk
      BY <1>6, <2>1 DEF FindCfg, Forget
    <3>3. disk \in Disk /\ disk # NoDisk
      BY <1>6 DEF FindCfg
    <3>4. present' \subseteq Disk /\ left' \subseteq Disk
      BY <3>2, <3>3
    <3> QED
      BY <3>1, <3>2, <3>3, <3>4
  <2>2. CASE ~There("grub.cfg")
    BY <1>6, <2>2 DEF FindCfg
  <2> QED
    BY <2>1, <2>2
<1>11. CASE FindMenu
  <2>1. at' \in {"menu", "done"}
    BY <1>11 DEF FindMenu
  <2>2. present' = {disk} /\ left' = {} /\ disk' = disk
    BY <1>11 DEF FindMenu, Forget
  <2>3. disk \in Disk /\ disk # NoDisk /\ UNCHANGED <<mapLines, devmap>>
    BY <1>11 DEF FindMenu
  <2>4. present' \subseteq Disk /\ left' \subseteq Disk
    BY <2>2, <2>3
  <2> QED
    BY <2>1, <2>2, <2>3, <2>4
<1>12. CASE Plug
  <2>1. present' \subseteq Disk
    BY <1>12 DEF Plug
  <2> QED
    BY <1>12, <2>1 DEF Plug
<1>13. CASE Type
  BY <1>13 DEF Type
<1>7. CASE UNCHANGED gvars
  BY <1>7 DEF SearchTyped, gvars, search
<1>8. CASE at \in {"menu", "cfg"} /\ (MenuEnd \/ CfgEnd)
  BY <1>1, <1>8 DEF MenuEnd, CfgEnd, read
<1>9. CASE \/ at = "menu" /\ \E l \in MenuLine : MenuStep(l)
           \/ at = "cfg" /\ \E l \in CfgLine : CfgStep(l)
  BY <1>1, <1>9, LineGrows DEF search
<1> QED
  BY <1>2, <1>3, <1>4, <1>5, <1>6, <1>7, <1>8, <1>9, <1>11, <1>12, <1>13
     DEF GNext, GProcess, Loaded

LEMMA TypeStep ==
    ASSUME GTypeOK, FilesOK, [GNext]_gvars
    PROVE  GTypeOK'
<1>1. file \in Seq(MenuLine) \cup Seq(CfgLine) /\ Len(file) \in Nat
  BY TypeParts, AppendLine
<1>2. PICK n \in Nat : n = Len(file)
  BY <1>1
<1>3. /\ SearchTyped /\ SearchTyped'
      /\ Typed(0 .. n) /\ tnum \in 0 .. n
  BY <1>2, TypeParts, SearchStep DEF LineNo
<1>4. ASSUME NEW m \in Nat, Len(file') = m, Typed(0 .. m)', tnum' \in 0 .. m,
             file' \in Seq(MenuLine) \cup Seq(CfgLine)
      PROVE  GTypeOK'
  <2>1. LineNo' = 0 .. m
    BY <1>4 DEF LineNo
  <2> HIDE DEF LineNo
  <2> QED
    BY <1>3, <1>4, <2>1 DEF GTypeOK, SearchTyped, Typed, TargetOf
<1>5. CASE UNCHANGED <<file, topen, skip, set, modules, flag, tnum, def,
                       targets, timeout, reported>>
  <2>1. Typed(0 .. n)'
    BY <1>3, <1>5 DEF Typed
  <2> QED
    BY <1>1, <1>2, <1>3, <1>4, <1>5, <2>1
<1>6. CASE MenuEnd
  <2>1. targets' \in Seq(TargetOf(0 .. n)) /\ reported' \subseteq 0 .. n
    BY <1>3, <1>6, AddTyped DEF MenuEnd
  <2>2. UNCHANGED <<file, topen, skip, set, modules, flag, tnum, def, timeout>>
    BY <1>6 DEF MenuEnd, block
  <2>3. Typed(0 .. n)'
    BY <1>3, <2>1, <2>2 DEF Typed
  <2> QED
    BY <1>1, <1>2, <1>3, <1>4, <2>2, <2>3
<1>7. CASE \/ at = "menu" /\ \E l \in MenuLine : MenuStep(l)
           \/ at = "cfg" /\ \E l \in CfgLine : CfgStep(l)
  <2>1. /\ at = "menu" => file \in Seq(MenuLine)
        /\ at = "cfg" => file \in Seq(CfgLine)
    BY FreshMenu, FreshCfg DEF FilesOK, MenuOK, CfgOK
  <2>2. \/ \E l \in MenuLine : at = "menu" /\ file' = Append(file, l)
        \/ \E l \in CfgLine : at = "cfg" /\ file' = Append(file, l)
    BY <1>7, LineGrows
  <2>3. /\ file' \in Seq(MenuLine) \cup Seq(CfgLine)
        /\ Len(file') = n + 1
    BY <1>2, <2>1, <2>2, AppendLine
  <2>4. tnum' \in 0 .. n + 1
    BY <1>3, <1>7, LineGrows
  <2>5. Typed(0 .. n + 1) /\ lnum \in 0 .. n + 1 /\ 0 \in 0 .. n + 1
    BY <1>2, <1>3, TypedWider DEF lnum
  <2>6. Typed(0 .. n + 1)'
    BY <1>7, <2>5, MenuTyped, CfgTyped
  <2> QED
    BY <1>4, <2>3, <2>4, <2>6
<1>8. CASE UNCHANGED gvars
  BY <1>5, <1>8 DEF gvars, block
<1> QED
  BY <1>5, <1>6, <1>7, <1>8, GStep

\* The variables have their types, and every line number is that of a line.
THEOREM GTypeCorrect == GSpec => []GTypeOK
  BY TypeInit, TypeStep, FilesHold, PTL DEF GSpec

-----------------------------------------------------------------------------
(***************************************************************************)
(* A kernel's arguments, and all that a target has.                        *)
(***************************************************************************)
\* The arguments are of the kernel's line, or of one that was reported.
ArgsOK ==
    /\ set["args"] = set["kernel"] \/ set["args"] \in reported
    /\ KernelOwnArgs

LEMMA AddArgs ==
    ASSUME ArgsOK, Add
    PROVE  KernelOwnArgs' /\ reported \subseteq reported'
<1> DEFINE new == [title |-> topen, set |-> set, modules |-> modules,
                   default |-> flag]
<1>1. reported \subseteq reported'
  BY DEF Add
<1>2. targets' = targets \/ targets' = Append(targets, new)
  BY DEF Add
<1>3. new.set["args"] = new.set["kernel"] \/ new.set["args"] \in reported
  BY DEF ArgsOK
<1> HIDE DEF new
<1>4. \A k \in DOMAIN targets' :
        \/ k \in DOMAIN targets /\ targets'[k] = targets[k]
        \/ targets'[k] = new
  BY <1>2
<1> QED
  BY <1>1, <1>3, <1>4 DEF ArgsOK, KernelOwnArgs

LEMMA LineArgs ==
    ASSUME ArgsOK, set \in [Setting -> Nat],
           (\E l \in MenuLine : MenuStep(l)) \/ (\E l \in CfgLine : CfgStep(l))
    PROVE  ArgsOK'
<1>1. CASE Add /\ set' = NoSettings
  BY <1>1, AddArgs DEF ArgsOK, NoSettings, Setting
<1>2. CASE /\ UNCHANGED targets
           /\ reported \subseteq reported'
           /\ \/ set'["args"] = set["args"] /\ set'["kernel"] = set["kernel"]
              \/ set'["args"] = set'["kernel"]
              \/ set'["args"] \in reported'
  BY <1>2 DEF ArgsOK, KernelOwnArgs
<1>3. CASE UNCHANGED <<targets, set, reported>> \/ Report \/ Nothing
  BY <1>2, <1>3 DEF Report, Nothing, block
<1>4. ASSUME NEW l, NEW n \in Setting, n \notin {"args", "kernel"},
             Set(n) \/ CfgSets(l, {n}), UNCHANGED <<targets, reported>>
      PROVE  ArgsOK'
  <2>1. set'["args"] = set["args"] /\ set'["kernel"] = set["kernel"]
    BY <1>4 DEF Set, CfgSets, Setting
  <2> QED
    BY <1>2, <1>4, <2>1
<1>5. ASSUME NEW l \in MenuLine, MenuStep(l) PROVE ArgsOK'
  <2> USE DEF NextLine
  <2>1. CASE MenuTimeout(l) \/ MenuDefault(l) \/ MenuModule(l)
               \/ MenuChainloader(l) \/ MenuOther(l)
    BY <1>3, <2>1 DEF MenuTimeout, MenuDefault, MenuModule, MenuChainloader,
                      MenuOther, block
  <2>2. CASE MenuTitle(l)
    BY <1>1, <1>3, <2>2 DEF MenuTitle
  <2>3. CASE MenuRoot(l)
    BY <1>3, <1>4, <2>3 DEF MenuRoot, Setting
  <2>4. CASE MenuInitrd(l)
    BY <1>3, <1>4, <2>4 DEF MenuInitrd, Setting
  <2>5. CASE MenuKernel(l)
    <3>1. CASE topen = 0 \/ l.empty
      BY <1>3, <2>5, <3>1 DEF MenuKernel
    <3>2. CASE ~(topen = 0 \/ l.empty)
      <4>1. set' = [set EXCEPT !["args"] = lnum,
                               !["kernel"] = IF IsPath(l) THEN lnum ELSE @]
        BY <2>5, <3>2 DEF MenuKernel
      <4>2. /\ set'["args"] = lnum
            /\ set'["kernel"] = IF IsPath(l) THEN lnum ELSE set["kernel"]
        BY <4>1 DEF Setting
      <4>3. /\ reported' = IF IsPath(l) THEN reported
                                        ELSE reported \cup {lnum}
            /\ UNCHANGED targets
        BY <2>5, <3>2 DEF MenuKernel
      <4> HIDE DEF lnum
      <4> QED
        BY <1>2, <4>2, <4>3
    <3> QED
      BY <3>1, <3>2
  <2> QED
    BY <1>5, <2>1, <2>2, <2>3, <2>4, <2>5 DEF MenuStep
<1>6. ASSUME NEW l \in CfgLine, CfgStep(l) PROVE ArgsOK'
  <2> USE DEF CfgLineOf, NextLine
  <2>1. CASE CfgQuote(l) \/ CfgEntry(l) \/ CfgChainloader(l) \/ CfgTimeout(l)
               \/ CfgOther(l)
    BY <1>3, <2>1 DEF CfgQuote, CfgEntry, CfgChainloader, CfgTimeout, CfgOther,
                      block
  <2>2. CASE CfgClose(l)
    BY <1>1, <1>3, <2>2 DEF CfgClose
  <2>3. CASE CfgRoot(l) \/ CfgInitrd(l)
    BY <1>4, <2>3 DEF CfgRoot, CfgInitrd, CfgSets, Setting
  <2>4. CASE CfgLinux(l)
    <3>1. CfgSets(l, {"kernel", "args"})
      BY <2>4 DEF CfgLinux
    <3>2. set'["args"] = set'["kernel"] /\ UNCHANGED <<targets, reported>>
      BY <3>1 DEF CfgSets, Setting
    <3> QED
      BY <1>2, <3>2
  <2>5. CASE CfgDefault(l)
    <3>1. UNCHANGED <<targets, set>> /\ reported \subseteq reported'
      BY <2>5 DEF CfgDefault, block
    <3> QED
      BY <1>2, <3>1
  <2>6. CASE CfgSearch(l)
    BY <1>3, <1>4, <2>6 DEF CfgSearch, CfgSets, Setting
  <2> QED
    BY <1>6, <2>1, <2>2, <2>3, <2>4, <2>5, <2>6 DEF CfgStep
<1> QED
  BY <1>5, <1>6

LEMMA ArgsInit == GInit => ArgsOK
<1> SUFFICES ASSUME GInit PROVE ArgsOK
  OBVIOUS
<1>1. set["args"] = set["kernel"] /\ DOMAIN targets = {}
  BY DEF GInit, NoSettings, Setting
<1> QED
  BY <1>1 DEF ArgsOK, KernelOwnArgs

LEMMA ArgsStep ==
    ASSUME ArgsOK, GTypeOK, [GNext]_gvars
    PROVE  ArgsOK'
<1>1. set \in [Setting -> Nat]
  <2>1. LineNo \subseteq Nat
    BY DEF LineNo
  <2> QED
    BY <2>1 DEF GTypeOK
<1>2. CASE UNCHANGED <<targets, set, reported>>
  BY <1>2 DEF ArgsOK, KernelOwnArgs
<1>3. CASE MenuEnd
  BY <1>3, AddArgs DEF MenuEnd, ArgsOK, block
<1> QED
  BY <1>1, <1>2, <1>3, GStep, LineArgs DEF gvars, block

\* A kernel is given the arguments of another kernel's line only if that line
\* was reported.
LEMMA ArgsHold == GSpec => []ArgsOK
  BY ArgsInit, ArgsStep, GTypeCorrect, PTL DEF GSpec

\* A target has the root, kernel, initrd, arguments and modules of its own
\* lines and of no other.
THEOREM TargetsOwnLines == GSpec => []OwnLines
<1>1. FilesOK /\ ArgsOK => OwnLines
  BY FilesMean DEF OwnLines, ArgsOK
<1> QED
  BY <1>1, FilesHold, ArgsHold, PTL
==============================================================================

--------------------------- MODULE ConsoleProofs ---------------------------
(***************************************************************************)
(* The input of the console, for a getc_buf and a tbuf of any size, any    *)
(* number of keys and any number of questions for the cursor.              *)
(***************************************************************************)
EXTENDS Console, FiniteSetTheorems, SequenceTheorems, WellFoundedInduction,
        TLAPS

(***************************************************************************)
(* Keys (Console).                                                         *)
(***************************************************************************)
\* What console_getpos() holds back is an answer so far.
HeldSoFar ==
    /\ doing = "pos_esc" => Len(held) = 1
    /\ doing = "pos_tbuf" => Len(held) \in 2 .. TbufSize + 1
    /\ doing \notin {"pos_esc", "pos_tbuf"} => held = <<>>

CInv == CTypeOK /\ HeldSoFar

\* What the keys and the terminal send are bytes.
LEMMA SomeBytes ==
    /\ \A k \in Key : Bytes[k] \in Seq(AByte)
    /\ Position \in Seq(AByte)
    /\ {"up", "home", "esc"} \subseteq Key
<1>1. Key = {"a", "esc", "up", "home", "insert", "other"}
    BY DEF Key, Bytes
<1> QED
    BY <1>1 DEF Bytes, AByte, Position

\* console_getchar() returns a key.
LEMMA GiveTyped ==
    ASSUME CTypeOK, NEW k \in {"up", "home", "esc"}, Give(k)
    PROVE  got' \in Seq(Key \cup AByte) /\ doing' = "caller"
<1>1. k \in Key \cup AByte
    BY SomeBytes
<1> QED
    BY <1>1 DEF Give, CTypeOK

\* getc_buf takes what it can hold.
LEMMA PushedFits ==
    ASSUME CTypeOK, NEW b \in Seq(AByte)
    PROVE  Pushed(b) \in Seq(AByte) /\ Len(Pushed(b)) <= GetcSize
<1>1. getc_buf \o b \in Seq(AByte)
    BY DEF CTypeOK
<1>2. CASE Len(getc_buf \o b) <= GetcSize
    BY <1>1, <1>2 DEF Pushed
<1>3. CASE ~(Len(getc_buf \o b) <= GetcSize)
    BY <1>1, <1>3, SizesAssumption DEF Pushed
<1> QED
    BY <1>2, <1>3

\* Every step keeps the type and what is held back.
LEMMA CInvKept ==
    ASSUME CInv, [CNext]_cvars
    PROVE  CInv'
<1> USE DEF CInv
<1>1. ASSUME NEW k \in Key, Type(k)
      PROVE  CInv'
    <2>1. tty' \in Seq(AByte)
        BY <1>1, SomeBytes DEF Type, CTypeOK
    <2>2. typed' \in Seq(Key)
        BY <1>1 DEF Type, CTypeOK
    <2> QED
        BY <1>1, <2>1, <2>2 DEF Type, CTypeOK, HeldSoFar
<1>2. CASE Answer
    <2>1. tty' \in Seq(AByte)
        BY <1>2, SomeBytes DEF Answer, CTypeOK
    <2> QED
        BY <1>2, <2>1 DEF Answer, CTypeOK, HeldSoFar
<1>3. CASE Getpos \/ Getchar
    <2>1. /\ doing' \in {"pos", "key"} /\ doing = "caller"
          /\ UNCHANGED <<tty, getc_buf, held, typed, got>>
        BY <1>3 DEF Getpos, Getchar
    <2>2. calls' \in Nat
        BY <1>3 DEF Getpos, Getchar, CTypeOK
    <2>3. query' \in BOOLEAN
        BY <1>3, Zenon DEF Getpos, Getchar, CTypeOK
    <2> QED
        BY <2>1, <2>2, <2>3 DEF CTypeOK, HeldSoFar
<1>4. ASSUME NEW p, PosReads(p)
      PROVE  /\ Head(tty) \in AByte /\ Tail(tty) \in Seq(AByte)
             /\ UNCHANGED <<query, calls, typed, got>> /\ doing = p
    BY <1>4 DEF PosReads, CTypeOK
<1>5. ASSUME NEW b \in Seq(AByte), NEW r \in Seq(AByte), Keep(b, r),
             UNCHANGED <<query, calls, typed, got>>
      PROVE  CInv'
    BY <1>5, PushedFits, SizesAssumption DEF Keep, CTypeOK, HeldSoFar
<1>6. ASSUME NEW p \in {"pos_esc", "pos_tbuf"}, Hold(p), NEW q, PosReads(q),
             p = "pos_esc" => Len(held) = 0,
             p = "pos_tbuf" => Len(held) \in 1 .. TbufSize
      PROVE  CInv'
    <2>1. held' \in Seq(AByte) /\ Len(held') = Len(held) + 1
        BY <1>4, <1>6 DEF Hold, CTypeOK
    <2>2. tty' \in Seq(AByte) /\ doing' = p /\ getc_buf' = getc_buf
        BY <1>4, <1>6 DEF Hold
    <2>3. UNCHANGED <<query, calls, typed, got>>
        BY <1>4, <1>6
    <2> QED
        BY <1>6, <2>1, <2>2, <2>3, SizesAssumption DEF CTypeOK, HeldSoFar
<1>7. "e" \in AByte
    BY DEF AByte
<1>8. CASE PosByte
    <2>1. CASE Head(tty) = "e"
        BY <1>6, <1>8, <2>1 DEF PosByte, PosReads, HeldSoFar
    <2>2. CASE Head(tty) # "e"
        <3>1. Keep(<<Head(tty)>>, Tail(tty)) /\ PosReads("pos")
            BY <1>8, <2>2 DEF PosByte
        <3>2. <<Head(tty)>> \in Seq(AByte)
            BY <1>4, <3>1
        <3> QED
            BY <1>4, <1>5, <3>1, <3>2
    <2> QED
        BY <2>1, <2>2
<1>9. CASE PosBracket
    <2>1. CASE Head(tty) = "["
        <3>1. Hold("pos_tbuf") /\ PosReads("pos_esc") /\ Len(held) = 1
            BY <1>9, <2>1 DEF PosBracket, PosReads, HeldSoFar
        <3> QED
            BY <1>6, <3>1, SizesAssumption
    <2>2. CASE Head(tty) # "["
        <3>1. Keep(<<"e", Head(tty)>>, Tail(tty)) /\ PosReads("pos_esc")
            BY <1>9, <2>2 DEF PosBracket
        <3>2. <<"e", Head(tty)>> \in Seq(AByte)
            BY <1>4, <1>7, <3>1
        <3> QED
            BY <1>4, <1>5, <3>1, <3>2
    <2> QED
        BY <2>1, <2>2
<1>10. CASE PosNextEscape
    BY <1>4, <1>5, <1>10 DEF PosNextEscape, CTypeOK
<1>11. CASE PosTbuf
    <2>1. Len(held) \in 1 .. TbufSize
        BY <1>11, SizesAssumption
        DEF PosTbuf, TbufEnds, PosReads, HeldSoFar
    <2> QED
        BY <1>6, <1>11, <2>1 DEF PosTbuf
<1>12. CASE PosParse
    <2>1. Append(held, Head(tty)) \in Seq(AByte)
        BY <1>4, <1>12 DEF PosParse, CTypeOK
    <2>2. CASE Append(held, Head(tty))[3] = "p"
        <3>1. /\ doing' = "caller" /\ held' = <<>> /\ tty' = Tail(tty)
              /\ UNCHANGED getc_buf /\ PosReads("pos_tbuf")
            BY <1>12, <2>2 DEF PosParse
        <3>2. Len(held') = 0 /\ held' \in Seq(AByte)
            BY <3>1
        <3> QED
            BY <1>4, <3>1, <3>2, SizesAssumption DEF CTypeOK, HeldSoFar
    <2>3. CASE Append(held, Head(tty))[3] # "p"
        BY <1>4, <1>5, <1>12, <2>1, <2>3 DEF PosParse
    <2> QED
        BY <2>2, <2>3
<1>13. ASSUME NEW p, KeyReads(p)
       PROVE  /\ NextByte \in AByte /\ tty' \in Seq(AByte)
              /\ Behind \in Seq(AByte) /\ Len(Behind) < GetcSize
              /\ UNCHANGED <<held, query, calls, typed>> /\ doing = p
    BY <1>13, SizesAssumption DEF KeyReads, HasByte, NextByte, Behind, CTypeOK
<1>14. CASE KeyByte
    <2>1. NextByte \in AByte /\ got \in Seq(Key \cup AByte)
        BY <1>13, <1>14 DEF KeyByte, CTypeOK
    <2>2. Append(got, NextByte) \in Seq(Key \cup AByte)
        BY <2>1
    <2>3. got' \in Seq(Key \cup AByte) /\ doing' \in {"key_esc", "caller"}
        BY <1>14, <2>1, <2>2 DEF KeyByte, Give, Goto
    <2> QED
        BY <1>13, <1>14, <2>3, SizesAssumption
        DEF KeyByte, CTypeOK, HeldSoFar
<1>15. CASE KeyEscape
    <2>1. got' \in Seq(Key \cup AByte) /\ doing' \in {"key_code", "caller"}
        BY <1>15, GiveTyped DEF KeyEscape, Goto, CTypeOK
    <2>2. getc_buf' \in Seq(AByte) /\ Len(getc_buf') <= GetcSize
        BY <1>13, <1>15, SizesAssumption DEF KeyEscape
    <2> QED
        BY <1>13, <1>15, <2>1, <2>2 DEF KeyEscape, CTypeOK, HeldSoFar
<1>16. CASE KeyCode
    <2>1. got' \in Seq(Key \cup AByte)
            /\ doing' \in {"key", "key_last", "caller"}
        BY <1>16, GiveTyped DEF KeyCode, Goto, CTypeOK
    <2> QED
        BY <1>13, <1>16, <2>1, SizesAssumption
        DEF KeyCode, CTypeOK, HeldSoFar
<1>17. CASE KeyLast
    <2>1. got' \in Seq(Key \cup AByte) /\ doing' = "caller"
        BY <1>17, GiveTyped DEF KeyLast
    <2> QED
        BY <1>17, <2>1 DEF KeyLast, CTypeOK, HeldSoFar
<1>18. CASE UNCHANGED cvars
    BY <1>18 DEF cvars, CTypeOK, HeldSoFar
<1> QED
    BY <1>1, <1>2, <1>3, <1>8, <1>9, <1>10, <1>11, <1>12, <1>14, <1>15,
        <1>16, <1>17, <1>18
    DEF CNext, Call, Process, GetposStep, GetcharStep

\* CInv holds in every state.
LEMMA CInvHolds == CSpec => []CInv
<1>1. CInit => CInv
    <2> SUFFICES ASSUME CInit PROVE CInv
        OBVIOUS
    <2>1. /\ tty \in Seq(AByte) /\ held \in Seq(AByte) /\ Len(held) = 0
          /\ getc_buf \in Seq(AByte) /\ Len(getc_buf) = 0
        BY DEF CInit
    <2>2. typed \in Seq(Key) /\ got \in Seq(Key \cup AByte)
        BY DEF CInit
    <2>3. query \in BOOLEAN
        BY Zenon DEF CInit
    <2>4. HeldSoFar /\ doing = "caller" /\ calls = 0
        BY DEF CInit, HeldSoFar
    <2> QED
        BY <2>1, <2>2, <2>3, <2>4, SizesAssumption DEF CInv, CTypeOK
<1> QED
    BY <1>1, CInvKept, PTL DEF CSpec

\* Every variable of the console has its type; in particular neither getc_buf
\* nor tbuf is ever overrun, whatever mix of keys and answers arrives.
THEOREM ConsoleTypeCorrect == CSpec => []CTypeOK
BY CInvHolds, PTL DEF CInv

-----------------------------------------------------------------------------
(***************************************************************************)
(* Numbers, least ones and induction.                                      *)
(***************************************************************************)
LEMMA LeastOf ==
    ASSUME NEW S \in SUBSET Nat, S # {}
    PROVE  \E m \in S : \A k \in S : m <= k
<1> DEFINE R == {p \in Nat \X Nat : p[1] < p[2]}
<1>1. IsWellFoundedOn(R, Nat)
    BY NatLessThanWellFounded DEF OpToRel
<1>2. \E m \in S : \A k \in S : <<k, m>> \notin R
    <2> HIDE DEF R
    <2> QED
        BY <1>1, WFMin
<1>3. PICK m \in S : \A k \in S : <<k, m>> \notin R
    BY <1>2
<1>4. ASSUME NEW k \in S PROVE m <= k
    <2>1. k \in Nat /\ m \in Nat
        OBVIOUS
    <2>2. <<k, m>> \notin R
        BY <1>3
    <2> QED
        BY <2>1, <2>2
<1> QED
    BY <1>4

\* A set that has 0, and with a number the next, has them all.
LEMMA AllNumbers ==
    ASSUME NEW T, 0 \in T, \A n \in Nat : n \in T => n + 1 \in T
    PROVE  Nat \subseteq T
<1> DEFINE S == Nat \ T
<1>1. ASSUME S # {} PROVE FALSE
    <2>1. S \in SUBSET Nat
        OBVIOUS
    <2>2. PICK m \in S : \A k \in S : m <= k
        <3> HIDE DEF S
        <3> QED
            BY <1>1, <2>1, LeastOf
    <2>3. m \in Nat /\ m # 0 /\ m \notin T
        OBVIOUS
    <2>4. m - 1 \in Nat /\ ~(m <= m - 1) /\ m - 1 + 1 = m
        BY <2>3
    <2>5. m - 1 \notin S
        <3> HIDE DEF S
        <3> QED
            BY <2>2, <2>4
    <2>6. m - 1 \in T
        BY <2>4, <2>5
    <2> QED
        BY <2>3, <2>4, <2>6
<1> QED
    BY <1>1

-----------------------------------------------------------------------------
(***************************************************************************)
(* What FlattenSeq() and Each() give.                                      *)
(***************************************************************************)
\* c[i] is what the first i of s are together.
Joins(s, c) ==
    c = [i \in 1 .. Len(s) |-> IF i = 1 THEN s[i] ELSE c[i - 1] \o s[i]]

\* FlattenSeq builds its value by joining one element after another.
LEMMA FlattenIs ==
    ASSUME NEW S, NEW s \in Seq(S), s # <<>>
    PROVE  \E c : Joins(s, c) /\ FlattenSeq(s) = c[Len(s)]
<1> DEFINE Row(f, i) == IF i = 1 THEN s[i] ELSE f[i - 1] \o s[i]
           M == CHOOSE f : f = [i \in 1 .. Len(s) |-> Row(f, i)]
<1>1. Len(s) \in Nat /\ Len(s) # 0
    OBVIOUS
<1>2. FlattenSeq(s) = M[Len(s)]
    BY <1>1 DEF FlattenSeq
<1>3. \E f : f = [i \in 1 .. Len(s) |-> Row(f, i)]
    <2> DEFINE N == {n \in Nat : \E f : f = [i \in 1 .. n |-> Row(f, i)]}
    <2>1. 0 \in N
        <3> DEFINE f == [i \in 1 .. 0 |-> 0]
        <3>1. f = [i \in 1 .. 0 |-> Row(f, i)]
            OBVIOUS
        <3> QED
            BY <3>1
    <2>2. ASSUME NEW n \in Nat, NEW f, f = [i \in 1 .. n |-> Row(f, i)]
          PROVE  n + 1 \in N
        <3> DEFINE g == [i \in 1 .. n + 1 |->
                           IF i <= n THEN f[i] ELSE Row(f, n + 1)]
        <3>1. ASSUME NEW i \in 1 .. n + 1
              PROVE  g[i] = Row(g, i)
            <4>1. CASE i <= n
                <5>1. /\ g[i] = f[i] /\ f[i] = Row(f, i)
                      /\ i # 1 => g[i - 1] = f[i - 1]
                    <6>1. i \in 1 .. n /\ (i # 1 => i - 1 \in 1 .. n)
                        BY <4>1
                    <6> HIDE DEF Row
                    <6>2. f[i] = Row(f, i)
                        <7> HIDE DEF g
                        <7> QED
                            BY <2>2, <6>1
                    <6> QED
                        BY <6>1, <6>2
                <5> HIDE DEF g
                <5> QED
                    BY <5>1
            <4>2. CASE ~(i <= n)
                <5>1. /\ i = n + 1 /\ g[i] = Row(f, i)
                      /\ i # 1 => g[i - 1] = f[i - 1]
                    <6> HIDE DEF Row
                    <6> QED
                        BY <4>2
                <5> HIDE DEF g
                <5> QED
                    BY <5>1
            <4> QED
                BY <4>1, <4>2
        <3>2. g = [i \in 1 .. n + 1 |-> g[i]]
            OBVIOUS
        <3> HIDE DEF g, Row
        <3>3. g = [i \in 1 .. n + 1 |-> Row(g, i)]
            BY <3>1, <3>2
        <3> QED
            BY <3>3
    <2>3. \A n \in Nat : n \in N => n + 1 \in N
        BY <2>2, ZenonT(40)
    <2> HIDE DEF Row
    <2>4. Len(s) \in N
        <3> HIDE DEF N
        <3> QED
            BY <1>1, <2>1, <2>3, AllNumbers
    <2> QED
        BY <2>4
<1>4. M = [i \in 1 .. Len(s) |-> Row(M, i)]
    BY <1>3
<1> HIDE DEF M
<1>5. Joins(s, M)
    BY <1>4 DEF Joins
<1> QED
    BY <1>2, <1>5

\* Joins, with its bounds split.
LEMMA JoinsIs ==
    ASSUME NEW s, Len(s) \in Nat, NEW c, Joins(s, c)
    PROVE  /\ Len(s) > 0 => c[1] = s[1]
           /\ \A i \in 1 .. Len(s) - 1 : c[i + 1] = c[i] \o s[i + 1]
<1> DEFINE Row(i) == IF i = 1 THEN s[i] ELSE c[i - 1] \o s[i]
<1>1. c = [i \in 1 .. Len(s) |-> Row(i)]
    BY DEF Joins
<1> HIDE DEF Row
<1>2. \A i \in 1 .. Len(s) : c[i] = Row(i)
    BY <1>1
<1>3. Len(s) > 0 => c[1] = Row(1)
    BY <1>2
<1>4. ASSUME NEW i \in 1 .. Len(s) - 1
      PROVE  c[i + 1] = Row(i + 1) /\ i + 1 # 1 /\ (i + 1) - 1 = i
    <2>1. i + 1 \in 1 .. Len(s) /\ i + 1 # 1 /\ (i + 1) - 1 = i
        OBVIOUS
    <2> QED
        BY <1>2, <2>1
<1> QED
    BY <1>3, <1>4 DEF Row

\* It depends on the first i of s only.
LEMMA JoinsAlike ==
    ASSUME NEW s, Len(s) \in Nat, NEW c, Joins(s, c),
           NEW t, Len(t) \in Nat, NEW d, Joins(t, d),
           NEW m \in Nat, m <= Len(s), m <= Len(t), m > 0,
           \A i \in 1 .. m : s[i] = t[i]
    PROVE  c[m] = d[m]
<1> DEFINE T == {n \in Nat : n < m => c[n + 1] = d[n + 1]}
<1>1. 0 \in T
    <2>1. Len(s) > 0 /\ Len(t) > 0
        OBVIOUS
    <2>2. c[1] = s[1]
        BY <2>1, JoinsIs, Zenon
    <2>3. d[1] = t[1]
        BY <2>1, JoinsIs, Zenon
    <2> QED
        BY <2>2, <2>3
<1>2. ASSUME NEW n \in Nat, n \in T PROVE n + 1 \in T
    <2> SUFFICES ASSUME n + 1 < m PROVE c[n + 1 + 1] = d[n + 1 + 1]
        OBVIOUS
    <2>1. /\ n + 1 \in 1 .. Len(s) - 1 /\ n + 1 \in 1 .. Len(t) - 1
          /\ n + 1 + 1 \in 1 .. m /\ n < m
        OBVIOUS
    <2>2. c[n + 1] = d[n + 1]
        BY <1>2, <2>1
    <2> HIDE DEF T
    <2>3. /\ c[n + 1 + 1] = c[n + 1] \o s[n + 1 + 1]
          /\ d[n + 1 + 1] = d[n + 1] \o t[n + 1 + 1]
        BY <2>1, JoinsIs
    <2> QED
        BY <2>1, <2>2, <2>3
<1>3. m - 1 \in Nat /\ m - 1 < m /\ m - 1 + 1 = m
    OBVIOUS
<1>4. m - 1 \in T
    <2> HIDE DEF T
    <2> QED
        BY <1>1, <1>2, <1>3, AllNumbers
<1> QED
    BY <1>3, <1>4

\* One element is what it flattens to.
LEMMA FlattenOne ==
    ASSUME NEW S, NEW x \in S
    PROVE  FlattenSeq(<<x>>) = x
<1> DEFINE t == <<x>>
<1>1. t \in Seq(S) /\ t # <<>> /\ Len(t) = 1 /\ t[1] = x
    OBVIOUS
<1> HIDE DEF t
<1>2. PICK c : Joins(t, c) /\ FlattenSeq(t) = c[Len(t)]
    BY <1>1, FlattenIs
<1>3. Len(t) \in Nat /\ Len(t) > 0
    BY <1>1
<1>4. c[1] = t[1]
    BY <1>2, <1>3, JoinsIs
<1>5. FlattenSeq(t) = x
    BY <1>1, <1>2, <1>4
<1> QED
    BY <1>5 DEF t

\* An element that is added behind is joined behind.
LEMMA FlattenAppend ==
    ASSUME NEW S, NEW s \in Seq(S), NEW x \in S,
           s # <<>>
    PROVE  FlattenSeq(Append(s, x)) = FlattenSeq(s) \o x
<1> DEFINE t == Append(s, x)
           m == Len(s)
<1>1. /\ t \in Seq(S) /\ t # <<>> /\ Len(t) = m + 1 /\ t[m + 1] = x
      /\ m \in Nat /\ m > 0 /\ \A i \in 1 .. m : s[i] = t[i]
    OBVIOUS
<1> HIDE DEF t
<1>2. PICK c : Joins(s, c) /\ FlattenSeq(s) = c[m]
    BY FlattenIs
<1>3. PICK d : Joins(t, d) /\ FlattenSeq(t) = d[m + 1]
    BY <1>1, FlattenIs
<1> HIDE DEF m
<1>4. Len(s) = m
    BY DEF m
<1>5. c[m] = d[m]
    <2>1. Len(s) \in Nat /\ Len(t) \in Nat /\ m <= Len(s) /\ m <= Len(t)
        BY <1>1, <1>4
    <2> QED
        BY <1>1, <1>2, <1>3, <2>1, JoinsAlike
<1>6. m \in 1 .. Len(t) - 1 /\ Len(t) \in Nat
    BY <1>1
<1>7. d[m + 1] = d[m] \o t[m + 1]
    BY <1>3, <1>6, JoinsIs
<1> QED
    BY <1>1, <1>2, <1>3, <1>5, <1>7 DEF t

Gives(f, K, B) == f \in [K -> Seq(B)]

\* What one key gives goes to the end.
LEMMA EachAppend ==
    ASSUME NEW K, NEW B, NEW f, Gives(f, K, B), NEW s \in Seq(K), NEW k \in K,
           s # <<>>
    PROVE  Each(f, Append(s, k)) = Each(f, s) \o f[k]
<1> USE DEF Gives
<1> DEFINE G(t) == [i \in DOMAIN t |-> f[t[i]]]
<1>1. ASSUME NEW t \in Seq(K) PROVE G(t) \in Seq(Seq(B)) /\ Len(G(t)) = Len(t)
    <2>1. /\ DOMAIN t = 1 .. Len(t) /\ Len(t) \in Nat
          /\ \A i \in 1 .. Len(t) : t[i] \in K
        OBVIOUS
    <2>2. \A i \in 1 .. Len(t) : f[t[i]] \in Seq(B)
        BY <2>1
    <2> DEFINE S == Seq(B)
    <2>3. G(t) = [i \in 1 .. Len(t) |-> f[t[i]]]
        BY <2>1
    <2>4. [i \in 1 .. Len(t) |-> f[t[i]]] \in [1 .. Len(t) -> S]
        BY <2>2
    <2> HIDE DEF S, G
    <2>5. G(t) \in Seq(S) /\ Len(G(t)) = Len(t)
        <3> DEFINE g == G(t)
                   n == Len(t)
        <3>1. g \in [1 .. n -> S] /\ n \in Nat
            BY <2>1, <2>3, <2>4
        <3> HIDE DEF g, n
        <3>2. g \in Seq(S) /\ Len(g) = n
            BY <3>1
        <3> QED
            BY <3>2 DEF g, n
    <2> QED
        BY <2>5 DEF S
<1>2. G(Append(s, k)) = Append(G(s), f[k])
    <2>1. /\ Append(s, k) \in Seq(K) /\ Len(Append(s, k)) = Len(s) + 1
          /\ \A i \in 1 .. Len(s) : Append(s, k)[i] = s[i]
          /\ Append(s, k)[Len(s) + 1] = k /\ Len(s) \in Nat
        OBVIOUS
    <2> DEFINE a == G(Append(s, k))
               b == Append(G(s), f[k])
    <2>2. a \in Seq(Seq(B)) /\ Len(a) = Len(s) + 1
        <3> HIDE DEF G
        <3> QED
            BY <1>1, <2>1
    <2>3. b \in Seq(Seq(B)) /\ Len(b) = Len(s) + 1
        <3> HIDE DEF G
        <3>1. f[k] \in Seq(B)
            OBVIOUS
        <3> QED
            BY <1>1, <3>1
    <2>4. ASSUME NEW i \in 1 .. Len(s) + 1 PROVE a[i] = b[i]
        <3>1. CASE i \in 1 .. Len(s)
            <4>1. G(s)[i] = f[s[i]] /\ b[i] = G(s)[i]
                <5>1. G(s)[i] = f[s[i]]
                    BY <3>1
                <5>2. b[i] = G(s)[i]
                    <6> HIDE DEF G
                    <6> QED
                        BY <1>1, <3>1
                <5> QED
                    BY <5>1, <5>2
            <4>2. a[i] = f[s[i]]
                BY <2>1, <3>1
            <4> QED
                BY <4>1, <4>2
        <3>2. CASE i = Len(s) + 1
            <4>1. b[i] = f[k]
                <5> HIDE DEF G
                <5> QED
                    BY <1>1, <3>2
            <4>2. a[i] = f[k]
                BY <2>1, <3>2
            <4> QED
                BY <4>1, <4>2
        <3> QED
            BY <3>1, <3>2
    <2> HIDE DEF a, b
    <2>5. a = b
        BY <2>2, <2>3, <2>4
    <2> QED
        BY <2>5 DEF a, b
<1>3. G(s) # <<>>
    <2> HIDE DEF G
    <2> QED
        BY <1>1
<1>4. f[k] \in Seq(B)
    OBVIOUS
<1>5. \A t : Each(f, t) = FlattenSeq(G(t))
    BY DEF Each
<1> DEFINE S == Seq(B)
<1>6. G(s) \in Seq(S) /\ f[k] \in S
    BY <1>1, <1>4
<1> HIDE DEF G, S
<1>7. FlattenSeq(Append(G(s), f[k])) = FlattenSeq(G(s)) \o f[k]
    BY <1>3, <1>6, FlattenAppend
<1> QED
    BY <1>2, <1>5, <1>7

\* Each of one key, and of none.
LEMMA EachOne ==
    ASSUME NEW K, NEW B, NEW f, Gives(f, K, B), NEW k \in K
    PROVE  Each(f, <<k>>) = f[k]
<1>1. [i \in DOMAIN <<k>> |-> f[<<k>>[i]]] = <<f[k]>>
    OBVIOUS
<1> DEFINE S == Seq(B)
<1>2. f[k] \in S
    BY DEF Gives
<1> HIDE DEF S
<1>3. <<>> \in Seq(S)
    OBVIOUS
<1>4. FlattenSeq(<<f[k]>>) = f[k]
    BY <1>2, <1>3, FlattenOne
<1> QED
    BY <1>1, <1>4 DEF Each

LEMMA EachNone == \A f : Each(f, <<>>) = <<>>
<1> SUFFICES ASSUME NEW f PROVE Each(f, <<>>) = <<>>
    OBVIOUS
<1>1. [i \in DOMAIN <<>> |-> f[<<>>[i]]] = <<>>
    OBVIOUS
<1>2. FlattenSeq(<<>>) = <<>>
    BY DEF FlattenSeq
<1> QED
    BY <1>1, <1>2 DEF Each

\* What all of them give is in their order.
LEMMA EachNext ==
    ASSUME NEW K, NEW B, NEW f, Gives(f, K, B), NEW s \in Seq(K), NEW k \in K
    PROVE  /\ Each(f, s) \in Seq(B)
           /\ Each(f, Append(s, k)) = Each(f, s) \o f[k]
<1>1. /\ \A x \in K : f[x] \in Seq(B)
      /\ <<>> \o f[k] = f[k]
    BY DEF Gives
<1>2. Each(f, Append(s, k)) = Each(f, s) \o f[k]
    <2>1. CASE s = <<>>
        <3>1. Append(s, k) = <<k>>
            BY <2>1
        <3> QED
            BY <1>1, <2>1, <3>1, EachNone, EachOne
    <2> QED
        BY <2>1, EachAppend
<1> DEFINE T == {n \in Nat :
                   \A t \in Seq(K) : Len(t) = n => Each(f, t) \in Seq(B)}
<1>3. 0 \in T
    <2>1. \A t \in Seq(K) : Len(t) = 0 => t = <<>>
        OBVIOUS
    <2>2. Each(f, <<>>) \in Seq(B)
        <3>1. <<>> \in Seq(B)
            OBVIOUS
        <3> QED
            BY <3>1, EachNone
    <2> QED
        BY <2>1, <2>2
<1>4. ASSUME NEW n \in Nat, n \in T PROVE n + 1 \in T
    <2>1. ASSUME NEW t \in Seq(K), Len(t) = n + 1
          PROVE  Each(f, t) \in Seq(B)
        <3>1. t # <<>>
            BY <2>1
        <3>2. PICK r \in Seq(K), x \in K : t = Append(r, x)
            BY <3>1, SequenceEmptyOrAppend
        <3>3. Len(r) = n
            BY <2>1, <3>2
        <3>4. Each(f, r) \in Seq(B) /\ f[x] \in Seq(B)
            BY <1>1, <1>4, <3>3
        <3>5. CASE r = <<>>
            <4>1. t = <<x>>
                BY <3>2, <3>5
            <4>2. Each(f, <<x>>) = f[x]
                <5> HIDE DEF T
                <5> QED
                    BY EachOne
            <4> QED
                BY <3>4, <4>1, <4>2
        <3>6. CASE r # <<>>
            <4>1. Each(f, t) = Each(f, r) \o f[x]
                <5> HIDE DEF T
                <5>1. Each(f, Append(r, x)) = Each(f, r) \o f[x]
                    BY <3>6, EachAppend
                <5> QED
                    BY <3>2, <5>1
            <4> QED
                BY <3>4, <4>1
        <3> QED
            BY <3>5, <3>6
    <2> QED
        BY <2>1
<1>5. Len(s) \in T
    <2>1. Len(s) \in Nat
        OBVIOUS
    <2> HIDE DEF T
    <2> QED
        BY <1>3, <1>4, <2>1, AllNumbers
<1> QED
    BY <1>2, <1>5

\* Each gives a sequence of what f gives.
LEMMA EachTyped ==
    ASSUME NEW K, NEW B, NEW f, Gives(f, K, B), NEW s \in Seq(K)
    PROVE  Each(f, s) \in Seq(B)
<1>1. CASE s = <<>>
    <2>1. <<>> \in Seq(B)
        OBVIOUS
    <2> QED
        BY <1>1, <2>1, EachNone
<1>2. CASE s # <<>>
    <2>1. s[1] \in K
        BY <1>2
    <2> QED
        BY <2>1, EachNext
<1> QED
    BY <1>1, <1>2

\* Joining in any order gives the same.
LEMMA Assoc ==
    \A S : \A a, b, c \in Seq(S) : (a \o b) \o c = a \o (b \o c)
<1> SUFFICES ASSUME NEW S, NEW a \in Seq(S), NEW b \in Seq(S), NEW c \in Seq(S)
             PROVE  (a \o b) \o c = a \o (b \o c)
    OBVIOUS
<1> QED
    BY ConcatAssociative

Splits(f, s, t) == Each(f, s \o t) = Each(f, s) \o Each(f, t)

\* If Each splits over s and r, it splits over s and one more key.
LEMMA EachConcatNext ==
    ASSUME NEW K, NEW B, NEW f, Gives(f, K, B), NEW s \in Seq(K),
           NEW r \in Seq(K), NEW x \in K,
           Splits(f, s, r)
    PROVE  Splits(f, s, Append(r, x))
<1>1. Each(f, s \o r) = Each(f, s) \o Each(f, r)
    BY DEF Splits
<1>2. s \o Append(r, x) = Append(s \o r, x) /\ s \o r \in Seq(K)
    OBVIOUS
<1>3. Each(f, s) \in Seq(B) /\ Each(f, r) \in Seq(B)
    BY EachTyped
<1>4. f[x] \in Seq(B)
    BY DEF Gives
<1>5. Each(f, Append(r, x)) = Each(f, r) \o f[x]
    BY EachNext
<1>6. Each(f, Append(s \o r, x)) = Each(f, s \o r) \o f[x]
    <2>1. PICK v : v = s \o r
        OBVIOUS
    <2>2. v \in Seq(K)
        BY <1>2, <2>1
    <2>3. Each(f, Append(v, x)) = Each(f, v) \o f[x]
        BY <2>2, EachNext
    <2> QED
        BY <2>1, <2>3
<1>7. PICK a : a = Each(f, s)
    OBVIOUS
<1>8. PICK b : b = Each(f, r)
    OBVIOUS
<1>9. PICK c : c = f[x]
    OBVIOUS
<1>10. a \in Seq(B) /\ b \in Seq(B) /\ c \in Seq(B)
    BY <1>3, <1>4, <1>7, <1>8, <1>9
<1>11. (a \o b) \o c = a \o (b \o c)
    BY <1>10, Assoc, SMTT(40)
<1> QED
    BY <1>1, <1>2, <1>5, <1>6, <1>7, <1>8, <1>9, <1>11 DEF Splits

\* Each of two sequences is joined from each of the two.
LEMMA EachConcat ==
    ASSUME NEW K, NEW B, NEW f, Gives(f, K, B), NEW s \in Seq(K),
           NEW t \in Seq(K)
    PROVE  Each(f, s \o t) = Each(f, s) \o Each(f, t)
<1> DEFINE T == {n \in Nat : \A u \in Seq(K) :
                   Len(u) = n => Splits(f, s, u)}
<1>1. 0 \in T
    <2>1. \A u \in Seq(K) : Len(u) = 0 => u = <<>>
        OBVIOUS
    <2>2. Splits(f, s, <<>>)
        <3>1. s \o <<>> = s
            OBVIOUS
        <3>2. PICK a : a = Each(f, s)
            OBVIOUS
        <3>3. a \in Seq(B)
            BY <3>2, EachTyped
        <3>4. a \o <<>> = a
            BY <3>3
        <3> QED
            BY <3>1, <3>2, <3>4, EachNone DEF Splits
    <2> QED
        BY <2>1, <2>2
<1>2. ASSUME NEW n \in Nat, n \in T PROVE n + 1 \in T
    <2>1. ASSUME NEW u \in Seq(K), Len(u) = n + 1
          PROVE  Splits(f, s, u)
        <3>1. u # <<>>
            BY <2>1
        <3>2. PICK r \in Seq(K), x \in K : u = Append(r, x)
            BY <3>1, SequenceEmptyOrAppend
        <3>3. Len(r) = n
            BY <2>1, <3>2
        <3>4. Splits(f, s, r)
            BY <1>2, <3>3
        <3> HIDE DEF T
        <3> QED
            BY <3>2, <3>4, EachConcatNext
    <2> QED
        BY <2>1
<1>3. Len(t) \in T
    <2>1. Len(t) \in Nat
        OBVIOUS
    <2> HIDE DEF T
    <2> QED
        BY <1>1, <1>2, <2>1, AllNumbers
<1> QED
    BY <1>3 DEF Splits

-----------------------------------------------------------------------------
(***************************************************************************)
(* The bytes of a key and of the answer, one by one.                       *)
(***************************************************************************)
Escape(w) == Cons("e", Cons("[", w))

\* The bytes of k before w.
Before(k, w) ==
    CASE k = "a" -> Cons("a", w)
      [] k = "esc" -> Cons("e", w)
      [] k = "up" -> Escape(Cons("A", w))
      [] k = "home" -> Escape(Cons("1", Cons("~", w)))
      [] k = "insert" -> Escape(Cons("2", Cons("~", w)))
      [] OTHER -> Escape(Cons("P", w))

\* Cons, Head and Tail undo each other.
LEMMA ConsIs ==
    ASSUME NEW B, NEW x \in B, NEW w \in Seq(B)
    PROVE  /\ Cons(x, w) \in Seq(B) /\ Cons(x, w) # <<>>
           /\ Head(Cons(x, w)) = x /\ Tail(Cons(x, w)) = w
           /\ \A v \in Seq(B) : Cons(x, w) \o v = Cons(x, w \o v)
<1>1. <<x>> \in Seq(B) /\ Len(<<x>>) = 1 /\ <<x>>[1] = x
    OBVIOUS
<1>2. /\ <<x>> \o w \in Seq(B) /\ <<x>> \o w # <<>>
      /\ Len(<<x>> \o w) = 1 + Len(w) /\ (<<x>> \o w)[1] = x
    OBVIOUS
<1>3. Tail(<<x>> \o w) = w
    <2> DEFINE t == Tail(<<x>> \o w)
    <2>1. t \in Seq(B) /\ Len(t) = Len(w) /\ Len(w) \in Nat
        BY <1>2
    <2>2. \A i \in 1 .. Len(w) : t[i] = w[i]
        OBVIOUS
    <2> HIDE DEF t
    <2>3. t = w
        BY <2>1, <2>2
    <2> QED
        BY <2>3 DEF t
<1>4. \A v \in Seq(B) : (<<x>> \o w) \o v = <<x>> \o (w \o v)
    BY <1>1, ConcatAssociative
<1> QED
    BY <1>2, <1>3, <1>4 DEF Cons

LEMMA IsCons ==
    ASSUME NEW B, NEW w \in Seq(B), w # <<>>
    PROVE  Head(w) \in B /\ Tail(w) \in Seq(B) /\ w = Cons(Head(w), Tail(w))
<1> DEFINE t == Tail(w)
           c == <<Head(w)>> \o t
<1>1. /\ Head(w) \in B /\ t \in Seq(B) /\ Len(t) = Len(w) - 1
      /\ \A i \in 1 .. Len(t) : t[i] = w[i + 1]
      /\ Len(w) \in Nat /\ Len(w) > 0 /\ Head(w) = w[1]
    BY HeadTailProperties
<1> HIDE DEF t
<1>2. /\ c \in Seq(B) /\ Len(c) = Len(w) /\ c[1] = w[1]
      /\ \A i \in 2 .. Len(w) : c[i] = t[i - 1]
    BY <1>1
<1> HIDE DEF c
<1>3. \A i \in 1 .. Len(w) : c[i] = w[i]
    <2> SUFFICES ASSUME NEW i \in 1 .. Len(w) PROVE c[i] = w[i]
        OBVIOUS
    <2>1. CASE i = 1
        BY <1>2, <2>1
    <2>2. CASE i # 1
        <3>1. i \in 2 .. Len(w) /\ i - 1 \in 1 .. Len(t) /\ (i - 1) + 1 = i
            BY <1>1, <2>2
        <3>2. c[i] = t[i - 1] /\ t[i - 1] = w[(i - 1) + 1]
            BY <1>1, <1>2, <3>1
        <3> QED
            BY <3>1, <3>2
    <2> QED
        BY <2>1, <2>2
<1>4. c = w
    <2>1. Len(c) = Len(w) /\ \A i \in 1 .. Len(c) : c[i] = w[i]
        BY <1>2, <1>3
    <2> QED
        BY <1>2, <2>1, SeqEqual, Zenon
<1> QED
    BY <1>1, <1>4 DEF Cons, c, t

\* What the keys send: no "p" and no "R".
Sent == {"a", "e", "[", "A", "1", "2", "~", "P"}

\* A key sends no "p": only the answer has one.
LEMMA SentBytes ==
    /\ Sent \subseteq AByte /\ "p" \notin Sent
    /\ \A x \in {"a", "e", "[", "A", "1", "2", "~", "P"} : x \in Sent
    /\ \A x \in {"a", "e", "[", "A", "1", "2", "~", "P", "p", "R"} : x \in AByte
BY DEF Sent, AByte

\* The keys, what they send, and which are known.
LEMMA TheKeys == Key = {"a", "esc", "up", "home", "insert", "other"}
BY DEF Key, Bytes

LEMMA TheBytes ==
    /\ Bytes["a"] = <<"a">> /\ Bytes["esc"] = <<"e">>
    /\ Bytes["up"] = <<"e", "[", "A">>
    /\ Bytes["home"] = <<"e", "[", "1", "~">>
    /\ Bytes["insert"] = <<"e", "[", "2", "~">>
    /\ Bytes["other"] = <<"e", "[", "P">>
BY DEF Bytes

LEMMA KeyIs == Gives(Bytes, Key, Sent) /\ Gives(Known, Key, Key)
<1>1. Gives(Bytes, Key, Sent)
    <2>1. "a" \in Sent /\ "e" \in Sent /\ "[" \in Sent /\ "A" \in Sent
          /\ "1" \in Sent /\ "2" \in Sent /\ "~" \in Sent /\ "P" \in Sent
        BY DEF Sent
    <2>2. /\ <<"a">> \in Seq(Sent) /\ <<"e">> \in Seq(Sent)
          /\ <<"e", "[", "A">> \in Seq(Sent)
          /\ <<"e", "[", "1", "~">> \in Seq(Sent)
          /\ <<"e", "[", "2", "~">> \in Seq(Sent)
          /\ <<"e", "[", "P">> \in Seq(Sent)
        BY <2>1
    <2>3. \A k \in Key : Bytes[k] \in Seq(Sent)
        <3> SUFFICES ASSUME NEW k \in Key PROVE Bytes[k] \in Seq(Sent)
            OBVIOUS
        <3> QED
            BY <2>2, TheKeys, TheBytes
    <2>4. Bytes = [k \in Key |-> Bytes[k]]
        BY DEF Bytes, Key
    <2> QED
        BY <2>3, <2>4 DEF Gives
<1>2. Gives(Known, Key, Key)
    <2>1. \A k \in Key : (IF k \in {"other", "insert"} THEN <<>> ELSE <<k>>)
                               \in Seq(Key)
        OBVIOUS
    <2> QED
        BY <2>1 DEF Gives, Known
<1> QED
    BY <1>1, <1>2

\* The same of bytes.
LEMMA ByteCons ==
    \A x \in AByte : \A w \in Seq(AByte) :
        /\ Cons(x, w) \in Seq(AByte) /\ Cons(x, w) # <<>>
        /\ Head(Cons(x, w)) = x /\ Tail(Cons(x, w)) = w
BY ConsIs

\* Two sequences that are the same have the same first byte.
LEMMA SameCons ==
    \A x, y \in AByte : \A v, w \in Seq(AByte) :
        Cons(x, v) = Cons(y, w) => x = y /\ v = w
<1> SUFFICES ASSUME NEW x \in AByte, NEW y \in AByte, NEW v \in Seq(AByte),
                    NEW w \in Seq(AByte), Cons(x, v) = Cons(y, w)
             PROVE  x = y /\ v = w
    OBVIOUS
<1>1. Head(Cons(x, v)) = x /\ Tail(Cons(x, v)) = v
    BY ByteCons
<1>2. Head(Cons(y, w)) = y /\ Tail(Cons(y, w)) = w
    BY ByteCons
<1> QED
    BY <1>1, <1>2

\* A first byte stays the first when bytes are joined behind.
LEMMA ConsConcat ==
    \A x \in AByte : \A u, w \in Seq(AByte) :
        Cons(x, u) \o w = Cons(x, u \o w)
<1> SUFFICES ASSUME NEW x \in AByte, NEW u \in Seq(AByte),
                    NEW w \in Seq(AByte)
             PROVE  Cons(x, u) \o w = Cons(x, u \o w)
    OBVIOUS
<1>1. <<x>> \in Seq(AByte)
    OBVIOUS
<1>2. \A v \in Seq(AByte) : Cons(x, u) \o v = Cons(x, u \o v)
    BY <1>1, ConcatAssociative DEF Cons
<1> QED
    BY <1>2, Zenon

\* Sequences of a few bytes, byte by byte.
LEMMA Two ==
    ASSUME NEW a \in AByte, NEW b \in AByte
    PROVE  <<a, b>> = Cons(a, <<b>>)
<1> DEFINE u == <<a>> \o <<b>>
           v == <<a, b>>
<1>1. v \in Seq(AByte) /\ Len(v) = 2 /\ v[1] = a /\ v[2] = b
    OBVIOUS
<1>2. u \in Seq(AByte) /\ Len(u) = 2 /\ u[1] = a /\ u[2] = b
    OBVIOUS
<1> HIDE DEF u, v
<1>3. \A i \in 1 .. 2 : u[i] = v[i]
    BY <1>1, <1>2
<1>4. u = v
    BY <1>1, <1>2, <1>3, SeqEqual
<1> QED
    BY <1>4 DEF u, v, Cons

LEMMA Three ==
    ASSUME NEW a \in AByte, NEW b \in AByte, NEW c \in AByte
    PROVE  <<a, b, c>> = Cons(a, <<b, c>>)
<1> DEFINE u == <<a>> \o <<b, c>>
           v == <<a, b, c>>
<1>1. v \in Seq(AByte) /\ Len(v) = 3 /\ v[1] = a /\ v[2] = b /\ v[3] = c
    OBVIOUS
<1>2. u \in Seq(AByte) /\ Len(u) = 3 /\ u[1] = a /\ u[2] = b /\ u[3] = c
    OBVIOUS
<1> HIDE DEF u, v
<1>3. \A i \in 1 .. 3 : u[i] = v[i]
    BY <1>1, <1>2
<1>4. u = v
    BY <1>1, <1>2, <1>3, SeqEqual
<1> QED
    BY <1>4 DEF u, v, Cons

LEMMA Four ==
    ASSUME NEW a \in AByte, NEW b \in AByte, NEW c \in AByte, NEW d \in AByte
    PROVE  <<a, b, c, d>> = Cons(a, <<b, c, d>>)
<1> DEFINE u == <<a>> \o <<b, c, d>>
           v == <<a, b, c, d>>
<1>1. v \in Seq(AByte) /\ Len(v) = 4 /\ v[1] = a /\ v[2] = b /\ v[3] = c
      /\ v[4] = d
    OBVIOUS
<1>2. u \in Seq(AByte) /\ Len(u) = 4 /\ u[1] = a /\ u[2] = b /\ u[3] = c
      /\ u[4] = d
    OBVIOUS
<1> HIDE DEF u, v
<1>3. \A i \in 1 .. 4 : u[i] = v[i]
    BY <1>1, <1>2
<1>4. u = v
    BY <1>1, <1>2, <1>3, SeqEqual
<1> QED
    BY <1>4 DEF u, v, Cons

LEMMA OneConcat ==
    ASSUME NEW a \in AByte, NEW w \in Seq(AByte)
    PROVE  <<a>> \o w = Cons(a, w) /\ <<a>> \in Seq(AByte)
BY DEF Cons

LEMMA ThreeConcat ==
    ASSUME NEW a \in AByte, NEW b \in AByte, NEW c \in AByte,
           NEW w \in Seq(AByte)
    PROVE  /\ <<a, b, c>> \o w = Cons(a, Cons(b, Cons(c, w)))
           /\ <<a, b, c>> \in Seq(AByte)
<1>1. PICK t : t = <<c>>
    OBVIOUS
<1>2. PICK u : u = <<b, c>>
    OBVIOUS
<1>3. t \in Seq(AByte) /\ t \o w = Cons(c, w)
    BY <1>1, OneConcat
<1>4. u = Cons(b, t)
    BY <1>1, <1>2, Two
<1>5. u \in Seq(AByte) /\ u \o w = Cons(b, t \o w)
    BY <1>3, <1>4, ByteCons, ConsConcat, ZenonT(60)
<1>6. PICK v : v = <<a, b, c>>
    OBVIOUS
<1>7. v = Cons(a, u)
    BY <1>2, <1>6, Three
<1>8. v \in Seq(AByte)
    BY <1>5, <1>7, ByteCons, Zenon
<1>9. v \o w = Cons(a, u \o w)
    BY <1>5, <1>7, ConsConcat, ZenonT(60)
<1> QED
    BY <1>3, <1>5, <1>6, <1>9, <1>8

LEMMA FourConcat ==
    ASSUME NEW a \in AByte, NEW b \in AByte, NEW c \in AByte, NEW d \in AByte,
           NEW w \in Seq(AByte)
    PROVE  <<a, b, c, d>> \o w = Cons(a, Cons(b, Cons(c, Cons(d, w))))
<1>1. PICK t : t = <<b, c, d>>
    OBVIOUS
<1>2. t \in Seq(AByte) /\ t \o w = Cons(b, Cons(c, Cons(d, w)))
    BY <1>1, ThreeConcat
<1>3. PICK v : v = <<a, b, c, d>>
    OBVIOUS
<1>4. v = Cons(a, t)
    BY <1>1, <1>3, Four
<1>5. v \o w = Cons(a, t \o w)
    BY <1>2, <1>4, ConsConcat, ZenonT(60)
<1> QED
    BY <1>2, <1>3, <1>5

\* The terminal's answer and a key's bytes, byte by byte.
LEMMA PositionIs ==
    \A w \in Seq(AByte) :
        Position \o w = Cons("e", Cons("[", Cons("p", Cons("R", w))))
BY FourConcat, SentBytes, SMTT(40) DEF Position

LEMMA BeforeIs ==
    ASSUME NEW k \in Key, NEW w \in Seq(AByte)
    PROVE  Bytes[k] \o w = Before(k, w)
<1> USE SentBytes
<1>1. CASE k = "a"
    BY <1>1, TheBytes, OneConcat DEF Before
<1>2. CASE k = "esc"
    BY <1>2, TheBytes, OneConcat DEF Before
<1>3. CASE k = "up"
    BY <1>3, TheBytes, ThreeConcat DEF Before, Escape
<1>4. CASE k = "other"
    BY <1>4, TheBytes, ThreeConcat DEF Before, Escape
<1>5. CASE k = "home"
    <2>1. <<"e", "[", "1", "~">> \o w =
            Cons("e", Cons("[", Cons("1", Cons("~", w))))
        BY FourConcat, SMTT(40)
    <2>2. Bytes[k] = <<"e", "[", "1", "~">>
        BY <1>5, TheBytes
    <2>3. Before(k, w) = Cons("e", Cons("[", Cons("1", Cons("~", w))))
        BY <1>5 DEF Before, Escape
    <2> QED
        BY <2>1, <2>2, <2>3
<1>6. CASE k = "insert"
    <2>1. <<"e", "[", "2", "~">> \o w =
            Cons("e", Cons("[", Cons("2", Cons("~", w))))
        BY FourConcat, SMTT(40)
    <2>2. Bytes[k] = <<"e", "[", "2", "~">>
        BY <1>6, TheBytes
    <2>3. Before(k, w) = Cons("e", Cons("[", Cons("2", Cons("~", w))))
        BY <1>6 DEF Before, Escape
    <2> QED
        BY <2>1, <2>2, <2>3
<1> QED
    BY <1>1, <1>2, <1>3, <1>4, <1>5, <1>6, TheKeys

-----------------------------------------------------------------------------
(***************************************************************************)
(* The bytes that keys send, and how they begin and end.                   *)
(***************************************************************************)
\* The bytes w are what some keys of S send, and g those of them that
\* console_getchar() knows.
Sends(S, w, g) ==
    \E r \in Seq(S) : w = Each(Bytes, r) /\ g = Each(Known, r)

\* What sends, and what is sent, is typed.
LEMMA AreKeys == \A S \in SUBSET Key : Seq(S) \subseteq Seq(Key)
BY SeqMonotonic

LEMMA SendsTyped ==
    ASSUME NEW S, S \subseteq Key, NEW w, NEW g, Sends(S, w, g)
    PROVE  w \in Seq(Sent) /\ w \in Seq(AByte) /\ g \in Seq(Key)
<1>1. PICK r \in Seq(S) : w = Each(Bytes, r) /\ g = Each(Known, r)
    BY DEF Sends
<1>2. r \in Seq(Key)
    BY AreKeys
<1>3. Each(Bytes, r) \in Seq(Sent)
    BY <1>2, KeyIs, EachTyped
<1>4. Each(Known, r) \in Seq(Key)
    BY <1>2, KeyIs, EachTyped
<1>5. w \in Seq(Sent)
    BY <1>1, <1>3
<1>6. w \in Seq(AByte)
    BY <1>5, SentBytes, SeqMonotonic
<1> QED
    BY <1>1, <1>4, <1>5, <1>6

\* No key, one key, and the keys of two sends together.
LEMMA SendsNone == \A S : Sends(S, <<>>, <<>>)
<1> SUFFICES ASSUME NEW S PROVE Sends(S, <<>>, <<>>)
    OBVIOUS
<1>1. <<>> \in Seq(S)
    OBVIOUS
<1>2. Each(Bytes, <<>>) = <<>> /\ Each(Known, <<>>) = <<>>
    BY EachNone
<1>3. PICK e \in Seq(S) : e = <<>>
    BY <1>1
<1>4. Sends(S, e, e)
    BY <1>2, <1>3 DEF Sends
<1> QED
    BY <1>3, <1>4

LEMMA SendsKey ==
    ASSUME NEW S, S \subseteq Key, NEW k \in S
    PROVE  Sends(S, Bytes[k], Known[k])
<1>1. PICK r : r = <<k>>
    OBVIOUS
<1>2. r \in Seq(S)
    BY <1>1
<1>3. k \in Key
    OBVIOUS
<1>4. Each(Bytes, <<k>>) = Bytes[k]
    BY <1>3, KeyIs, EachOne
<1>5. Each(Known, <<k>>) = Known[k]
    BY <1>3, KeyIs, EachOne
<1> QED
    BY <1>1, <1>2, <1>4, <1>5 DEF Sends

LEMMA SendsBoth ==
    ASSUME NEW S, S \subseteq Key, NEW v, NEW g, Sends(S, v, g),
           NEW w, NEW h, Sends(S, w, h)
    PROVE  Sends(S, v \o w, g \o h)
<1>1. PICK r \in Seq(S) : v = Each(Bytes, r) /\ g = Each(Known, r)
    BY DEF Sends
<1>2. PICK t \in Seq(S) : w = Each(Bytes, t) /\ h = Each(Known, t)
    BY DEF Sends
<1>3. r \in Seq(Key) /\ t \in Seq(Key)
    BY AreKeys
<1>4. Each(Bytes, r \o t) = Each(Bytes, r) \o Each(Bytes, t)
    BY <1>3, KeyIs, EachConcat
<1>5. Each(Known, r \o t) = Each(Known, r) \o Each(Known, t)
    BY <1>3, KeyIs, EachConcat
<1>6. PICK u : u = r \o t
    OBVIOUS
<1>7. u \in Seq(S)
    BY <1>6
<1>8. v \o w = Each(Bytes, u) /\ g \o h = Each(Known, u)
    BY <1>1, <1>2, <1>4, <1>5, <1>6
<1> QED
    BY <1>7, <1>8 DEF Sends

\* More keys can send what fewer can.
LEMMA SendsMore ==
    ASSUME NEW S, NEW T, S \subseteq T, NEW w, NEW g, Sends(S, w, g)
    PROVE  Sends(T, w, g)
<1>1. PICK r \in Seq(S) : w = Each(Bytes, r) /\ g = Each(Known, r)
    BY DEF Sends
<1>2. r \in Seq(T)
    BY SeqMonotonic
<1> QED
    BY <1>1, <1>2 DEF Sends

\* The first key, and those after it.
Begins(S, w, g) ==
    \E k \in S : \E v \in Seq(AByte) : \E h \in Seq(Key) :
        Sends(S, v, h) /\ w = Before(k, v) /\ g = Known[k] \o h

\* What is sent is nothing or begins with the bytes of a key.
LEMMA SendsFirst ==
    ASSUME NEW S, S \subseteq Key, NEW w, NEW g, Sends(S, w, g)
    PROVE  (w = <<>> /\ g = <<>>) \/ Begins(S, w, g)
<1>1. PICK r \in Seq(S) : w = Each(Bytes, r) /\ g = Each(Known, r)
    BY DEF Sends
<1>2. CASE r = <<>>
    BY <1>1, <1>2, EachNone
<1>3. CASE r # <<>>
    <2>1. Head(r) \in S /\ Tail(r) \in Seq(S) /\ r = Cons(Head(r), Tail(r))
        BY <1>3, IsCons
    <2>2. PICK k \in S : k = Head(r)
        BY <2>1
    <2>3. PICK t \in Seq(S) : t = Tail(r)
        BY <2>1
    <2>4. PICK u : u = <<k>>
        OBVIOUS
    <2>5. u \in Seq(Key) /\ k \in Key
        BY <2>4
    <2>6. t \in Seq(Key)
        BY AreKeys
    <2>7. r = u \o t
        BY <2>1, <2>2, <2>3, <2>4 DEF Cons
    <2>8. Each(Bytes, u) = Bytes[k] /\ Each(Known, u) = Known[k]
        <3>1. Each(Bytes, <<k>>) = Bytes[k]
            BY <2>5, KeyIs, EachOne
        <3>2. Each(Known, <<k>>) = Known[k]
            BY <2>5, KeyIs, EachOne
        <3> QED
            BY <2>4, <3>1, <3>2
    <2>9. PICK v : v = Each(Bytes, t)
        OBVIOUS
    <2>10. PICK h : h = Each(Known, t)
        OBVIOUS
    <2>11. Sends(S, v, h)
        BY <2>9, <2>10 DEF Sends
    <2>12. v \in Seq(AByte) /\ h \in Seq(Key)
        BY <2>11, SendsTyped
    <2>13. Each(Bytes, u \o t) = Each(Bytes, u) \o Each(Bytes, t)
        BY <2>5, <2>6, KeyIs, EachConcat
    <2>14. Each(Known, u \o t) = Each(Known, u) \o Each(Known, t)
        BY <2>5, <2>6, KeyIs, EachConcat
    <2>15. w = Bytes[k] \o v
        BY <1>1, <2>7, <2>8, <2>9, <2>13
    <2>16. g = Known[k] \o h
        BY <1>1, <2>7, <2>8, <2>10, <2>14
    <2>17. w = Before(k, v)
        BY <2>5, <2>12, <2>15, BeforeIs
    <2> QED
        BY <2>11, <2>12, <2>16, <2>17 DEF Begins
<1> QED
    BY <1>2, <1>3

\* An unknown key gives nothing.
LEMMA KnownIs ==
    ASSUME NEW k \in Key, NEW h \in Seq(Key)
    PROVE  Known[k] \o h = IF k \in {"other", "insert"} THEN h ELSE Cons(k, h)
<1>1. CASE k \in {"other", "insert"}
    <2>1. Known[k] = <<>>
        BY <1>1 DEF Known
    <2>2. <<>> \o h = h
        OBVIOUS
    <2> QED
        BY <1>1, <2>1, <2>2
<1>2. CASE k \notin {"other", "insert"}
    BY <1>2 DEF Known, Cons
<1> QED
    BY <1>1, <1>2

\* The bytes of a key, one after another.
LEMMA FirstByte ==
    ASSUME NEW S, S \subseteq Key, NEW x \in AByte, NEW z \in Seq(AByte),
           NEW g, Sends(S, Cons(x, z), g)
    PROVE  \/ x = "e"
           \/ x = "a" /\ \E h \in Seq(Key) : g = Cons("a", h) /\ Sends(S, z, h)
<1> USE SentBytes
<1>1. PICK w : w = Cons(x, z)
    OBVIOUS
<1>2. w # <<>>
    BY <1>1, ByteCons
<1>3. Begins(S, w, g)
    BY <1>1, <1>2, SendsFirst
<1>4. PICK k \in S : \E v \in Seq(AByte) : \E h \in Seq(Key) :
                Sends(S, v, h) /\ w = Before(k, v) /\ g = Known[k] \o h
    BY <1>3 DEF Begins
<1>5. PICK v \in Seq(AByte) : \E h \in Seq(Key) :
                Sends(S, v, h) /\ w = Before(k, v) /\ g = Known[k] \o h
    BY <1>4
<1>6. PICK h \in Seq(Key) :
                Sends(S, v, h) /\ w = Before(k, v) /\ g = Known[k] \o h
    BY <1>5
<1>7. k \in Key
    OBVIOUS
<1>8. CASE k = "a"
    <2>1. Cons(x, z) = Cons("a", v)
        BY <1>1, <1>6, <1>8 DEF Before
    <2>2. x = "a" /\ z = v
        BY <2>1, SameCons
    <2>3. g = Cons("a", h)
        BY <1>6, <1>7, <1>8, KnownIs
    <2> QED
        BY <1>6, <2>2, <2>3
<1>9. CASE k # "a"
    <2>1. PICK u \in Seq(AByte) : Before(k, v) = Cons("e", u)
        BY <1>9, ByteCons DEF Before, Escape
    <2>2. Cons(x, z) = Cons("e", u)
        BY <1>1, <1>6, <2>1
    <2>3. x = "e"
        BY <2>2, SameCons
    <2> QED
        BY <2>3
<1> QED
    BY <1>8, <1>9

\* After ESC comes "[", unless the ESC key was pressed.
LEMMA SecondByte ==
    ASSUME NEW S, S \subseteq Key, NEW x \in AByte, NEW z \in Seq(AByte),
           NEW g, Sends(S, Cons("e", Cons(x, z)), g)
    PROVE  \/ x = "["
           \/ /\ "esc" \in S
              /\ \E h \in Seq(Key) : g = Cons("esc", h)
                                       /\ Sends(S, Cons(x, z), h)
<1> USE SentBytes
<1>1. PICK y : y = Cons(x, z)
    OBVIOUS
<1>2. y \in Seq(AByte)
    BY <1>1, ByteCons
<1>3. PICK w : w = Cons("e", y)
    OBVIOUS
<1>4. w # <<>>
    BY <1>2, <1>3, ByteCons
<1>5. Sends(S, w, g)
    BY <1>1, <1>3
<1>6. Begins(S, w, g)
    BY <1>4, <1>5, SendsFirst
<1>7. PICK k \in S : \E v \in Seq(AByte) : \E h \in Seq(Key) :
                Sends(S, v, h) /\ w = Before(k, v) /\ g = Known[k] \o h
    BY <1>6 DEF Begins
<1>8. PICK v \in Seq(AByte) : \E h \in Seq(Key) :
                Sends(S, v, h) /\ w = Before(k, v) /\ g = Known[k] \o h
    BY <1>7
<1>9. PICK h \in Seq(Key) :
                Sends(S, v, h) /\ w = Before(k, v) /\ g = Known[k] \o h
    BY <1>8
<1>10. k \in Key
    OBVIOUS
<1>11. CASE k = "esc"
    <2>1. Cons("e", y) = Cons("e", v)
        BY <1>3, <1>9, <1>11 DEF Before
    <2>2. y = v
        BY <1>2, <2>1, SameCons
    <2>3. g = Cons("esc", h)
        BY <1>9, <1>10, <1>11, KnownIs
    <2> QED
        BY <1>1, <1>9, <1>11, <2>2, <2>3
<1>12. CASE k = "a"
    <2>1. Cons("e", y) = Cons("a", v)
        BY <1>3, <1>9, <1>12 DEF Before
    <2> QED
        BY <1>2, <2>1, SameCons
<1>13. CASE k \notin {"a", "esc"}
    <2>1. PICK u \in Seq(AByte) : Before(k, v) = Cons("e", Cons("[", u))
        BY <1>13, ByteCons DEF Before, Escape
    <2>2. PICK c : c = Cons("[", u)
        OBVIOUS
    <2>3. c \in Seq(AByte)
        BY <2>2, ByteCons
    <2>4. Cons("e", y) = Cons("e", c)
        BY <1>3, <1>9, <2>1, <2>2
    <2>5. y = c
        BY <1>2, <2>4, <2>3, SameCons
    <2>6. Cons(x, z) = Cons("[", u)
        BY <1>1, <2>5, <2>2
    <2> QED
        BY <2>6, SameCons
<1> QED
    BY <1>11, <1>12, <1>13

\* No key begins with a bracket.
LEMMA NoBracket ==
    ASSUME NEW S, S \subseteq Key, NEW z \in Seq(AByte), NEW g
    PROVE  ~Sends(S, Cons("[", z), g)
<1>1. "[" \in AByte
    BY SentBytes
<1> QED
    BY <1>1, FirstByte

\* After "ESC [".
LEMMA CodeByte ==
    ASSUME NEW S, S \subseteq Key, "insert" \notin S, NEW y \in Seq(AByte),
           NEW g, Sends(S, Escape(y), g)
    PROVE  \/ \E v \in Seq(AByte) : \E h \in Seq(Key) :
                y = Cons("A", v) /\ g = Cons("up", h) /\ Sends(S, v, h)
           \/ \E v \in Seq(AByte) : \E h \in Seq(Key) :
                /\ "home" \in S /\ y = Cons("1", Cons("~", v))
                /\ g = Cons("home", h) /\ Sends(S, v, h)
           \/ \E v \in Seq(AByte) : y = Cons("P", v) /\ Sends(S, v, g)
<1> USE SentBytes
<1>1. PICK b : b = Cons("[", y)
    OBVIOUS
<1>2. b \in Seq(AByte)
    BY <1>1, ByteCons
<1>3. PICK w : w = Cons("e", b)
    OBVIOUS
<1>4. w # <<>>
    BY <1>2, <1>3, ByteCons
<1>5. Sends(S, w, g)
    BY <1>1, <1>3 DEF Escape
<1>6. Begins(S, w, g)
    BY <1>4, <1>5, SendsFirst
<1>7. PICK k \in S : \E v \in Seq(AByte) : \E h \in Seq(Key) :
                Sends(S, v, h) /\ w = Before(k, v) /\ g = Known[k] \o h
    BY <1>6 DEF Begins
<1>8. PICK v \in Seq(AByte) : \E h \in Seq(Key) :
                Sends(S, v, h) /\ w = Before(k, v) /\ g = Known[k] \o h
    BY <1>7
<1>9. PICK h \in Seq(Key) :
                Sends(S, v, h) /\ w = Before(k, v) /\ g = Known[k] \o h
    BY <1>8
<1>10. k \in Key
    OBVIOUS
<1>11. CASE k = "esc"
    <2>1. Cons("e", b) = Cons("e", v)
        BY <1>3, <1>9, <1>11 DEF Before
    <2>2. b = v
        BY <1>2, <2>1, SameCons
    <2>3. Sends(S, Cons("[", y), h)
        BY <1>1, <1>9, <2>2
    <2> QED
        BY <2>3, NoBracket
<1>12. CASE k = "a"
    <2>1. Cons("e", b) = Cons("a", v)
        BY <1>3, <1>9, <1>12 DEF Before
    <2> QED
        BY <1>2, <2>1, SameCons
<1>13. ASSUME NEW u \in Seq(AByte), w = Escape(u)
      PROVE  y = u
    <2>1. PICK c : c = Cons("[", u)
        OBVIOUS
    <2>2. c \in Seq(AByte)
        BY <2>1, ByteCons
    <2>3. Cons("e", b) = Cons("e", c)
        BY <1>3, <1>13, <2>1 DEF Escape
    <2>4. b = c
        BY <1>2, <2>3, <2>2, SameCons
    <2>5. Cons("[", y) = Cons("[", u)
        BY <1>1, <2>4, <2>1
    <2> QED
        BY <2>5, SameCons
<1>14. CASE k = "up"
    <2>1. PICK u \in Seq(AByte) : u = Cons("A", v)
        BY ByteCons
    <2>2. y = u
        BY <1>9, <1>13, <1>14, <2>1 DEF Before
    <2>3. g = Cons("up", h)
        BY <1>9, <1>10, <1>14, KnownIs
    <2> QED
        BY <1>9, <2>1, <2>2, <2>3
<1>15. CASE k = "other"
    <2>1. PICK u \in Seq(AByte) : u = Cons("P", v)
        BY ByteCons
    <2>2. y = u
        BY <1>9, <1>13, <1>15, <2>1 DEF Before
    <2>3. g = h
        BY <1>9, <1>10, <1>15, KnownIs
    <2> QED
        BY <1>9, <2>1, <2>2, <2>3
<1>16. CASE k = "home"
    <2>1. PICK u \in Seq(AByte) : u = Cons("1", Cons("~", v))
        BY ByteCons
    <2>2. y = u
        BY <1>9, <1>13, <1>16, <2>1 DEF Before
    <2>3. g = Cons("home", h)
        BY <1>9, <1>10, <1>16, KnownIs
    <2> QED
        BY <1>9, <1>16, <2>1, <2>2, <2>3
<1> QED
    BY <1>10, <1>11, <1>12, <1>14, <1>15, <1>16, TheKeys

\* What is sent to the end does not end in the middle of a key.
Whole(w) == w # <<>> => w[Len(w)] \notin {"e", "["}

Plain == {"a", "up", "other"}

LEMMA PlainKeys ==
    /\ Plain \subseteq Key /\ "esc" \notin Plain /\ "home" \notin Plain
    /\ "insert" \notin Plain
BY TheKeys DEF Plain

\* What keys other than ESC and Home send is whole.
LEMMA SendsWhole ==
    ASSUME NEW w, NEW g, Sends(Plain, w, g)
    PROVE  Whole(w)
<1>1. PICK r \in Seq(Plain) : w = Each(Bytes, r) /\ g = Each(Known, r)
    BY DEF Sends
<1>2. CASE r = <<>>
    BY <1>1, <1>2, EachNone DEF Whole
<1>3. CASE r # <<>>
    <2>1. PICK s \in Seq(Plain), k \in Plain : r = Append(s, k)
        BY <1>3, SequenceEmptyOrAppend
    <2>2. s \in Seq(Key) /\ k \in Key
        BY PlainKeys, SeqMonotonic
    <2>3. Each(Bytes, Append(s, k)) = Each(Bytes, s) \o Bytes[k]
        BY <2>2, KeyIs, EachNext
    <2>4. PICK u : u = Each(Bytes, s)
        OBVIOUS
    <2>5. u \in Seq(Sent)
        BY <2>2, <2>4, KeyIs, EachTyped
    <2>6. PICK b : b = Bytes[k]
        OBVIOUS
    <2>7. b \in Seq(Sent) /\ b # <<>> /\ b[Len(b)] \in {"a", "A", "P"}
        <3>1. "a" \in Sent /\ "e" \in Sent /\ "[" \in Sent /\ "A" \in Sent
              /\ "P" \in Sent
            BY DEF Sent
        <3>2. CASE k = "a"
            <4>1. b = <<"a">>
                BY <2>6, <3>2, TheBytes
            <4> QED
                BY <3>1, <4>1
        <3>3. CASE k = "up"
            <4>1. b = <<"e", "[", "A">>
                BY <2>6, <3>3, TheBytes
            <4> QED
                BY <3>1, <4>1
        <3>4. CASE k = "other"
            <4>1. b = <<"e", "[", "P">>
                BY <2>6, <3>4, TheBytes
            <4> QED
                BY <3>1, <4>1
        <3> QED
            BY <3>2, <3>3, <3>4 DEF Plain
    <2>8. w = u \o b
        BY <1>1, <2>1, <2>3, <2>4, <2>6
    <2>9. /\ Len(u \o b) = Len(u) + Len(b)
          /\ (u \o b)[Len(u) + Len(b)] = b[Len(b)]
        BY <2>5, <2>7
    <2> QED
        BY <2>7, <2>8, <2>9 DEF Whole
<1> QED
    BY <1>2, <1>3

-----------------------------------------------------------------------------
(***************************************************************************)
(* What is left of the bytes that have been sent.                          *)
(***************************************************************************)
\* b, then h, then w are what is left of n bytes that keys of S have sent,
\* and after an answer of the terminal v; k are the keys they are to give.
Left(S, n, b, h, w, v, k) ==
    /\ b \in Seq(AByte) /\ h \in Seq(AByte) /\ w \in Seq(AByte)
    /\ Len(b) + Len(h) + Len(w) + Len(v) <= n
    /\ \E g1, g2 : /\ Sends(S, b \o (h \o w), g1) /\ Sends(S, v, g2)
                   /\ k = g1 \o g2

\* Joining bytes, and joining keys.
LEMMA ByteAssoc ==
    \A a, b, c \in Seq(AByte) : (a \o b) \o c = a \o (b \o c)
BY Assoc

LEMMA ByteConcat == \A a, b \in Seq(AByte) : a \o b \in Seq(AByte)
OBVIOUS

LEMMA KeyAssoc ==
    \A a, b, c \in Seq(Key) : (a \o b) \o c = a \o (b \o c)
BY Assoc

\* What is left is typed, and is no more than was sent.
LEMMA LeftTyped ==
    ASSUME NEW S, S \subseteq Key, NEW n, NEW b, NEW h, NEW w, NEW v, NEW k,
           Left(S, n, b, h, w, v, k)
    PROVE  /\ b \in Seq(AByte) /\ h \in Seq(AByte) /\ w \in Seq(AByte)
           /\ v \in Seq(AByte) /\ k \in Seq(Key)
           /\ Len(b) + Len(h) + Len(w) + Len(v) <= n
<1>1. PICK g1, g2 : /\ Sends(S, b \o (h \o w), g1) /\ Sends(S, v, g2)
                    /\ k = g1 \o g2
    BY DEF Left
<1>2. v \in Seq(AByte) /\ g2 \in Seq(Key)
    BY <1>1, SendsTyped
<1>3. g1 \in Seq(Key)
    BY <1>1, SendsTyped
<1>4. k \in Seq(Key)
    BY <1>1, <1>2, <1>3
<1> QED
    BY <1>2, <1>4 DEF Left

\* A byte that is held back is still left.
LEMMA HoldSame ==
    ASSUME NEW h \in Seq(AByte), NEW x \in AByte, NEW z \in Seq(AByte)
    PROVE  h \o Cons(x, z) = Append(h, x) \o z
<1>1. PICK o : o = <<x>>
    OBVIOUS
<1>2. o \in Seq(AByte)
    BY <1>1
<1>3. (h \o o) \o z = h \o (o \o z)
    BY <1>2, Assoc
<1>4. h \o <<x>> = Append(h, x)
    OBVIOUS
<1> QED
    BY <1>1, <1>3, <1>4 DEF Cons

LEMMA LeftHold ==
    ASSUME NEW S, S \subseteq Key, NEW n, NEW b, NEW h, NEW x \in AByte,
           NEW z \in Seq(AByte), NEW v, NEW k,
           Left(S, n, b, h, Cons(x, z), v, k)
    PROVE  Left(S, n, b, Append(h, x), z, v, k)
<1>1. PICK g1, g2 : /\ Sends(S, b \o (h \o Cons(x, z)), g1) /\ Sends(S, v, g2)
                    /\ k = g1 \o g2
    BY DEF Left
<1>2. b \in Seq(AByte) /\ h \in Seq(AByte) /\ v \in Seq(AByte)
      /\ Len(b) + Len(h) + Len(Cons(x, z)) + Len(v) <= n
    BY LeftTyped
<1>3. h \o Cons(x, z) = Append(h, x) \o z
    BY <1>2, HoldSame
<1>4. Append(h, x) \in Seq(AByte) /\ Len(Append(h, x)) = Len(h) + 1
    BY <1>2
<1>5. Len(Cons(x, z)) = 1 + Len(z) /\ Len(z) \in Nat
    BY DEF Cons
<1>6. Len(b) + Len(Append(h, x)) + Len(z) + Len(v) <= n
    <2>1. Len(b) \in Nat /\ Len(h) \in Nat /\ Len(v) \in Nat
        BY <1>2
    <2>2. Len(b) + (Len(h) + 1) + Len(z) + Len(v) =
            Len(b) + Len(h) + (1 + Len(z)) + Len(v)
        BY <1>5, <2>1
    <2> QED
        BY <1>2, <1>4, <1>5, <2>2
<1>7. Sends(S, b \o (Append(h, x) \o z), g1)
    BY <1>1, <1>3
<1> QED
    BY <1>1, <1>2, <1>4, <1>6, <1>7 DEF Left

\* Bytes that are put back into getc_buf are still left.
LEMMA LeftKeep ==
    ASSUME NEW S, S \subseteq Key, NEW n, NEW b, NEW h,
           NEW z, NEW v, NEW k,
           Left(S, n, b, h, z, v, k)
    PROVE  /\ Left(S, n, b \o h, <<>>, z, v, k)
           /\ n \in Nat => Len(b \o h) <= n
<1>1. PICK g1, g2 : /\ Sends(S, b \o (h \o z), g1) /\ Sends(S, v, g2)
                    /\ k = g1 \o g2
    BY DEF Left
<1>2. b \in Seq(AByte) /\ h \in Seq(AByte) /\ v \in Seq(AByte)
      /\ z \in Seq(AByte)
      /\ Len(b) + Len(h) + Len(z) + Len(v) <= n
    BY LeftTyped
<1>3. b \o (h \o z) = (b \o h) \o z
    BY <1>2, ByteAssoc, ZenonT(60)
<1>4. <<>> \o z = z /\ <<>> \in Seq(AByte) /\ Len(<<>>) = 0
    BY <1>2
<1>5. b \o h \in Seq(AByte) /\ Len(b \o h) = Len(b) + Len(h)
    BY <1>2
<1>6. Len(b) \in Nat /\ Len(h) \in Nat /\ Len(v) \in Nat /\ Len(z) \in Nat
    BY <1>2
<1>7. Len(b \o h) + Len(<<>>) + Len(z) + Len(v) <= n
    BY <1>2, <1>4, <1>5, <1>6
<1>8. n \in Nat => Len(b \o h) <= n
    BY <1>2, <1>5, <1>6
<1>9. Sends(S, (b \o h) \o (<<>> \o z), g1)
    BY <1>1, <1>3, <1>4
<1>10. Left(S, n, b \o h, <<>>, z, v, k)
    <2>1. PICK c : c = b \o h
        OBVIOUS
    <2>2. PICK e : e = <<>>
        OBVIOUS
    <2>3. Left(S, n, c, e, z, v, k)
        BY <1>1, <1>2, <1>4, <1>5, <1>7, <1>9, <2>1, <2>2 DEF Left
    <2> QED
        BY <2>1, <2>2, <2>3
<1> QED
    BY <1>8, <1>10

\* More keys can have sent what is left.
LEMMA LeftMore ==
    ASSUME NEW S, NEW T, S \subseteq T, NEW n, NEW b, NEW h,
           NEW w, NEW v, NEW k, Left(S, n, b, h, w, v, k)
    PROVE  Left(T, n, b, h, w, v, k)
<1>1. PICK g1, g2 : /\ Sends(S, b \o (h \o w), g1) /\ Sends(S, v, g2)
                    /\ k = g1 \o g2
    BY DEF Left
<1>2. Sends(T, b \o (h \o w), g1)
    BY <1>1, SendsMore
<1>3. Sends(T, v, g2)
    BY <1>1, SendsMore
<1> QED
    BY <1>1, <1>2, <1>3 DEF Left

\* At an answer no key is half read.
LEMMA LeftWhole ==
    ASSUME NEW n, NEW b, NEW h, NEW v, NEW k, h # <<>>,
           Left(Plain, n, b, h, <<>>, v, k)
    PROVE  h[Len(h)] \notin {"e", "["}
<1>1. PICK g1, g2 : /\ Sends(Plain, b \o (h \o <<>>), g1)
                    /\ Sends(Plain, v, g2)
                    /\ k = g1 \o g2
    BY DEF Left
<1>2. b \in Seq(AByte) /\ h \in Seq(AByte)
    BY DEF Left
<1>3. h \o <<>> = h
    BY <1>2
<1>4. PICK u : u = b \o h
    OBVIOUS
<1>5. Whole(u)
    BY <1>1, <1>3, <1>4, SendsWhole
<1>6. u # <<>> /\ u[Len(u)] = h[Len(h)]
    BY <1>2, <1>4
<1> QED
    BY <1>5, <1>6 DEF Whole

\* What is held of the keys is no answer.
LEMMA LeftSent ==
    ASSUME NEW S, S \subseteq Key, NEW n, NEW b, NEW h, NEW w, NEW v, NEW k,
           Left(S, n, b, h, w, v, k)
    PROVE  \A i \in 1 .. Len(h) : h[i] # "p"
<1>1. PICK g1, g2 : /\ Sends(S, b \o (h \o w), g1) /\ Sends(S, v, g2)
                    /\ k = g1 \o g2
    BY DEF Left
<1>2. b \in Seq(AByte) /\ h \in Seq(AByte) /\ w \in Seq(AByte)
    BY DEF Left
<1>3. PICK u : u = b \o (h \o w)
    OBVIOUS
<1>4. u \in Seq(Sent)
    BY <1>1, <1>3, SendsTyped
<1>5. ASSUME NEW i \in 1 .. Len(h)
      PROVE  h[i] # "p"
    <2>1. PICK t : t = h \o w
        OBVIOUS
    <2>2. t \in Seq(AByte) /\ t[i] = h[i] /\ i \in 1 .. Len(t)
        BY <1>2, <2>1
    <2>3. (b \o t)[Len(b) + i] = t[i] /\ Len(b) + i \in 1 .. Len(b \o t)
        BY <1>2, <2>2
    <2>4. u[Len(b) + i] = h[i] /\ Len(b) + i \in 1 .. Len(u)
        BY <1>3, <2>1, <2>2, <2>3
    <2>5. u[Len(b) + i] \in Sent
        BY <1>4, <2>4
    <2> QED
        BY <2>4, <2>5, SentBytes
<1> QED
    BY <1>5

\* Nothing that was sent gives no key.
LEMMA SendsNothing ==
    ASSUME NEW S, S \subseteq Key, NEW g, Sends(S, <<>>, g)
    PROVE  g = <<>>
<1>1. ~Begins(S, <<>>, g)
    <2> SUFFICES ASSUME NEW k \in S, NEW u \in Seq(AByte),
                        <<>> = Before(k, u)
                 PROVE  FALSE
        BY DEF Begins
    <2>1. \A x \in {"a", "e", "[", "A", "1", "2", "~", "P"} : x \in AByte
        BY SentBytes
    <2>2. PICK x \in AByte, z \in Seq(AByte) : Before(k, u) = Cons(x, z)
        BY <2>1, ByteCons DEF Before, Escape
    <2>3. Cons(x, z) # <<>>
        BY ByteCons
    <2> QED
        BY <2>2, <2>3
<1> QED
    BY <1>1, SendsFirst

\* Another key, before the answer and after it.
LEMMA LeftType ==
    ASSUME NEW S, S \subseteq Key, NEW n, n \in Nat, NEW b, NEW h, NEW w,
           NEW g, NEW q \in S, Left(S, n, b, h, w, <<>>, g)
    PROVE  Left(S, n + Len(Bytes[q]), b, h, w \o Bytes[q], <<>>, g \o Known[q])
<1>1. PICK g1, g2 : /\ Sends(S, b \o (h \o w), g1) /\ Sends(S, <<>>, g2)
                    /\ g = g1 \o g2
    BY DEF Left
<1>2. b \in Seq(AByte) /\ h \in Seq(AByte) /\ w \in Seq(AByte)
      /\ Len(b) + Len(h) + Len(w) + Len(<<>>) <= n
    BY DEF Left
<1>3. PICK y : y = Bytes[q]
    OBVIOUS
<1>4. PICK e : e = Known[q]
    OBVIOUS
<1>5. Sends(S, y, e)
    BY <1>3, <1>4, SendsKey
<1>6. y \in Seq(AByte) /\ e \in Seq(Key)
    BY <1>5, SendsTyped
<1>7. g1 \in Seq(Key) /\ g2 = <<>>
    <2>1. g2 = <<>>
        BY <1>1, SendsNothing
    <2>2. g1 \in Seq(Key)
        BY <1>1, SendsTyped
    <2> QED
        BY <2>1, <2>2
<1>8. PICK u : u = b \o (h \o w)
    OBVIOUS
<1>9. Sends(S, u \o y, g1 \o e)
    BY <1>1, <1>5, <1>8, SendsBoth
<1>10. u \o y = b \o (h \o (w \o y))
    <2>1. PICK t : t = h \o w
        OBVIOUS
    <2>2. t \in Seq(AByte)
        BY <1>2, <2>1
    <2>3. (b \o t) \o y = b \o (t \o y)
        BY <1>2, <1>6, <2>2, ByteAssoc, ZenonT(60)
    <2>4. (h \o w) \o y = h \o (w \o y)
        BY <1>2, <1>6, ByteAssoc, ZenonT(60)
    <2> QED
        BY <1>8, <2>1, <2>3, <2>4
<1>11. g \o e = (g1 \o e) \o g2
    <2>1. g1 \o g2 = g1
        BY <1>7
    <2>2. (g1 \o e) \o <<>> = g1 \o e
        BY <1>6, <1>7
    <2> QED
        BY <1>1, <1>7, <2>1, <2>2
<1>12. PICK m : m = w \o y
    OBVIOUS
<1>13. m \in Seq(AByte) /\ Len(m) = Len(w) + Len(y)
    BY <1>2, <1>6, <1>12
<1>14. Len(b) + Len(h) + Len(m) + Len(<<>>) <= n + Len(y)
    <2>1. Len(b) \in Nat /\ Len(h) \in Nat /\ Len(w) \in Nat /\ Len(y) \in Nat
          /\ Len(<<>>) = 0
        BY <1>2, <1>6
    <2> QED
        BY <1>2, <1>13, <2>1
<1>15. Sends(S, b \o (h \o m), g1 \o e)
    BY <1>9, <1>10, <1>12
<1>16. PICK f : f = g1 \o e
    OBVIOUS
<1>17. PICK nil : nil = <<>>
    OBVIOUS
<1>18. Left(S, n + Len(y), b, h, m, nil, g \o e)
    BY <1>1, <1>2, <1>11, <1>13, <1>14, <1>15, <1>16, <1>17 DEF Left
<1> QED
    BY <1>3, <1>4, <1>12, <1>17, <1>18

\* The same with the answer in the stream: the key is behind it.
LEMMA LeftTypeBehind ==
    ASSUME NEW S, S \subseteq Key, NEW n, n \in Nat, NEW b, NEW h, NEW w,
           NEW v, NEW g, NEW q \in S, Left(S, n, b, h, w, v, g)
    PROVE  Left(S, n + Len(Bytes[q]), b, h, w, v \o Bytes[q], g \o Known[q])
<1>1. PICK g1, g2 : /\ Sends(S, b \o (h \o w), g1) /\ Sends(S, v, g2)
                    /\ g = g1 \o g2
    BY DEF Left
<1>2. b \in Seq(AByte) /\ h \in Seq(AByte) /\ w \in Seq(AByte)
      /\ Len(b) + Len(h) + Len(w) + Len(v) <= n
    BY DEF Left
<1>3. v \in Seq(AByte)
    BY LeftTyped
<1>4. PICK y : y = Bytes[q]
    OBVIOUS
<1>5. PICK e : e = Known[q]
    OBVIOUS
<1>6. Sends(S, y, e)
    BY <1>4, <1>5, SendsKey
<1>7. y \in Seq(AByte) /\ e \in Seq(Key)
    BY <1>6, SendsTyped
<1>8. g1 \in Seq(Key)
    BY <1>1, SendsTyped
<1>9. g2 \in Seq(Key)
    BY <1>1, SendsTyped
<1>10. Sends(S, v \o y, g2 \o e)
    BY <1>1, <1>6, SendsBoth
<1>11. g \o e = g1 \o (g2 \o e)
    <2>1. (g1 \o g2) \o e = g1 \o (g2 \o e)
        BY <1>7, <1>8, <1>9, KeyAssoc, ZenonT(60)
    <2> QED
        BY <1>1, <2>1
<1>12. PICK m : m = v \o y
    OBVIOUS
<1>13. m \in Seq(AByte) /\ Len(m) = Len(v) + Len(y)
    BY <1>3, <1>7, <1>12
<1>14. Len(b) + Len(h) + Len(w) + Len(m) <= n + Len(y)
    <2>1. Len(b) \in Nat /\ Len(h) \in Nat /\ Len(w) \in Nat /\ Len(y) \in Nat
          /\ Len(v) \in Nat
        BY <1>2, <1>7, <1>3
    <2> QED
        BY <1>2, <1>13, <2>1
<1>15. PICK f : f = g2 \o e
    OBVIOUS
<1>16. Left(S, n + Len(y), b, h, w, m, g \o e)
    <2>1. Sends(S, m, f) /\ g \o e = g1 \o f
        BY <1>10, <1>11, <1>12, <1>15
    <2> QED
        BY <1>1, <1>2, <1>14, <2>1 DEF Left
<1> QED
    BY <1>4, <1>5, <1>12, <1>16

\* Without a question there is one stream.
LEMMA LeftAll ==
    ASSUME NEW S, S \subseteq Key, NEW n, n \in Nat, NEW b, NEW v, NEW g,
           Left(S, n, b, <<>>, <<>>, v, g)
    PROVE  Sends(S, b \o v, g) /\ Len(b) + Len(v) <= n
<1>1. PICK g1, g2 : /\ Sends(S, b \o (<<>> \o <<>>), g1) /\ Sends(S, v, g2)
                    /\ g = g1 \o g2
    BY DEF Left
<1>2. b \in Seq(AByte) /\ v \in Seq(AByte)
      /\ Len(b) + Len(<<>>) + Len(<<>>) + Len(v) <= n
    BY LeftTyped
<1>3. b \o (<<>> \o <<>>) = b
    BY <1>2
<1>4. Sends(S, b, g1)
    BY <1>1, <1>3
<1>5. Sends(S, b \o v, g1 \o g2)
    BY <1>1, <1>4, SendsBoth
<1>6. Len(b) + Len(v) <= n
    <2>1. Len(b) \in Nat /\ Len(v) \in Nat /\ Len(<<>>) = 0
        BY <1>2
    <2> QED
        BY <1>2, <2>1
<1> QED
    BY <1>1, <1>5, <1>6

\* Before the answer all that was sent is left.
LEMMA AllLeft ==
    ASSUME NEW S, S \subseteq Key, NEW n, n \in Nat, NEW b \in Seq(AByte),
           NEW w \in Seq(AByte), NEW g, Sends(S, b \o w, g),
           Len(b) + Len(w) <= n
    PROVE  Left(S, n, b, <<>>, w, <<>>, g)
<1>1. PICK nil : nil = <<>>
    OBVIOUS
<1>2. nil \in Seq(AByte) /\ Len(nil) = 0 /\ nil \o w = w
    BY <1>1
<1>3. Sends(S, nil, nil)
    BY <1>1, SendsNone
<1>4. g \in Seq(Key)
    BY SendsTyped
<1>5. g = g \o nil
    BY <1>1, <1>4
<1>6. Len(b) + Len(nil) + Len(w) + Len(nil) <= n
    <2>1. Len(b) \in Nat /\ Len(w) \in Nat
        OBVIOUS
    <2> QED
        BY <1>2, <2>1
<1>7. Sends(S, b \o (nil \o w), g)
    BY <1>2
<1>8. Left(S, n, b, nil, w, nil, g)
    BY <1>2, <1>3, <1>5, <1>6, <1>7 DEF Left
<1> QED
    BY <1>1, <1>8

-----------------------------------------------------------------------------
(***************************************************************************)
(* The invariant. The bytes that have been sent and not been read are what *)
(* keys send, cut at most at the answer of the terminal: in getc_buf, in   *)
(* what console_getpos() holds back, and in tty. Read on from here they    *)
(* give exactly the keys that the caller has not got yet.                  *)
(***************************************************************************)
InGetpos == doing \in {"pos", "pos_esc", "pos_tbuf"}

\* The case that KeysInOrder is about.
Good ==
    /\ "insert" \notin Range(typed)
    /\ calls = 0 \/ (/\ BytesTyped <= GetcSize
                     /\ {"esc", "home"} \cap Range(typed) = {})

\* The bytes of the key that console_getchar() is reading, before w.
Begun(w) ==
    CASE doing = "key_esc" -> Cons("e", w)
      [] doing = "key_code" -> Escape(w)
      [] doing = "key_last" -> Escape(Cons("1", w))
      [] OTHER -> w

\* The keys that are still to be given, when nobody asks for the cursor.
Gets(k) ==
    /\ Sends(Range(typed), Begun(getc_buf \o tty), k)
    /\ got \o k = Keys

Reads ==
    /\ ~query
    /\ calls = 0 => \/ getc_buf = <<>>
                    \/ Len(getc_buf) = 1 /\ doing \in {"caller", "key"}
    /\ Len(getc_buf) + Len(tty) <= BytesTyped
    /\ \E k : Gets(k)

\* The answer is before v, and what is before the answer is w ...
Rest(v) == IF query THEN <<>> ELSE Position \o v

AsksFor(w, v, k) ==
    /\ tty = w \o Rest(v)
    /\ query => v = <<>>
    /\ Left(Range(typed), BytesTyped, getc_buf, held, w, v, k)
    /\ got \o k = Keys

Asks ==
    /\ doing = "pos_esc" => held = <<"e">>
    /\ \E w, v, k : AsksFor(w, v, k)

\* ... or console_getpos() is reading the answer.
Answered(v) ==
    \/ /\ doing = "pos_esc" /\ held = <<"e">>
       /\ tty = Cons("[", Cons("p", Cons("R", v)))
    \/ /\ doing = "pos_tbuf" /\ held = <<"e", "[">>
       /\ tty = Cons("p", Cons("R", v))
    \/ /\ doing = "pos_tbuf" /\ held = <<"e", "[", "p">>
       /\ tty = Cons("R", v)

Parses ==
    /\ ~query
    /\ \E v, k : /\ Answered(v)
                 /\ Left(Range(typed), BytesTyped, getc_buf, <<>>, <<>>, v, k)
                 /\ got \o k = Keys

KeysInv ==
    Good => IF InGetpos THEN calls > 0 /\ (Asks \/ Parses) ELSE Reads

\* What has been typed is typed.
LEMMA Typings ==
    ASSUME CTypeOK
    PROVE  /\ Range(typed) \subseteq Key /\ BytesTyped \in Nat
           /\ Keys \in Seq(Key)
<1>1. typed \in Seq(Key)
    BY DEF CTypeOK
<1>2. Range(typed) \subseteq Key
    BY <1>1 DEF Range
<1>3. Each(Bytes, typed) \in Seq(Sent)
    BY <1>1, KeyIs, EachTyped
<1>4. Each(Known, typed) \in Seq(Key)
    BY <1>1, KeyIs, EachTyped
<1> QED
    BY <1>2, <1>3, <1>4 DEF BytesTyped, Keys

\* Only keys that are Plain are typed once the cursor has been asked for.
LEMMA OnlyPlain ==
    ASSUME CTypeOK, Good, calls > 0
    PROVE  Range(typed) \subseteq Plain /\ BytesTyped <= GetcSize
<1>1. calls # 0
    BY DEF CTypeOK
<1>2. Range(typed) \subseteq Key
    BY Typings
<1> QED
    BY <1>1, <1>2, TheKeys DEF Good, Plain

\* The keys that the caller has and those to come.
LEMMA GotAssoc ==
    ASSUME CTypeOK, NEW a \in Seq(Key), NEW b \in Seq(Key)
    PROVE  (got \o a) \o b = got \o (a \o b)
<1>1. got \in Seq(Key \cup AByte)
    BY DEF CTypeOK
<1>2. a \in Seq(Key \cup AByte) /\ b \in Seq(Key \cup AByte)
    BY SeqMonotonic
<1> QED
    BY <1>1, <1>2, ConcatAssociative

LEMMA GotCons ==
    ASSUME CTypeOK, NEW x \in Key, NEW b \in Seq(Key)
    PROVE  got \o Cons(x, b) = Append(got, x) \o b
<1>1. PICK o : o = <<x>>
    OBVIOUS
<1>2. o \in Seq(Key)
    BY <1>1
<1>3. (got \o o) \o b = got \o (o \o b)
    BY <1>2, GotAssoc
<1>4. got \o <<x>> = Append(got, x)
    BY DEF CTypeOK
<1> QED
    BY <1>1, <1>3, <1>4 DEF Cons

-----------------------------------------------------------------------------
(***************************************************************************)
(* The invariant is kept when a key is typed, and when console_getpos()    *)
(* starts.                                                                 *)
(***************************************************************************)
\* A key is typed.
LEMMA KeysGrow ==
    ASSUME CTypeOK, NEW q \in Key, typed' = Append(typed, q)
    PROVE  /\ Keys' = Keys \o Known[q]
           /\ BytesTyped' = BytesTyped + Len(Bytes[q])
           /\ Range(typed') = Range(typed) \cup {q}
           /\ Bytes[q] \in Seq(AByte) /\ Known[q] \in Seq(Key)
<1>1. typed \in Seq(Key)
    BY DEF CTypeOK
<1>2. Each(Known, Append(typed, q)) = Each(Known, typed) \o Known[q]
    BY <1>1, KeyIs, EachNext
<1>3. Each(Bytes, Append(typed, q)) = Each(Bytes, typed) \o Bytes[q]
    BY <1>1, KeyIs, EachNext
<1>4. Each(Bytes, typed) \in Seq(Sent)
    BY <1>1, KeyIs, EachTyped
<1>5. Bytes[q] \in Seq(Sent) /\ Known[q] \in Seq(Key)
    BY KeyIs DEF Gives
<1>6. Len(Each(Bytes, typed) \o Bytes[q]) =
        Len(Each(Bytes, typed)) + Len(Bytes[q])
    <2>1. PICK u \in Seq(Sent) : u = Each(Bytes, typed)
        BY <1>4
    <2>2. PICK y \in Seq(Sent) : y = Bytes[q]
        BY <1>5
    <2>3. Len(u \o y) = Len(u) + Len(y)
        OBVIOUS
    <2> QED
        BY <2>1, <2>2, <2>3
<1>7. Keys' = Keys \o Known[q]
    BY <1>2 DEF Keys
<1>8. BytesTyped' = BytesTyped + Len(Bytes[q])
    BY <1>3, <1>6 DEF BytesTyped
<1>9. Range(typed') = Range(typed) \cup {q}
    <2>1. /\ DOMAIN Append(typed, q) = 1 .. Len(typed) + 1
          /\ DOMAIN typed = 1 .. Len(typed) /\ Len(typed) \in Nat
          /\ \A i \in 1 .. Len(typed) : Append(typed, q)[i] = typed[i]
          /\ Append(typed, q)[Len(typed) + 1] = q
        BY <1>1
    <2> QED
        BY <2>1 DEF Range
<1>10. Bytes[q] \in Seq(AByte)
    BY <1>5, SentBytes, SeqMonotonic
<1> QED
    BY <1>5, <1>7, <1>8, <1>9, <1>10

\* Bytes behind do not change what console_getchar() has begun.
LEMMA BegunConcat ==
    ASSUME NEW w \in Seq(AByte), NEW y \in Seq(AByte)
    PROVE  Begun(w \o y) = Begun(w) \o y
<1> USE SentBytes
<1>1. CASE doing = "key_esc"
    BY <1>1, ConsConcat, ZenonT(60) DEF Begun
<1>2. ASSUME NEW u \in Seq(AByte)
      PROVE  Escape(u) \o y = Escape(u \o y)
    <2>1. PICK c \in Seq(AByte) : c = Cons("[", u)
        BY ByteCons
    <2>2. "[" \in AByte
        OBVIOUS
    <2>3. Cons("[", u) \o y = Cons("[", u \o y)
        BY <2>2, ConsConcat, ZenonT(60)
    <2>4. c \o y = Cons("[", u \o y)
        BY <2>1, <2>3
    <2>5. "e" \in AByte
        OBVIOUS
    <2>6. Cons("e", c) \o y = Cons("e", c \o y)
        BY <2>5, ConsConcat, ZenonT(60)
    <2> QED
        BY <2>1, <2>4, <2>6 DEF Escape
<1>3. CASE doing = "key_code"
    BY <1>2, <1>3 DEF Begun
<1>4. CASE doing = "key_last"
    <2>1. PICK c \in Seq(AByte) : c = Cons("1", w)
        BY ByteCons
    <2>2. "1" \in AByte
        OBVIOUS
    <2>3. Cons("1", w) \o y = Cons("1", w \o y)
        BY <2>2, ConsConcat, ZenonT(60)
    <2>4. c \o y = Cons("1", w \o y)
        BY <2>1, <2>3
    <2>5. Escape(c) \o y = Escape(c \o y)
        BY <1>2
    <2> QED
        BY <1>4, <2>1, <2>4, <2>5 DEF Begun
<1>5. CASE doing \notin {"key_esc", "key_code", "key_last"}
    BY <1>5 DEF Begun
<1> QED
    BY <1>1, <1>3, <1>4, <1>5

\* If the typing is good after a key, it was before.
LEMMA TypeGood ==
    ASSUME CTypeOK, NEW q \in Key, Type(q), Good'
    PROVE  Good
<1>1. /\ BytesTyped' = BytesTyped + Len(Bytes[q]) /\ Bytes[q] \in Seq(AByte)
      /\ Range(typed') = Range(typed) \cup {q}
    BY KeysGrow DEF Type
<1>2. BytesTyped \in Nat /\ GetcSize \in Nat /\ Len(Bytes[q]) \in Nat
    BY <1>1, Typings, SizesAssumption
<1>3. calls' = calls
    BY DEF Type
<1> QED
    BY <1>1, <1>2, <1>3 DEF Good

\* A key keeps the invariant: outside of console_getpos(), ...
LEMMA TypeReads ==
    ASSUME CTypeOK, NEW q \in Key, Type(q), Reads
    PROVE  Reads'
<1>1. PICK k : Gets(k)
    BY DEF Reads
<1>2. /\ Keys' = Keys \o Known[q] /\ BytesTyped' = BytesTyped + Len(Bytes[q])
      /\ Range(typed') = Range(typed) \cup {q}
      /\ Bytes[q] \in Seq(AByte) /\ Known[q] \in Seq(Key)
    BY KeysGrow DEF Type
<1>3. tty \in Seq(AByte) /\ getc_buf \in Seq(AByte)
    BY DEF CTypeOK
<1>4. tty' = tty \o Bytes[q]
      /\ UNCHANGED <<getc_buf, held, doing, query, calls, got>>
    BY DEF Type
<1>5. PICK T : T = Range(typed')
    OBVIOUS
<1>6. T \subseteq Key /\ Range(typed) \subseteq T /\ q \in T
    BY <1>2, <1>5, Typings
<1>7. PICK s : s = Begun(getc_buf \o tty)
    OBVIOUS
<1>8. Sends(T, s, k)
    BY <1>1, <1>6, <1>7, SendsMore DEF Gets
<1>9. k \in Seq(Key)
    BY <1>6, <1>8, SendsTyped
<1>10. Sends(T, Bytes[q], Known[q])
    BY <1>6, SendsKey
<1>11. Sends(T, s \o Bytes[q], k \o Known[q])
    BY <1>6, <1>8, <1>10, SendsBoth
<1>12. Begun(getc_buf \o tty)' = s \o Bytes[q]
    <2>1. PICK y \in Seq(AByte) : y = Bytes[q]
        BY <1>2
    <2>2. (getc_buf \o tty) \o y = getc_buf \o (tty \o y)
        BY <1>3, ByteAssoc, ZenonT(60)
    <2>3. getc_buf \o tty \in Seq(AByte)
        BY <1>3
    <2>4. Begun((getc_buf \o tty) \o y) = Begun(getc_buf \o tty) \o y
        BY <2>3, BegunConcat
    <2>5. Begun(getc_buf \o tty)' = Begun(getc_buf' \o tty')
        BY <1>4 DEF Begun
    <2> QED
        BY <1>4, <1>7, <2>1, <2>2, <2>4, <2>5
<1>13. got' \o (k \o Known[q]) = Keys'
    <2>1. (got \o k) \o Known[q] = got \o (k \o Known[q])
        BY <1>2, <1>9, GotAssoc
    <2>2. got \o k = Keys
        BY <1>1 DEF Gets
    <2> QED
        BY <1>2, <1>4, <2>1, <2>2
<1>14. Len(getc_buf') + Len(tty') <= BytesTyped'
    <2>1. PICK y \in Seq(AByte) : y = Bytes[q]
        BY <1>2
    <2>2. Len(tty \o y) = Len(tty) + Len(y)
        BY <1>3
    <2>3. Len(getc_buf) + Len(tty) <= BytesTyped /\ BytesTyped \in Nat
        BY Typings DEF Reads
    <2>4. Len(tty) \in Nat /\ Len(getc_buf) \in Nat /\ Len(y) \in Nat
        BY <1>3
    <2> QED
        BY <1>2, <1>4, <2>1, <2>2, <2>3, <2>4
<1>15. PICK e : e = k \o Known[q]
    OBVIOUS
<1>16. Gets(e)'
    BY <1>5, <1>11, <1>12, <1>13, <1>15 DEF Gets
<1>17. /\ ~query'
       /\ calls' = 0 => \/ getc_buf' = <<>>
                        \/ Len(getc_buf') = 1 /\ doing' \in {"caller", "key"}
    BY <1>4 DEF Reads
<1> QED
    BY <1>14, <1>16, <1>17 DEF Reads

\* ... before the answer is taken, ...
LEMMA TypeAsks ==
    ASSUME CTypeOK, NEW q \in Key, Type(q), Asks
    PROVE  Asks'
<1>1. PICK w, v, k : AsksFor(w, v, k)
    BY DEF Asks
<1>2. /\ Keys' = Keys \o Known[q] /\ BytesTyped' = BytesTyped + Len(Bytes[q])
      /\ Range(typed') = Range(typed) \cup {q}
      /\ Bytes[q] \in Seq(AByte) /\ Known[q] \in Seq(Key)
    BY KeysGrow DEF Type
<1>3. BytesTyped \in Nat
    BY Typings
<1>4. tty' = tty \o Bytes[q]
      /\ UNCHANGED <<getc_buf, held, doing, query, calls, got>>
    BY DEF Type
<1>5. PICK T : T = Range(typed')
    OBVIOUS
<1>6. T \subseteq Key /\ Range(typed) \subseteq T /\ q \in T
    BY <1>2, <1>5, Typings
<1>7. Left(T, BytesTyped, getc_buf, held, w, v, k)
    BY <1>1, <1>6, LeftMore DEF AsksFor
<1>8. w \in Seq(AByte) /\ v \in Seq(AByte) /\ k \in Seq(Key)
    BY <1>6, <1>7, LeftTyped
<1>9. got' \o (k \o Known[q]) = Keys'
    <2>1. (got \o k) \o Known[q] = got \o (k \o Known[q])
        BY <1>2, <1>8, GotAssoc
    <2>2. got \o k = Keys
        BY <1>1 DEF AsksFor
    <2> QED
        BY <1>2, <1>4, <2>1, <2>2
<1>10. PICK e : e = k \o Known[q]
    OBVIOUS
<1>11. PICK y \in Seq(AByte) : y = Bytes[q]
    BY <1>2
<1>12. tty = w \o Rest(v)
    BY <1>1 DEF AsksFor
<1>13. CASE query
    <2>1. v = <<>> /\ tty = w
        BY <1>1, <1>8, <1>12, <1>13 DEF AsksFor, Rest
    <2>2. Left(T, BytesTyped + Len(y), getc_buf, held, w \o y, <<>>, e)
        BY <1>3, <1>6, <1>7, <1>10, <1>11, <2>1, LeftType
    <2>3. PICK u \in Seq(AByte) : u = w \o y
        BY <1>8, ByteConcat, ZenonT(60)
    <2>4. tty' = u \o <<>>
        BY <1>4, <1>11, <2>1, <2>3
    <2>5. PICK nil : nil = <<>>
        OBVIOUS
    <2>6. tty' = u \o Rest(nil)'
        BY <1>4, <1>13, <2>4 DEF Rest
    <2>7. Left(T, BytesTyped', getc_buf', held', u, nil, e)
        BY <1>2, <1>4, <1>11, <2>2, <2>3, <2>5
    <2>8. AsksFor(u, nil, e)'
        BY <1>5, <1>9, <1>10, <2>5, <2>6, <2>7 DEF AsksFor
    <2> QED
        BY <1>4, <2>8 DEF Asks
<1>14. CASE ~query
    <2>1. Left(T, BytesTyped + Len(y), getc_buf, held, w, v \o y, e)
        BY <1>3, <1>6, <1>7, <1>10, <1>11, LeftTypeBehind
    <2>2. PICK u : u = v \o y
        OBVIOUS
    <2>3. tty' = w \o (Position \o u)
        <3>1. PICK p : p = Position
            OBVIOUS
        <3>2. p \in Seq(AByte)
            BY <3>1, SentBytes DEF Position
        <3>3. (p \o v) \o y = p \o (v \o y)
            BY <1>8, <3>2, ByteAssoc, ZenonT(60)
        <3>4. PICK r \in Seq(AByte) : r = p \o v
            BY <1>8, <3>2, ByteConcat, ZenonT(60)
        <3>5. (w \o r) \o y = w \o (r \o y)
            BY <1>8, ByteAssoc, ZenonT(60)
        <3>6. tty = w \o r
            BY <1>12, <1>14, <3>1, <3>4 DEF Rest
        <3> QED
            BY <1>4, <1>11, <2>2, <3>1, <3>3, <3>4, <3>5, <3>6
    <2>4. tty' = w \o Rest(u)'
        BY <1>4, <1>14, <2>3 DEF Rest
    <2>5. Left(T, BytesTyped', getc_buf', held', w, u, e)
        BY <1>2, <1>4, <1>11, <2>1, <2>2
    <2>6. AsksFor(w, u, e)'
        BY <1>4, <1>5, <1>9, <1>10, <1>14, <2>4, <2>5 DEF AsksFor
    <2> QED
        BY <1>4, <2>6 DEF Asks
<1> QED
    BY <1>13, <1>14

\* ... and inside the answer.
LEMMA TypeParses ==
    ASSUME CTypeOK, NEW q \in Key, Type(q), Parses
    PROVE  Parses'
<1>1. PICK v, k : /\ Answered(v)
                  /\ Left(Range(typed), BytesTyped, getc_buf, <<>>, <<>>, v, k)
                  /\ got \o k = Keys
    BY DEF Parses
<1>2. /\ Keys' = Keys \o Known[q] /\ BytesTyped' = BytesTyped + Len(Bytes[q])
      /\ Range(typed') = Range(typed) \cup {q}
      /\ Bytes[q] \in Seq(AByte) /\ Known[q] \in Seq(Key)
    BY KeysGrow DEF Type
<1>3. BytesTyped \in Nat
    BY Typings
<1>4. tty' = tty \o Bytes[q]
      /\ UNCHANGED <<getc_buf, held, doing, query, calls, got>>
    BY DEF Type
<1>5. PICK T : T = Range(typed')
    OBVIOUS
<1>6. T \subseteq Key /\ Range(typed) \subseteq T /\ q \in T
    BY <1>2, <1>5, Typings
<1>7. Left(T, BytesTyped, getc_buf, <<>>, <<>>, v, k)
    BY <1>1, <1>6, LeftMore
<1>8. v \in Seq(AByte) /\ k \in Seq(Key)
    BY <1>6, <1>7, LeftTyped
<1>9. got' \o (k \o Known[q]) = Keys'
    <2>1. (got \o k) \o Known[q] = got \o (k \o Known[q])
        BY <1>2, <1>8, GotAssoc
    <2> QED
        BY <1>1, <1>2, <1>4, <2>1
<1>10. PICK e : e = k \o Known[q]
    OBVIOUS
<1>11. PICK y \in Seq(AByte) : y = Bytes[q]
    BY <1>2
<1>12. Left(T, BytesTyped + Len(y), getc_buf, <<>>, <<>>, v \o y, e)
    BY <1>3, <1>6, <1>7, <1>10, <1>11, LeftTypeBehind
<1>13. PICK u \in Seq(AByte) : u = v \o y
    BY <1>8, ByteConcat, ZenonT(60)
<1>14. Answered(u)'
    <2>1. ASSUME NEW x \in AByte, NEW r \in Seq(AByte)
          PROVE  Cons(x, r) \o y = Cons(x, r \o y) /\ Cons(x, r) \in Seq(AByte)
        BY ConsConcat, ByteCons, ZenonT(60)
    <2>2. "[" \in AByte /\ "p" \in AByte /\ "R" \in AByte
        BY SentBytes
    <2>3. PICK r \in Seq(AByte) : r = Cons("R", v)
        BY <1>8, <2>1, <2>2
    <2>4. r \o y = Cons("R", u)
        BY <1>8, <1>13, <2>1, <2>2, <2>3
    <2>5. PICK s \in Seq(AByte) : s = Cons("p", r)
        BY <2>1, <2>2
    <2>6. s \o y = Cons("p", Cons("R", u))
        <3>1. Cons("p", r) \o y = Cons("p", r \o y)
            BY <2>1, <2>2, ZenonT(60)
        <3> QED
            BY <2>4, <2>5, <3>1, ZenonT(60)
    <2>7. PICK t \in Seq(AByte) : t = Cons("[", s)
        BY <2>1, <2>2
    <2>8. Cons("[", s) \o y = Cons("[", s \o y)
        BY <2>1, <2>2
    <2>9. t \o y = Cons("[", Cons("p", Cons("R", u)))
        BY <2>6, <2>7, <2>8
    <2>10. \/ doing = "pos_esc" /\ held = <<"e">> /\ tty = t
           \/ doing = "pos_tbuf" /\ held = <<"e", "[">> /\ tty = s
           \/ doing = "pos_tbuf" /\ held = <<"e", "[", "p">> /\ tty = r
        BY <1>1, <2>3, <2>5, <2>7 DEF Answered
    <2> QED
        BY <1>4, <1>11, <2>4, <2>6, <2>9, <2>10 DEF Answered
<1>15. Left(T, BytesTyped', getc_buf', <<>>, <<>>, u, e)
    BY <1>2, <1>4, <1>11, <1>12, <1>13
<1> QED
    BY <1>4, <1>5, <1>9, <1>10, <1>14, <1>15 DEF Parses

\* The answer comes behind all that was typed before it.
LEMMA AnswerAsks ==
    ASSUME CTypeOK, Answer, Asks
    PROVE  Asks'
<1>1. PICK w, v, k : AsksFor(w, v, k)
    BY DEF Asks
<1>2. query /\ ~query' /\ tty' = tty \o Position
      /\ UNCHANGED <<getc_buf, held, doing, calls, typed, got>>
    BY DEF Answer
<1>3. w \in Seq(AByte)
    BY <1>1, Typings, LeftTyped DEF AsksFor
<1>4. v = <<>> /\ tty = w \o <<>>
    BY <1>1, <1>2 DEF AsksFor, Rest
<1>5. w \o <<>> = w
    BY <1>3
<1>6. Position \o <<>> = Position
    BY SentBytes DEF Position
<1>7. tty' = w \o Rest(v)'
    BY <1>2, <1>4, <1>5, <1>6 DEF Rest
<1>8. UNCHANGED <<Keys, BytesTyped>>
    BY <1>2 DEF Keys, BytesTyped
<1>9. AsksFor(w, v, k)'
    BY <1>1, <1>2, <1>7, <1>8 DEF AsksFor
<1> QED
    BY <1>2, <1>9 DEF Asks

\* console_getpos() starts with the whole stream before the answer.
LEMMA GetposAsks ==
    ASSUME CInv, Getpos, Reads
    PROVE  Asks'
<1>1. PICK k : Gets(k)
    BY DEF Reads
<1>2. query' = TRUE /\ doing = "caller" /\ doing' = "pos"
      /\ UNCHANGED <<tty, getc_buf, held, typed, got>>
    BY DEF Getpos
<1>3. CTypeOK /\ held = <<>>
    BY <1>2 DEF CInv, HeldSoFar
<1>4. tty \in Seq(AByte) /\ getc_buf \in Seq(AByte)
    BY <1>3 DEF CTypeOK
<1>5. Sends(Range(typed), getc_buf \o tty, k)
    BY <1>1, <1>2 DEF Gets, Begun
<1>6. Len(getc_buf) + Len(tty) <= BytesTyped
    BY DEF Reads
<1>7. Range(typed) \subseteq Key /\ BytesTyped \in Nat
    BY <1>3, Typings
<1>8. Left(Range(typed), BytesTyped, getc_buf, <<>>, tty, <<>>, k)
    BY <1>4, <1>5, <1>6, <1>7, AllLeft
<1>9. PICK nil : nil = <<>>
    OBVIOUS
<1>10. tty = tty \o <<>>
    BY <1>4
<1>11. tty' = tty \o Rest(nil)'
    BY <1>2, <1>10 DEF Rest
<1>12. UNCHANGED <<Keys, BytesTyped>>
    BY <1>2 DEF Keys, BytesTyped
<1>13. Left(Range(typed), BytesTyped, getc_buf, held, tty, nil, k)
    BY <1>3, <1>8, <1>9
<1>14. PICK w : w = tty
    OBVIOUS
<1>15. got \o k = Keys
    BY <1>1 DEF Gets
<1>16. AsksFor(w, nil, k)'
    BY <1>2, <1>9, <1>11, <1>12, <1>13, <1>14, <1>15 DEF AsksFor
<1> QED
    BY <1>2, <1>16 DEF Asks

-----------------------------------------------------------------------------
(***************************************************************************)
(* The invariant is kept by console_getchar().                             *)
(***************************************************************************)
\* What a step of console_getchar() has to show.
LEMMA ReadsOn ==
    ASSUME Reads, UNCHANGED <<query, calls, typed>>, NEW k,
           Sends(Range(typed), Begun(getc_buf \o tty)', k), got' \o k = Keys,
           Len(getc_buf') + Len(tty') <= BytesTyped,
           calls = 0 => \/ getc_buf' = <<>>
                        \/ Len(getc_buf') = 1 /\ doing' \in {"caller", "key"}
    PROVE  Reads'
<1>1. UNCHANGED <<Keys, BytesTyped>>
    BY DEF Keys, BytesTyped
<1>2. Gets(k)'
    BY <1>1 DEF Gets
<1> QED
    BY <1>1, <1>2 DEF Reads

\* Starting to read takes no byte.
LEMMA GetcharReads ==
    ASSUME Getchar, Reads
    PROVE  Reads'
<1>1. PICK k : Gets(k)
    BY DEF Reads
<1>2. doing = "caller" /\ doing' = "key"
      /\ UNCHANGED <<tty, getc_buf, held, query, calls, typed, got>>
    BY DEF Getchar
<1>3. Begun(getc_buf \o tty)' = Begun(getc_buf \o tty)
    BY <1>2 DEF Begun
<1>4. Sends(Range(typed), Begun(getc_buf \o tty)', k) /\ got' \o k = Keys
    BY <1>1, <1>2, <1>3 DEF Gets
<1>5. Len(getc_buf') + Len(tty') <= BytesTyped
    BY <1>2 DEF Reads
<1>6. calls = 0 => \/ getc_buf' = <<>>
                   \/ Len(getc_buf') = 1 /\ doing' \in {"caller", "key"}
    BY <1>2 DEF Reads
<1> QED
    BY <1>2, <1>4, <1>5, <1>6, ReadsOn

\* The next byte and those behind it.
LEMMA Stream ==
    ASSUME CTypeOK, NEW p, KeyReads(p)
    PROVE  /\ NextByte \in AByte /\ Behind \in Seq(AByte)
           /\ tty' \in Seq(AByte)
           /\ getc_buf \o tty = Cons(NextByte, Behind \o tty')
           /\ Len(Behind) + Len(tty') + 1 = Len(getc_buf) + Len(tty)
           /\ Len(getc_buf) <= 1 => Behind = <<>>
<1>1. tty \in Seq(AByte) /\ getc_buf \in Seq(AByte)
    BY DEF CTypeOK
<1>2. CASE getc_buf # <<>>
    <2>1. NextByte = Head(getc_buf) /\ Behind = Tail(getc_buf) /\ tty' = tty
        BY <1>2 DEF NextByte, Behind, KeyReads
    <2>2. /\ NextByte \in AByte /\ Behind \in Seq(AByte)
          /\ getc_buf = Cons(NextByte, Behind)
        BY <1>1, <1>2, <2>1, IsCons
    <2>3. Cons(NextByte, Behind) \o tty = Cons(NextByte, Behind \o tty)
        BY <1>1, <2>2, ConsConcat, ZenonT(60)
    <2>4. /\ Len(Tail(getc_buf)) = Len(getc_buf) - 1 /\ Len(getc_buf) \in Nat
          /\ Len(getc_buf) > 0 /\ Len(tty) \in Nat
          /\ Len(getc_buf) <= 1 => Tail(getc_buf) = <<>>
        BY <1>1, <1>2
    <2> QED
        BY <1>1, <2>1, <2>2, <2>3, <2>4
<1>3. CASE getc_buf = <<>>
    <2>1. /\ NextByte = Head(tty) /\ Behind = <<>> /\ tty' = Tail(tty)
          /\ tty # <<>>
        BY <1>3 DEF NextByte, Behind, KeyReads, HasByte
    <2>2. /\ NextByte \in AByte /\ tty' \in Seq(AByte)
          /\ tty = Cons(NextByte, tty')
        BY <1>1, <2>1, IsCons
    <2>3. getc_buf \o tty = tty /\ Behind \o tty' = tty'
        BY <1>1, <1>3, <2>1, <2>2
    <2>4. Len(Tail(tty)) = Len(tty) - 1 /\ Len(tty) \in Nat /\ Len(<<>>) = 0
        BY <1>1, <2>1
    <2>5. Behind \in Seq(AByte)
        BY <2>1
    <2> QED
        BY <1>3, <2>1, <2>2, <2>3, <2>4, <2>5
<1> QED
    BY <1>2, <1>3

\* The stream after it, and that nothing is left over without a question.
LEMMA StreamNext ==
    ASSUME CTypeOK, Reads, NEW p, KeyReads(p)
    PROVE  /\ \E x \in AByte : \E z \in Seq(AByte) :
                /\ x = NextByte /\ z = Behind \o tty'
                /\ getc_buf \o tty = Cons(x, z)
           /\ Len(Behind) + Len(tty') < BytesTyped
           /\ calls = 0 => Behind = <<>>
           /\ UNCHANGED <<held, query, calls, typed>> /\ doing = p
<1>1. /\ NextByte \in AByte /\ Behind \in Seq(AByte) /\ tty' \in Seq(AByte)
      /\ getc_buf \o tty = Cons(NextByte, Behind \o tty')
      /\ Len(Behind) + Len(tty') + 1 = Len(getc_buf) + Len(tty)
      /\ Len(getc_buf) <= 1 => Behind = <<>>
    BY Stream
<1>2. /\ Len(getc_buf) + Len(tty) <= BytesTyped /\ BytesTyped \in Nat
      /\ Len(Behind) \in Nat /\ Len(tty') \in Nat
      /\ getc_buf = <<>> => Len(getc_buf) = 0
    BY <1>1, Typings DEF Reads
<1>3. calls = 0 => Behind = <<>>
    BY <1>1, <1>2, SMTT(40) DEF Reads
<1>4. Behind \o tty' \in Seq(AByte)
    BY <1>1
<1>5. UNCHANGED <<held, query, calls, typed>> /\ doing = p
    BY DEF KeyReads
<1>6. Len(Behind) + Len(tty') < BytesTyped
    BY <1>1, <1>2
<1> QED
    BY <1>1, <1>3, <1>4, <1>5, <1>6

\* The key that is returned is the next one.
LEMMA GiveNext ==
    ASSUME CTypeOK, NEW x \in Key, NEW h \in Seq(Key), Give(x), NEW k,
           k = Cons(x, h), got \o k = Keys
    PROVE  got' \o h = Keys /\ doing' = "caller"
BY GotCons DEF Give

\* The first byte of a key keeps the stream, ...
LEMMA KeyByteReads ==
    ASSUME CTypeOK, Reads, KeyByte
    PROVE  Reads'
<1>1. KeyReads("key") /\ getc_buf' = Behind
    BY DEF KeyByte
<1>2. /\ \E x \in AByte : \E z \in Seq(AByte) :
            /\ x = NextByte /\ z = Behind \o tty'
            /\ getc_buf \o tty = Cons(x, z)
      /\ Len(Behind) + Len(tty') < BytesTyped
      /\ calls = 0 => Behind = <<>>
      /\ UNCHANGED <<held, query, calls, typed>> /\ doing = "key"
    BY <1>1, StreamNext
<1>3. PICK x \in AByte : \E z \in Seq(AByte) :
            /\ x = NextByte /\ z = Behind \o tty'
            /\ getc_buf \o tty = Cons(x, z)
    BY <1>2
<1>4. PICK z \in Seq(AByte) :
            /\ x = NextByte /\ z = Behind \o tty'
            /\ getc_buf \o tty = Cons(x, z)
    BY <1>3
<1>5. PICK k : Gets(k)
    BY DEF Reads
<1>6. Sends(Range(typed), Cons(x, z), k) /\ got \o k = Keys
    BY <1>2, <1>4, <1>5 DEF Gets, Begun
<1>7. /\ BytesTyped \in Nat /\ Range(typed) \subseteq Key
      /\ Len(getc_buf') + Len(tty') <= BytesTyped
    <2>1. BytesTyped \in Nat /\ Range(typed) \subseteq Key
        BY Typings
    <2>2. Len(Behind) \in Nat /\ Len(tty') \in Nat
        BY <1>1, Stream
    <2> QED
        BY <1>1, <1>2, <2>1, <2>2
<1>8. CASE x = "e"
    <2>1. doing' = "key_esc" /\ got' = got
        BY <1>4, <1>8 DEF KeyByte, Goto
    <2>2. Begun(getc_buf \o tty)' = Cons(x, z)
        BY <1>1, <1>4, <1>8, <2>1 DEF Begun
    <2> QED
        BY <1>1, <1>2, <1>6, <1>7, <2>1, <2>2, ReadsOn
<1>9. CASE x # "e"
    <2>1. x = "a" /\ \E h \in Seq(Key) :
                       k = Cons("a", h) /\ Sends(Range(typed), z, h)
        BY <1>6, <1>7, <1>9, FirstByte
    <2>2. PICK h \in Seq(Key) : k = Cons("a", h) /\ Sends(Range(typed), z, h)
        BY <2>1
    <2>3. Give("a") /\ "a" \in Key
        BY <1>4, <1>9, <2>1, TheKeys DEF KeyByte
    <2>4. got' \o h = Keys /\ doing' = "caller"
        BY <1>6, <2>2, <2>3, GiveNext
    <2>5. Begun(getc_buf \o tty)' = z
        BY <1>1, <1>4, <2>4 DEF Begun
    <2> QED
        BY <1>1, <1>2, <1>7, <2>2, <2>4, <2>5, ReadsOn
<1> QED
    BY <1>8, <1>9

\* ... and the byte after ESC, ...
LEMMA KeyEscapeReads ==
    ASSUME CTypeOK, Good, Reads, KeyEscape
    PROVE  Reads'
<1>1. KeyReads("key_esc")
    BY DEF KeyEscape
<1>2. /\ \E x \in AByte : \E z \in Seq(AByte) :
            /\ x = NextByte /\ z = Behind \o tty'
            /\ getc_buf \o tty = Cons(x, z)
      /\ Len(Behind) + Len(tty') < BytesTyped
      /\ calls = 0 => Behind = <<>>
      /\ UNCHANGED <<held, query, calls, typed>> /\ doing = "key_esc"
    BY <1>1, StreamNext
<1>3. PICK x \in AByte : \E z \in Seq(AByte) :
            /\ x = NextByte /\ z = Behind \o tty'
            /\ getc_buf \o tty = Cons(x, z)
    BY <1>2
<1>4. PICK z \in Seq(AByte) :
            /\ x = NextByte /\ z = Behind \o tty'
            /\ getc_buf \o tty = Cons(x, z)
    BY <1>3
<1>5. PICK k : Gets(k)
    BY DEF Reads
<1>6. Sends(Range(typed), Cons("e", Cons(x, z)), k) /\ got \o k = Keys
    BY <1>2, <1>4, <1>5 DEF Gets, Begun
<1>7. /\ BytesTyped \in Nat /\ Range(typed) \subseteq Key
      /\ Len(Behind) \in Nat /\ Len(tty') \in Nat /\ tty' \in Seq(AByte)
    <2>1. BytesTyped \in Nat /\ Range(typed) \subseteq Key
        BY Typings
    <2>2. Len(Behind) \in Nat /\ Len(tty') \in Nat /\ tty' \in Seq(AByte)
        BY <1>1, Stream
    <2> QED
        BY <2>1, <2>2
<1>8. CASE x = "["
    <2>1. doing' = "key_code" /\ got' = got /\ getc_buf' = Behind
        BY <1>4, <1>8 DEF KeyEscape, Goto
    <2>2. Begun(getc_buf \o tty)' = Cons("e", Cons(x, z))
        BY <1>4, <1>8, <2>1 DEF Begun, Escape
    <2>3. Len(getc_buf') + Len(tty') <= BytesTyped
        BY <1>2, <1>7, <2>1
    <2> QED
        BY <1>2, <1>6, <2>1, <2>2, <2>3, ReadsOn
<1>9. CASE x # "["
    <2>1. /\ "esc" \in Range(typed)
          /\ \E h \in Seq(Key) : k = Cons("esc", h)
                                   /\ Sends(Range(typed), Cons(x, z), h)
        BY <1>6, <1>7, <1>9, SecondByte
    <2>2. PICK h \in Seq(Key) : k = Cons("esc", h)
                                  /\ Sends(Range(typed), Cons(x, z), h)
        BY <2>1
    <2>3. Give("esc") /\ "esc" \in Key /\ getc_buf' = Append(Behind, x)
        BY <1>4, <1>9, TheKeys DEF KeyEscape
    <2>4. got' \o h = Keys /\ doing' = "caller"
        BY <1>6, <2>2, <2>3, GiveNext
    <2>5. calls = 0
        BY <2>1 DEF Good
    <2>6. Behind = <<>>
        BY <1>2, <2>5
    <2>7. getc_buf' = <<x>> /\ Len(getc_buf') = 1
        BY <2>3, <2>6
    <2>8. z = tty'
        BY <1>4, <1>7, <2>6
    <2>9. Begun(getc_buf \o tty)' = Cons(x, z)
        BY <2>4, <2>7, <2>8 DEF Begun, Cons
    <2>10. Len(getc_buf') + Len(tty') <= BytesTyped
        <3>1. Len(Behind) = 0
            BY <2>6
        <3> QED
            BY <1>2, <1>7, <2>7, <3>1
    <2> QED
        BY <1>2, <2>2, <2>4, <2>7, <2>9, <2>10, ReadsOn
<1> QED
    BY <1>8, <1>9

\* ... and the code of the key, ...
LEMMA KeyCodeReads ==
    ASSUME CTypeOK, Good, Reads, KeyCode
    PROVE  Reads'
<1> USE SentBytes
<1>1. KeyReads("key_code") /\ getc_buf' = Behind
    BY DEF KeyCode
<1>2. /\ \E x \in AByte : \E z \in Seq(AByte) :
            /\ x = NextByte /\ z = Behind \o tty'
            /\ getc_buf \o tty = Cons(x, z)
      /\ Len(Behind) + Len(tty') < BytesTyped
      /\ calls = 0 => Behind = <<>>
      /\ UNCHANGED <<held, query, calls, typed>> /\ doing = "key_code"
    BY <1>1, StreamNext
<1>3. PICK x \in AByte : \E z \in Seq(AByte) :
            /\ x = NextByte /\ z = Behind \o tty'
            /\ getc_buf \o tty = Cons(x, z)
    BY <1>2
<1>4. PICK z \in Seq(AByte) :
            /\ x = NextByte /\ z = Behind \o tty'
            /\ getc_buf \o tty = Cons(x, z)
    BY <1>3
<1>5. PICK k : Gets(k)
    BY DEF Reads
<1>6. PICK y \in Seq(AByte) : y = Cons(x, z)
    BY ByteCons
<1>7. Sends(Range(typed), Escape(y), k) /\ got \o k = Keys
    BY <1>2, <1>4, <1>5, <1>6 DEF Gets, Begun
<1>8. /\ BytesTyped \in Nat /\ Range(typed) \subseteq Key
      /\ Len(getc_buf') + Len(tty') <= BytesTyped
    <2>1. BytesTyped \in Nat /\ Range(typed) \subseteq Key
        BY Typings
    <2>2. Len(Behind) \in Nat /\ Len(tty') \in Nat
        BY <1>1, Stream
    <2> QED
        BY <1>1, <1>2, <2>1, <2>2
<1>9. ASSUME NEW v \in Seq(AByte), NEW c \in AByte, y = Cons(c, v)
      PROVE  x = c /\ z = v
    <2>1. Cons(x, z) = Cons(c, v)
        BY <1>9, <1>6
    <2> QED
        BY <2>1, SameCons
<1>10. CASE \E v \in Seq(AByte) : \E h \in Seq(Key) :
                 y = Cons("A", v) /\ k = Cons("up", h)
                   /\ Sends(Range(typed), v, h)
    <2>1. PICK v \in Seq(AByte) : \E h \in Seq(Key) :
                y = Cons("A", v) /\ k = Cons("up", h)
                  /\ Sends(Range(typed), v, h)
        BY <1>10
    <2>2. PICK h \in Seq(Key) :
                y = Cons("A", v) /\ k = Cons("up", h)
                  /\ Sends(Range(typed), v, h)
        BY <2>1
    <2>3. x = "A" /\ z = v
        BY <1>9, <2>2
    <2>4. Give("up") /\ "up" \in Key
        BY <1>4, <2>3, TheKeys DEF KeyCode
    <2>5. got' \o h = Keys /\ doing' = "caller"
        BY <1>7, <2>2, <2>4, GiveNext
    <2>6. Begun(getc_buf \o tty)' = v
        BY <1>1, <1>4, <2>3, <2>5 DEF Begun
    <2> QED
        BY <1>1, <1>2, <1>8, <2>2, <2>5, <2>6, ReadsOn
<1>11. CASE \E v \in Seq(AByte) : \E h \in Seq(Key) :
                /\ "home" \in Range(typed) /\ y = Cons("1", Cons("~", v))
                /\ k = Cons("home", h) /\ Sends(Range(typed), v, h)
    <2>1. PICK v \in Seq(AByte) : y = Cons("1", Cons("~", v))
        BY <1>11
    <2>2. PICK u \in Seq(AByte) : u = Cons("~", v)
        BY ByteCons
    <2>3. x = "1"
        BY <1>9, <2>1, <2>2
    <2>4. doing' = "key_last" /\ got' = got
        BY <1>4, <2>3 DEF KeyCode, Goto
    <2>5. Begun(getc_buf \o tty)' = Escape(y)
        BY <1>1, <1>4, <1>6, <2>3, <2>4 DEF Begun
    <2> QED
        BY <1>1, <1>2, <1>7, <1>8, <2>4, <2>5, ReadsOn
<1>12. CASE \E v \in Seq(AByte) : y = Cons("P", v) /\ Sends(Range(typed), v, k)
    <2>1. PICK v \in Seq(AByte) : y = Cons("P", v) /\ Sends(Range(typed), v, k)
        BY <1>12
    <2>2. x = "P" /\ z = v
        BY <1>9, <2>1
    <2>3. doing' = "key" /\ got' = got
        BY <1>4, <2>2 DEF KeyCode, Goto
    <2>4. Begun(getc_buf \o tty)' = v
        BY <1>1, <1>4, <2>2, <2>3 DEF Begun
    <2> QED
        BY <1>1, <1>2, <1>7, <1>8, <2>1, <2>3, <2>4, ReadsOn
<1> QED
    BY <1>7, <1>8, <1>10, <1>11, <1>12, CodeByte DEF Good

\* ... and the "~".
LEMMA KeyLastReads ==
    ASSUME CTypeOK, Good, Reads, KeyLast
    PROVE  Reads'
<1> USE SentBytes
<1>1. /\ doing = "key_last" /\ tty # <<>> /\ tty' = Tail(tty) /\ Give("home")
      /\ UNCHANGED <<getc_buf, held, query, calls, typed>>
    BY DEF KeyLast
<1>2. tty \in Seq(AByte) /\ getc_buf \in Seq(AByte)
    BY DEF CTypeOK
<1>3. PICK s \in Seq(AByte) : s = getc_buf \o tty
    BY <1>2, ByteConcat
<1>4. PICK y \in Seq(AByte) : y = Cons("1", s)
    BY ByteCons
<1>5. PICK k : Gets(k)
    BY DEF Reads
<1>6. Sends(Range(typed), Escape(y), k) /\ got \o k = Keys
    BY <1>1, <1>3, <1>4, <1>5 DEF Gets, Begun
<1>7. BytesTyped \in Nat /\ Range(typed) \subseteq Key
    BY Typings
<1>8. ASSUME NEW v \in Seq(AByte), NEW c \in AByte, y = Cons(c, v)
      PROVE  c = "1" /\ s = v
    <2>1. Cons("1", s) = Cons(c, v)
        BY <1>4, <1>8
    <2> QED
        BY <2>1, SameCons
<1>9. \E v \in Seq(AByte) : \E h \in Seq(Key) :
                /\ "home" \in Range(typed) /\ y = Cons("1", Cons("~", v))
                /\ k = Cons("home", h) /\ Sends(Range(typed), v, h)
    <2>1. ASSUME NEW v \in Seq(AByte)
          PROVE  y # Cons("A", v) /\ y # Cons("P", v)
        BY <1>8
    <2>2. \/ \E v \in Seq(AByte) : \E h \in Seq(Key) :
                y = Cons("A", v) /\ k = Cons("up", h)
                  /\ Sends(Range(typed), v, h)
          \/ \E v \in Seq(AByte) : \E h \in Seq(Key) :
                /\ "home" \in Range(typed) /\ y = Cons("1", Cons("~", v))
                /\ k = Cons("home", h) /\ Sends(Range(typed), v, h)
          \/ \E v \in Seq(AByte) :
                y = Cons("P", v) /\ Sends(Range(typed), v, k)
        BY <1>6, <1>7, CodeByte DEF Good
    <2> QED
        BY <2>1, <2>2
<1>10. PICK v \in Seq(AByte) : \E h \in Seq(Key) :
                /\ "home" \in Range(typed) /\ y = Cons("1", Cons("~", v))
                /\ k = Cons("home", h) /\ Sends(Range(typed), v, h)
    BY <1>9
<1>11. PICK h \in Seq(Key) :
                /\ "home" \in Range(typed) /\ y = Cons("1", Cons("~", v))
                /\ k = Cons("home", h) /\ Sends(Range(typed), v, h)
    BY <1>10
<1>12. s = Cons("~", v)
    <2>1. PICK u \in Seq(AByte) : u = Cons("~", v)
        BY ByteCons
    <2> QED
        BY <1>8, <1>11, <2>1
<1>13. calls = 0
    BY <1>11 DEF Good
<1>14. getc_buf = <<>>
    BY <1>1, <1>13 DEF Reads
<1>15. s = tty
    BY <1>2, <1>3, <1>14
<1>16. tty' = v
    <2>1. Tail(Cons("~", v)) = v
        BY ByteCons
    <2> QED
        BY <1>1, <1>12, <1>15, <2>1
<1>17. got' \o h = Keys /\ doing' = "caller"
    BY <1>1, <1>6, <1>11, TheKeys, GiveNext
<1>18. Begun(getc_buf \o tty)' = v
    <2>1. <<>> \o v = v
        OBVIOUS
    <2> QED
        BY <1>1, <1>14, <1>16, <1>17, <2>1 DEF Begun
<1>19. Len(getc_buf') + Len(tty') <= BytesTyped
    <2>1. Len(Tail(tty)) = Len(tty) - 1 /\ Len(tty) \in Nat
          /\ Len(getc_buf) \in Nat
        BY <1>1, <1>2
    <2>2. Len(getc_buf) + Len(tty) <= BytesTyped
        BY DEF Reads
    <2> QED
        BY <1>1, <1>7, <2>1, <2>2
<1> QED
    BY <1>1, <1>11, <1>14, <1>17, <1>18, <1>19, ReadsOn

-----------------------------------------------------------------------------
(***************************************************************************)
(* The invariant is kept by console_getpos().                              *)
(***************************************************************************)
\* What a step of console_getpos() before the answer has to show.
LEMMA AsksOn ==
    ASSUME UNCHANGED <<query, typed, got>>, NEW w, NEW v, NEW k,
           tty' = w \o Rest(v), query => v = <<>>,
           Left(Range(typed), BytesTyped, getc_buf', held', w, v, k),
           got \o k = Keys, doing' = "pos_esc" => held' = <<"e">>
    PROVE  Asks'
<1>1. UNCHANGED <<Keys, BytesTyped>>
    BY DEF Keys, BytesTyped
<1>2. Rest(v)' = Rest(v)
    BY DEF Rest
<1>3. AsksFor(w, v, k)'
    BY <1>1, <1>2 DEF AsksFor
<1> QED
    BY <1>3 DEF Asks

\* What is no answer goes to getc_buf, and all of it has a place.
LEMMA KeepAsks ==
    ASSUME CTypeOK, Good, calls > 0, UNCHANGED <<query, typed, got>>,
           NEW b, NEW w, NEW v, NEW k, NEW rest, Keep(b, rest),
           rest = w \o Rest(v), query => v = <<>>,
           Left(Range(typed), BytesTyped, getc_buf, b, w, v, k),
           got \o k = Keys
    PROVE  Asks'
<1>1. Range(typed) \subseteq Key /\ BytesTyped \in Nat /\ GetcSize \in Nat
    BY Typings, SizesAssumption
<1>2. /\ Left(Range(typed), BytesTyped, getc_buf \o b, <<>>, w, v, k)
      /\ Len(getc_buf \o b) <= BytesTyped
    BY <1>1, LeftKeep
<1>3. b \in Seq(AByte) /\ getc_buf \in Seq(AByte)
    BY <1>1, LeftTyped
<1>4. PICK u \in Seq(AByte) : u = getc_buf \o b
    BY <1>3, ByteConcat
<1>5. BytesTyped <= GetcSize
    BY OnlyPlain
<1>6. Len(u) <= GetcSize
    <2>1. Len(u) \in Nat /\ Len(u) <= BytesTyped
        BY <1>2, <1>4
    <2> QED
        BY <1>1, <1>5, <2>1
<1>7. Pushed(b) = u
    BY <1>4, <1>6 DEF Pushed
<1>8. getc_buf' = u /\ held' = <<>> /\ tty' = rest /\ doing' = "pos"
    BY <1>7 DEF Keep
<1>9. Left(Range(typed), BytesTyped, getc_buf', held', w, v, k)
    BY <1>2, <1>4, <1>8
<1> QED
    BY <1>8, <1>9, AsksOn

\* The next byte is of a key, or it is the first one of the answer.
LEMMA NextIs ==
    ASSUME CTypeOK, NEW w, NEW v, NEW k, AsksFor(w, v, k), tty # <<>>
    PROVE  \/ \E x \in AByte : \E z \in Seq(AByte) :
                w = Cons(x, z) /\ Head(tty) = x /\ Tail(tty) = z \o Rest(v)
           \/ /\ w = <<>> /\ ~query /\ Head(tty) = "e"
              /\ Tail(tty) = Cons("[", Cons("p", Cons("R", v)))
<1> USE SentBytes
<1>1. w \in Seq(AByte) /\ v \in Seq(AByte)
    BY Typings, LeftTyped DEF AsksFor
<1>2. tty = w \o Rest(v)
    BY DEF AsksFor
<1>3. Position \o v = Cons("e", Cons("[", Cons("p", Cons("R", v))))
    BY <1>1, PositionIs
<1>4. PICK r \in Seq(AByte) : r = Cons("[", Cons("p", Cons("R", v)))
    BY <1>1, ByteCons
<1>5. PICK q \in Seq(AByte) : q = Rest(v)
    <2>1. Cons("e", r) \in Seq(AByte) /\ <<>> \in Seq(AByte)
        BY ByteCons
    <2>2. Rest(v) \in Seq(AByte)
        BY <1>3, <1>4, <2>1 DEF Rest
    <2> QED
        BY <2>2
<1>6. CASE w = <<>>
    <2>1. tty = q
        BY <1>2, <1>5, <1>6
    <2>2. ~query /\ tty = Cons("e", r)
        BY <1>3, <1>4, <1>5, <2>1 DEF Rest
    <2>3. Head(Cons("e", r)) = "e" /\ Tail(Cons("e", r)) = r
        BY ByteCons
    <2> QED
        BY <1>4, <1>6, <2>2, <2>3
<1>7. CASE w # <<>>
    <2>1. Head(w) \in AByte /\ Tail(w) \in Seq(AByte)
          /\ w = Cons(Head(w), Tail(w))
        BY <1>1, <1>7, IsCons
    <2>2. PICK x \in AByte : x = Head(w)
        BY <2>1
    <2>3. PICK z \in Seq(AByte) : z = Tail(w)
        BY <2>1
    <2>4. Cons(x, z) \o q = Cons(x, z \o q)
        BY ConsConcat, ZenonT(60)
    <2>5. PICK u \in Seq(AByte) : u = z \o q
        BY ByteConcat
    <2>6. Head(Cons(x, u)) = x /\ Tail(Cons(x, u)) = u
        BY ByteCons
    <2>7. tty = Cons(x, u)
        BY <1>2, <1>5, <2>1, <2>2, <2>3, <2>4, <2>5
    <2>8. w = Cons(x, z) /\ Head(tty) = x /\ Tail(tty) = z \o Rest(v)
        BY <1>5, <2>1, <2>2, <2>3, <2>5, <2>6, <2>7
    <2> QED
        BY <2>8
<1> QED
    BY <1>6, <1>7

\* A byte of a key is held, or kept with what has been held.
LEMMA ByteAsks ==
    ASSUME CTypeOK, Good, calls > 0, UNCHANGED <<query, typed, got>>,
           NEW w, NEW v, NEW k, AsksFor(w, v, k),
           NEW x \in AByte, NEW z \in Seq(AByte), w = Cons(x, z),
           Head(tty) = x, Tail(tty) = z \o Rest(v)
    PROVE  /\ Keep(Append(held, x), Tail(tty)) => Asks'
           /\ \A p : Hold(p) /\ (p = "pos_esc" => Append(held, x) = <<"e">>)
                       => Asks'
           /\ Len(held) >= 2 => Append(held, x)[3] # "p"
<1>1. Range(typed) \subseteq Key /\ BytesTyped \in Nat
    BY Typings
<1>2. /\ Left(Range(typed), BytesTyped, getc_buf, held, Cons(x, z), v, k)
      /\ query => v = <<>>
      /\ got \o k = Keys
    BY DEF AsksFor
<1>3. PICK h : h = Append(held, x)
    OBVIOUS
<1>4. Left(Range(typed), BytesTyped, getc_buf, h, z, v, k)
    BY <1>1, <1>2, <1>3, LeftHold
<1>5. ASSUME Keep(h, Tail(tty)) PROVE Asks'
    BY <1>2, <1>4, <1>5, KeepAsks
<1>6. ASSUME NEW p, Hold(p), p = "pos_esc" => h = <<"e">>
      PROVE  Asks'
    <2>1. /\ held' = h /\ tty' = z \o Rest(v)
          /\ doing' = p /\ getc_buf' = getc_buf
        BY <1>3, <1>6 DEF Hold
    <2> QED
        BY <1>2, <1>4, <1>6, <2>1, AsksOn
<1>7. ASSUME Len(held) >= 2 PROVE h[3] # "p"
    <2>1. \A i \in 1 .. Len(h) : h[i] # "p"
        BY <1>1, <1>4, LeftSent
    <2>2. Len(h) = Len(held) + 1 /\ Len(held) \in Nat
        BY <1>3 DEF CTypeOK
    <2> QED
        BY <1>7, <2>1, <2>2
<1> QED
    BY <1>3, <1>5, <1>6, <1>7

\* A byte behind one or two bytes.
LEMMA AppendTwo ==
    ASSUME NEW a \in AByte, NEW b \in AByte
    PROVE  Append(<<a>>, b) = <<a, b>>
<1> DEFINE u == Append(<<a>>, b)
           v == <<a, b>>
<1>1. v \in Seq(AByte) /\ Len(v) = 2 /\ v[1] = a /\ v[2] = b
    OBVIOUS
<1>2. u \in Seq(AByte) /\ Len(u) = 2 /\ u[1] = a /\ u[2] = b
    OBVIOUS
<1> HIDE DEF u, v
<1>3. \A i \in 1 .. 2 : u[i] = v[i]
    BY <1>1, <1>2
<1>4. u = v
    BY <1>1, <1>2, <1>3, SeqEqual
<1> QED
    BY <1>4 DEF u, v

LEMMA AppendThree ==
    ASSUME NEW a \in AByte, NEW b \in AByte, NEW c \in AByte
    PROVE  Append(<<a, b>>, c) = <<a, b, c>>
<1> DEFINE u == Append(<<a, b>>, c)
           v == <<a, b, c>>
<1>1. v \in Seq(AByte) /\ Len(v) = 3 /\ v[1] = a /\ v[2] = b /\ v[3] = c
    OBVIOUS
<1>2. u \in Seq(AByte) /\ Len(u) = 3 /\ u[1] = a /\ u[2] = b /\ u[3] = c
    OBVIOUS
<1> HIDE DEF u, v
<1>3. \A i \in 1 .. 3 : u[i] = v[i]
    BY <1>1, <1>2
<1>4. u = v
    BY <1>1, <1>2, <1>3, SeqEqual
<1> QED
    BY <1>4 DEF u, v

\* What every byte that console_getpos() reads leaves alone.
LEMMA PosReadsIs ==
    ASSUME NEW p, PosReads(p)
    PROVE  doing = p /\ tty # <<>> /\ UNCHANGED <<query, calls, typed, got>>
BY DEF PosReads

\* The step of console_getpos() before the answer has begun.
LEMMA AskedKept ==
    ASSUME CInv, Good, calls > 0, Asks, GetposStep
    PROVE  Asks' \/ Parses'
<1>1. CTypeOK /\ HeldSoFar
    BY DEF CInv
<1>2. tty # <<>> /\ UNCHANGED <<query, calls, typed, got>>
    BY PosReadsIs
    DEF GetposStep, PosByte, PosBracket, PosNextEscape, PosTbuf, PosParse
<1>3. PICK w, v, k : AsksFor(w, v, k)
    BY DEF Asks
<1>4. /\ Left(Range(typed), BytesTyped, getc_buf, held, w, v, k)
      /\ tty = w \o Rest(v)
      /\ query => v = <<>>
      /\ got \o k = Keys
    BY <1>3 DEF AsksFor
<1>5. CASE PosNextEscape
    <2>1. Keep(held, tty)
        BY <1>5 DEF PosNextEscape
    <2> QED
        <3>1. PICK rest : rest = tty
            OBVIOUS
        <3>2. PICK b : b = held
            OBVIOUS
        <3>3. Keep(b, rest)
            BY <2>1, <3>1, <3>2 DEF Keep, Pushed
        <3>4. rest = w \o Rest(v)
            BY <1>4, <3>1
        <3>5. Left(Range(typed), BytesTyped, getc_buf, b, w, v, k)
            BY <1>4, <3>2
        <3>6. Asks'
            BY <1>1, <1>2, <1>4, <3>3, <3>4, <3>5, KeepAsks
        <3> QED
            BY <3>6
<1>6. CASE \E x \in AByte : \E z \in Seq(AByte) :
             w = Cons(x, z) /\ Head(tty) = x /\ Tail(tty) = z \o Rest(v)
    <2>1. PICK x \in AByte : \E z \in Seq(AByte) :
             w = Cons(x, z) /\ Head(tty) = x /\ Tail(tty) = z \o Rest(v)
        BY <1>6
    <2>2. PICK z \in Seq(AByte) :
             w = Cons(x, z) /\ Head(tty) = x /\ Tail(tty) = z \o Rest(v)
        BY <2>1
    <2>3. /\ Keep(Append(held, x), Tail(tty)) => Asks'
          /\ \A p : Hold(p) /\ (p = "pos_esc" => Append(held, x) = <<"e">>)
                      => Asks'
          /\ Len(held) >= 2 => Append(held, x)[3] # "p"
        BY <1>1, <1>2, <1>3, <2>2, ByteAsks
    <2>4. CASE PosByte
        <3>1. doing = "pos"
            BY <2>4, PosReadsIs DEF PosByte
        <3>2. held = <<>>
            BY <1>1, <3>1 DEF HeldSoFar
        <3>3. Append(held, x) = <<x>>
            BY <3>2
        <3>4. CASE x = "e"
            <4>1. Hold("pos_esc")
                BY <2>2, <2>4, <3>4 DEF PosByte
            <4> QED
                BY <2>3, <3>3, <3>4, <4>1
        <3>5. CASE x # "e"
            <4>1. Keep(<<x>>, Tail(tty))
                BY <2>2, <2>4, <3>5 DEF PosByte
            <4> QED
                BY <2>3, <3>3, <4>1
        <3> QED
            BY <3>4, <3>5
    <2>5. CASE PosBracket
        <3>1. doing = "pos_esc"
            BY <2>5, PosReadsIs DEF PosBracket
        <3>2. held = <<"e">>
            BY <3>1 DEF Asks
        <3>3. Append(held, x) = <<"e", x>>
            BY <3>2, SentBytes, AppendTwo
        <3>4. CASE x = "["
            <4>1. Hold("pos_tbuf")
                BY <2>2, <2>5, <3>4 DEF PosBracket
            <4> QED
                BY <2>3, <4>1
        <3>5. CASE x # "["
            <4>1. Keep(<<"e", x>>, Tail(tty))
                BY <2>2, <2>5, <3>5 DEF PosBracket
            <4> QED
                BY <2>3, <3>3, <4>1
        <3> QED
            BY <3>4, <3>5
    <2>6. CASE PosTbuf
        <3>1. Hold("pos_tbuf")
            BY <2>6 DEF PosTbuf
        <3> QED
            BY <2>3, <3>1
    <2>7. CASE PosParse
        <3>1. doing = "pos_tbuf"
            BY <2>7, PosReadsIs DEF PosParse
        <3>2. Len(held) \in 2 .. TbufSize + 1
            BY <1>1, <3>1 DEF HeldSoFar
        <3>3. Len(held) >= 2
            BY <3>2
        <3>4. Append(held, Head(tty))[3] # "p"
            BY <2>2, <2>3, <3>3
        <3>5. Keep(Append(held, Head(tty)), Tail(tty))
            BY <2>7, <3>4 DEF PosParse
        <3> QED
            BY <2>2, <2>3, <3>5
    <2> QED
        BY <1>5, <2>4, <2>5, <2>6, <2>7 DEF GetposStep
<1>7. CASE /\ w = <<>> /\ ~query /\ Head(tty) = "e"
           /\ Tail(tty) = Cons("[", Cons("p", Cons("R", v)))
    <2>1. CASE PosByte
        <3>1. doing = "pos"
            BY <2>1, PosReadsIs DEF PosByte
        <3>2. held = <<>>
            BY <1>1, <3>1 DEF HeldSoFar
        <3>3. Hold("pos_esc")
            BY <1>7, <2>1 DEF PosByte
        <3>4. held' = Append(<<>>, "e") /\ tty' = Tail(tty)
              /\ doing' = "pos_esc" /\ UNCHANGED getc_buf
            BY <1>7, <3>2, <3>3 DEF Hold
        <3>5. Append(<<>>, "e") = <<"e">>
            OBVIOUS
        <3>6. Answered(v)'
            BY <1>7, <3>4, <3>5 DEF Answered
        <3>7. Left(Range(typed), BytesTyped, getc_buf, <<>>, <<>>, v, k)
            BY <1>4, <1>7, <3>2
        <3>8. UNCHANGED <<Keys, BytesTyped>>
            BY <1>2 DEF Keys, BytesTyped
        <3> QED
            BY <1>2, <1>4, <1>7, <3>4, <3>6, <3>7, <3>8 DEF Parses
    <2>2. CASE PosBracket
        <3>1. doing = "pos_esc"
            BY <2>2, PosReadsIs DEF PosBracket
        <3>2. held = <<"e">>
            BY <3>1 DEF Asks
        <3>3. Range(typed) \subseteq Plain
            BY <1>1, OnlyPlain
        <3>4. PICK h : h = <<"e">>
            OBVIOUS
        <3>5. Left(Range(typed), BytesTyped, getc_buf, h, <<>>, v, k)
            BY <1>4, <1>7, <3>2, <3>4
        <3>6. Left(Plain, BytesTyped, getc_buf, h, <<>>, v, k)
            BY <3>3, <3>5, LeftMore
        <3>7. h # <<>> /\ h[Len(h)] = "e"
            BY <3>4
        <3>8. h[Len(h)] \notin {"e", "["}
            BY <3>6, <3>7, LeftWhole
        <3> QED
            BY <3>7, <3>8
    <2>3. ~PosTbuf /\ ~PosParse
        BY <1>7 DEF PosTbuf, PosParse
    <2> QED
        BY <1>5, <2>1, <2>2, <2>3 DEF GetposStep
<1> QED
    BY <1>1, <1>2, <1>3, <1>6, <1>7, NextIs, SMTT(40)

\* No bytes of keys are taken for an answer.
LEMMA AskedParse ==
    ASSUME CInv, Good, calls > 0, Asks, PosParse
    PROVE  Append(held, Head(tty))[3] # "p"
<1>1. CTypeOK /\ HeldSoFar
    BY DEF CInv
<1>2. /\ tty # <<>> /\ UNCHANGED <<query, calls, typed, got>>
      /\ doing = "pos_tbuf" /\ Head(tty) # "e"
    BY PosReadsIs DEF PosParse
<1>3. PICK w, v, k : AsksFor(w, v, k)
    BY DEF Asks
<1>4. \E x \in AByte : \E z \in Seq(AByte) :
        w = Cons(x, z) /\ Head(tty) = x /\ Tail(tty) = z \o Rest(v)
    BY <1>1, <1>2, <1>3, NextIs
<1>5. PICK x \in AByte : \E z \in Seq(AByte) :
        w = Cons(x, z) /\ Head(tty) = x /\ Tail(tty) = z \o Rest(v)
    BY <1>4
<1>6. PICK z \in Seq(AByte) :
        w = Cons(x, z) /\ Head(tty) = x /\ Tail(tty) = z \o Rest(v)
    BY <1>5
<1>7. Len(held) \in 2 .. TbufSize + 1
    BY <1>1, <1>2 DEF HeldSoFar
<1>8. Len(held) >= 2
    BY <1>7
<1>9. Append(held, x)[3] # "p"
    BY <1>1, <1>2, <1>3, <1>6, <1>8, ByteAsks
<1> QED
    BY <1>6, <1>9

\* The answer is read to its end, and nothing else of the stream.
LEMMA AnsweredKept ==
    ASSUME CInv, Good, calls > 0, Parses, GetposStep
    PROVE  \/ Parses' /\ InGetpos'
           \/ Reads' /\ ~InGetpos'
<1> USE SentBytes
<1>1. CTypeOK /\ HeldSoFar
    BY DEF CInv
<1>2. tty # <<>> /\ UNCHANGED <<query, calls, typed, got>>
    BY PosReadsIs
    DEF GetposStep, PosByte, PosBracket, PosNextEscape, PosTbuf, PosParse
<1>3. PICK v, k : /\ Answered(v)
                  /\ Left(Range(typed), BytesTyped, getc_buf, <<>>, <<>>, v, k)
                  /\ got \o k = Keys
    BY DEF Parses
<1>4. v \in Seq(AByte) /\ Range(typed) \subseteq Key /\ BytesTyped \in Nat
    BY <1>1, <1>3, Typings, LeftTyped
<1>5. PICK r \in Seq(AByte) : r = Cons("R", v)
    BY <1>4, ByteCons
<1>6. PICK s \in Seq(AByte) : s = Cons("p", r)
    BY ByteCons
<1>7. PICK t \in Seq(AByte) : t = Cons("[", s)
    BY ByteCons
<1>8. /\ Head(r) = "R" /\ Tail(r) = v /\ Head(s) = "p" /\ Tail(s) = r
      /\ Head(t) = "[" /\ Tail(t) = s
    BY <1>4, <1>5, <1>6, <1>7, ByteCons
<1>9. UNCHANGED <<Keys, BytesTyped>>
    BY <1>2 DEF Keys, BytesTyped
<1>10. ASSUME UNCHANGED getc_buf, Answered(v)'
      PROVE  Parses'
    BY <1>2, <1>3, <1>9, <1>10 DEF Parses
<1>11. CASE doing = "pos_esc" /\ held = <<"e">> /\ tty = t
    <2>1. PosBracket
        BY <1>11, PosReadsIs
        DEF GetposStep, PosByte, PosNextEscape, PosTbuf, PosParse
    <2>2. Hold("pos_tbuf")
        BY <1>8, <1>11, <2>1 DEF PosBracket
    <2>3. /\ held' = Append(<<"e">>, "[") /\ tty' = s /\ doing' = "pos_tbuf"
          /\ UNCHANGED getc_buf
        BY <1>8, <1>11, <2>2 DEF Hold
    <2>4. Append(<<"e">>, "[") = <<"e", "[">>
        BY AppendTwo
    <2>5. Answered(v)'
        BY <1>5, <1>6, <2>3, <2>4 DEF Answered
    <2> QED
        BY <1>10, <2>3, <2>5 DEF InGetpos
<1>12. CASE doing = "pos_tbuf" /\ held = <<"e", "[">> /\ tty = s
    <2>1. Len(held) = 2 /\ Head(tty) = "p"
        BY <1>8, <1>12
    <2>2. ~TbufEnds
        BY <2>1, SizesAssumption DEF TbufEnds
    <2>3. PosTbuf
        BY <1>12, <2>1, <2>2, PosReadsIs
        DEF GetposStep, PosByte, PosBracket, PosNextEscape, PosParse
    <2>4. Hold("pos_tbuf")
        BY <2>3 DEF PosTbuf
    <2>5. /\ held' = Append(<<"e", "[">>, "p") /\ tty' = r
          /\ doing' = "pos_tbuf" /\ UNCHANGED getc_buf
        BY <1>8, <1>12, <2>4 DEF Hold
    <2>6. Append(<<"e", "[">>, "p") = <<"e", "[", "p">>
        BY AppendThree
    <2>7. Answered(v)'
        BY <1>5, <2>5, <2>6 DEF Answered
    <2> QED
        BY <1>10, <2>5, <2>7 DEF InGetpos
<1>13. CASE doing = "pos_tbuf" /\ held = <<"e", "[", "p">> /\ tty = r
    <2>1. TbufEnds /\ Head(tty) = "R"
        BY <1>8, <1>13 DEF TbufEnds
    <2>2. PosParse
        BY <1>13, <2>1, PosReadsIs
        DEF GetposStep, PosByte, PosBracket, PosNextEscape, PosTbuf
    <2>3. Append(held, Head(tty))[3] = "p"
        BY <1>13, <2>1
    <2>4. doing' = "caller" /\ tty' = v /\ UNCHANGED getc_buf
        BY <1>8, <1>13, <2>2, <2>3 DEF PosParse
    <2>5. Sends(Range(typed), getc_buf \o v, k)
          /\ Len(getc_buf) + Len(v) <= BytesTyped
        BY <1>3, <1>4, LeftAll
    <2>6. Begun(getc_buf \o tty)' = getc_buf \o v
        BY <2>4 DEF Begun
    <2>7. Gets(k)'
        BY <1>2, <1>3, <1>9, <2>5, <2>6 DEF Gets
    <2>8. ~query' /\ calls' # 0
        BY <1>1, <1>2 DEF Parses, CTypeOK
    <2> QED
        BY <1>9, <2>4, <2>5, <2>7, <2>8 DEF Reads, InGetpos
<1> QED
    BY <1>3, <1>5, <1>6, <1>7, <1>11, <1>12, <1>13 DEF Answered

\* If the typing is good after a step, it was before.
LEMMA GoodBefore ==
    ASSUME CTypeOK, CNext, Good'
    PROVE  Good
<1>1. CASE \E q \in Key : Type(q)
    BY <1>1, TypeGood
<1>2. CASE Getpos
    <2>1. calls' = calls + 1 /\ UNCHANGED typed
        BY <1>2 DEF Getpos
    <2>2. BytesTyped' = BytesTyped /\ calls' # 0
        BY <2>1 DEF BytesTyped, CTypeOK
    <2> QED
        BY <2>1, <2>2 DEF Good
<1>3. CASE Answer \/ Getchar \/ Process
    <2>1. UNCHANGED <<calls, typed>>
        BY <1>3
        DEF Answer, Getchar, Process, GetposStep, GetcharStep, PosByte,
            PosBracket, PosNextEscape, PosTbuf, PosParse, PosReads, KeyByte,
            KeyEscape, KeyCode, KeyLast, KeyReads
    <2>2. BytesTyped' = BytesTyped
        BY <2>1 DEF BytesTyped
    <2> QED
        BY <2>1, <2>2 DEF Good
<1> QED
    BY <1>1, <1>2, <1>3 DEF CNext, Call

\* Every step keeps the invariant.
LEMMA KeysInvKept ==
    ASSUME CInv, KeysInv, [CNext]_cvars
    PROVE  KeysInv'
<1>1. CTypeOK
    BY DEF CInv
<1>2. CASE UNCHANGED cvars
    <2>1. UNCHANGED <<tty, getc_buf, held, doing, query, calls, typed, got>>
        BY <1>2 DEF cvars
    <2>2. UNCHANGED <<Keys, BytesTyped>>
        BY <2>1 DEF Keys, BytesTyped
    <2>3. \A w : Begun(w)' = Begun(w) /\ Rest(w)' = Rest(w)
        BY <2>1 DEF Begun, Rest
    <2>4. Begun(getc_buf \o tty)' = Begun(getc_buf \o tty)
        BY <2>1 DEF Begun
    <2>5. Good' => Good
        BY <2>1, <2>2 DEF Good
    <2>6. Reads => Reads'
        BY <2>1, <2>2, <2>4 DEF Reads, Gets
    <2>7. Asks => Asks'
        BY <2>1, <2>2, <2>3 DEF Asks, AsksFor
    <2>8. Parses => Parses'
        BY <2>1, <2>2 DEF Parses, Answered
    <2>9. InGetpos' = InGetpos
        BY <2>1 DEF InGetpos
    <2> QED
        BY <2>1, <2>5, <2>6, <2>7, <2>8, <2>9 DEF KeysInv
<1>3. ASSUME CNext, Good'
      PROVE  IF InGetpos' THEN calls' > 0 /\ (Asks' \/ Parses') ELSE Reads'
    <2>1. Good
        BY <1>1, <1>3, GoodBefore
    <2>2. InGetpos => calls > 0 /\ (Asks \/ Parses)
        BY <2>1 DEF KeysInv
    <2>3. ~InGetpos => Reads
        BY <2>1 DEF KeysInv
    <2>4. ASSUME NEW q \in Key, Type(q)
          PROVE  IF InGetpos' THEN calls' > 0 /\ (Asks' \/ Parses') ELSE Reads'
        <3>1. UNCHANGED <<doing, calls>> /\ InGetpos' = InGetpos
            BY <2>4 DEF Type, InGetpos
        <3> QED
            BY <1>1, <2>2, <2>3, <2>4, <3>1, TypeReads, TypeAsks, TypeParses
    <2>5. CASE Answer
        <3>1. UNCHANGED <<doing, calls>> /\ InGetpos' = InGetpos /\ query
            BY <2>5 DEF Answer, InGetpos
        <3>2. ~Reads /\ ~Parses
            BY <3>1 DEF Reads, Parses
        <3> QED
            BY <1>1, <2>2, <2>3, <2>5, <3>1, <3>2, AnswerAsks
    <2>6. CASE Getpos
        <3>1. ~InGetpos /\ InGetpos' /\ calls' = calls + 1 /\ calls \in Nat
            BY <1>1, <2>6 DEF Getpos, InGetpos, CTypeOK
        <3>2. calls' > 0
            BY <3>1
        <3> QED
            BY <2>3, <2>6, <3>1, <3>2, GetposAsks
    <2>7. CASE Getchar
        <3>1. ~InGetpos /\ ~InGetpos'
            BY <2>7 DEF Getchar, InGetpos
        <3> QED
            BY <2>3, <2>7, <3>1, GetcharReads
    <2>8. CASE GetcharStep
        <3>1. ~InGetpos
            BY <2>8
            DEF GetcharStep, KeyByte, KeyEscape, KeyCode, KeyLast, KeyReads,
                InGetpos
        <3>2. ~InGetpos'
            BY <2>8
            DEF GetcharStep, KeyByte, KeyEscape, KeyCode, KeyLast, Give, Goto,
                InGetpos
        <3>3. Reads'
            BY <1>1, <2>1, <2>3, <2>8, <3>1, KeyByteReads, KeyEscapeReads,
                KeyCodeReads, KeyLastReads DEF GetcharStep
        <3> QED
            BY <3>2, <3>3
    <2>9. CASE GetposStep
        <3>1. InGetpos /\ calls' = calls
            BY <2>9
            DEF GetposStep, PosByte, PosBracket, PosNextEscape, PosTbuf,
                PosParse, PosReads, InGetpos
        <3>2. CASE Parses
            BY <2>1, <2>2, <2>9, <3>1, <3>2, AnsweredKept
        <3>3. CASE Asks
            <4>1. Asks' \/ Parses'
                BY <2>1, <2>2, <2>9, <3>1, <3>3, AskedKept
            <4>2. CASE InGetpos'
                BY <2>2, <3>1, <4>1, <4>2
            <4>3. CASE ~InGetpos'
                <5>1. PosParse /\ Append(held, Head(tty))[3] = "p"
                    BY <2>9, <4>3
                    DEF GetposStep, PosByte, PosBracket, PosNextEscape,
                        PosTbuf, PosParse, Hold, Keep, InGetpos
                <5>2. FALSE
                    BY <1>1, <2>1, <2>2, <3>1, <3>3, <5>1, AskedParse
                <5> QED
                    BY <5>2
            <4> QED
                BY <4>2, <4>3
        <3> QED
            BY <2>2, <3>1, <3>2, <3>3
    <2> QED
        BY <1>3, <2>4, <2>5, <2>6, <2>7, <2>8, <2>9 DEF CNext, Call, Process
<1> QED
    BY <1>2, <1>3 DEF KeysInv

\* Under the invariant what the caller has begins what was typed.
LEMMA KeysInvGives ==
    ASSUME CTypeOK, KeysInv
    PROVE  KeysInOrder
<1> SUFFICES ASSUME Good
             PROVE  /\ IsPrefix(got, Keys)
                    /\ (doing = "key" /\ ~HasByte) => got = Keys
    BY DEF KeysInOrder, Good
<1>1. Keys \in Seq(Key) /\ Range(typed) \subseteq Key
    BY Typings
<1>2. got \in Seq(Key \cup AByte)
    BY DEF CTypeOK
<1>3. ASSUME NEW k \in Seq(Key), got \o k = Keys
      PROVE  IsPrefix(got, Keys)
    <2>1. PICK h : h = Keys
        OBVIOUS
    <2>2. h = got \o k /\ k \in Seq(Key \cup AByte)
        BY <1>3, <2>1, SeqMonotonic
    <2>3. /\ Len(got) <= Len(h)
          /\ SubSeq(got, 1, Len(got)) = SubSeq(h, 1, Len(got))
        BY <1>2, <2>2
    <2> QED
        BY <2>1, <2>3 DEF IsPrefix
<1>4. CASE InGetpos
    <2>1. PICK k \in Seq(Key) : got \o k = Keys
        <3>1. CASE Asks
            <4>1. PICK w, v, k : AsksFor(w, v, k)
                BY <3>1 DEF Asks
            <4>2. k \in Seq(Key) /\ got \o k = Keys
                BY <1>1, <4>1, LeftTyped DEF AsksFor
            <4> QED
                BY <4>2
        <3>2. CASE Parses
            <4>1. PICK v, k :
                    /\ Left(Range(typed), BytesTyped, getc_buf,
                            <<>>, <<>>, v, k)
                    /\ got \o k = Keys
                BY <3>2 DEF Parses
            <4>2. k \in Seq(Key)
                BY <1>1, <4>1, LeftTyped
            <4> QED
                BY <4>1, <4>2
        <3> QED
            BY <1>4, <3>1, <3>2 DEF KeysInv
    <2>2. doing # "key"
        BY <1>4 DEF InGetpos
    <2> QED
        BY <1>3, <2>1, <2>2
<1>5. CASE ~InGetpos
    <2>1. PICK k : Gets(k)
        BY <1>5 DEF KeysInv, Reads
    <2>2. k \in Seq(Key) /\ got \o k = Keys
        BY <1>1, <2>1, SendsTyped DEF Gets
    <2>3. ASSUME doing = "key", ~HasByte
          PROVE  got = Keys
        <3>1. getc_buf \o tty = <<>>
            BY <2>3 DEF HasByte
        <3>2. Begun(getc_buf \o tty) = <<>>
            BY <2>3, <3>1 DEF Begun
        <3>3. k = <<>>
            BY <1>1, <2>1, <3>2, SendsNothing DEF Gets
        <3>4. got \o <<>> = got
            BY <1>2
        <3> QED
            BY <2>2, <3>3, <3>4
    <2> QED
        BY <1>3, <2>2, <2>3
<1> QED
    BY <1>4, <1>5

\* It holds at the start.
LEMMA KeysInvInit == CInit => KeysInv
<1> SUFFICES ASSUME CInit PROVE KeysInv
    OBVIOUS
<1>1. /\ tty = <<>> /\ getc_buf = <<>> /\ doing = "caller" /\ query = FALSE
      /\ calls = 0 /\ typed = <<>> /\ got = <<>>
    BY DEF CInit
<1>2. Begun(getc_buf \o tty) = <<>>
    BY <1>1 DEF Begun
<1>3. Keys = <<>> /\ BytesTyped = 0
    <2>1. Len(<<>>) = 0
        OBVIOUS
    <2> QED
        BY <1>1, <2>1, EachNone DEF Keys, BytesTyped
<1>4. PICK k : k = <<>>
    OBVIOUS
<1>5. got \o k = Keys
    BY <1>1, <1>3, <1>4
<1>6. Gets(k)
    BY <1>2, <1>4, <1>5, SendsNone DEF Gets
<1>7. Len(getc_buf) + Len(tty) <= BytesTyped
    BY <1>1, <1>3
<1> QED
    BY <1>1, <1>6, <1>7 DEF KeysInv, InGetpos, Reads

\* KeysInOrder: console_getchar() gives the keys that were typed, in their
\* order and all of them, however they are mixed with the answers of the
\* terminal and whichever of console_getpos() and console_getchar() reads them
\* first; the bytes that console_getpos() takes back go behind those that
\* getc_buf holds, and it takes nothing for its answer that is none.
THEOREM KeysArrive == CSpec => []KeysInOrder
<1>1. CInit => KeysInv
    BY KeysInvInit
<1>2. CInv /\ KeysInv /\ [CNext]_cvars => KeysInv'
    BY KeysInvKept
<1>3. CInv /\ KeysInv => KeysInOrder
    BY KeysInvGives DEF CInv
<1> QED
    BY <1>1, <1>2, <1>3, CInvHolds, PTL DEF CSpec
=============================================================================

----------------------------- MODULE FindProofs -----------------------------
(***************************************************************************)
(* Paths, patterns and find, for any names, any disks and any trees of     *)
(* directories.                                                            *)
(***************************************************************************)
EXTENDS Find, FiniteSetTheorems, SequenceTheorems, WellFoundedInduction, TLAPS

(***************************************************************************)
(* Paths (Vfs).                                                            *)
(***************************************************************************)
\* While a path is put together, its disk is in front of what ".." may take
\* back.
DiskFirst ==
    /\ place # "idle" => answer = "none"
    /\ place = "device" => path_nodes = 0
    /\ place \in {"jail", "path"} =>
        /\ Len(path) > path_nodes
        /\ path[1] \in mounted \cup {"rootfs"}
        /\ ~Cut => path[1] = Used.name

VInv == VTypeOK /\ DiskFirst /\ OnItsDisk

\* The last name can be taken off a path that has another in front of it.
LEMMA FrontKeepsFirst ==
    ASSUME NEW S, NEW s \in Seq(S), Len(s) > 1
    PROVE  Front(s) \in Seq(S) /\ Len(Front(s)) = Len(s) - 1
             /\ Front(s)[1] = s[1]
BY DEF Front

LEMMA VInvKept ==
    ASSUME VInv, [VNext]_vvars
    PROVE  VInv'
<1> DEFINE Elem == Node \cup Disk \cup {"rootfs"}
<1> USE DEF VInv
<1>1. ASSUME NEW d \in Device, SetRoot(d)
      PROVE  VInv'
    BY <1>1 DEF SetRoot, VTypeOK, DiskFirst, OnItsDisk
<1>2. ASSUME NEW j \in Jails, SetJail(j)
      PROVE  VInv'
    BY <1>2 DEF SetJail, VTypeOK, DiskFirst, OnItsDisk
<1>3. ASSUME NEW p \in Path, Translate(p)
      PROVE  VInv'
    BY <1>3 DEF Translate, VTypeOK, DiskFirst, OnItsDisk
<1>4. CASE Refuse
    BY <1>4 DEF Refuse, Return, VTypeOK, DiskFirst, OnItsDisk
<1>5. CASE Raw
    <2>1. asked.dev # NoDevice => asked.dev \in Device
        BY <1>5 DEF Raw, HasDevice, VTypeOK, Path
    <2>2. asked.nodes \in Seq(Elem)
        BY DEF VTypeOK, Path
    <2> QED
        BY <1>5, <2>2 DEF Raw, Return, VTypeOK, DiskFirst, OnItsDisk
<1>6. ASSUME NEW d \in Disk \cup {"rootfs"}, Found(d)
      PROVE  VInv'
    <2>1. /\ place' \in {"jail", "path"} /\ path' = <<d>>
          /\ UNCHANGED <<vfs_root, vfs_jail, mounted, asked, path_nodes,
                         answer>>
          /\ d \in mounted \cup {"rootfs"} /\ (d = Used.name \/ Cut)
          /\ place = "device"
        BY <1>6 DEF Found, HasDevice
    <2>2. todo' \in Seq(Node)
        BY <1>6, NamesAssumption DEF Found, VTypeOK, Path
    <2>3. path' \in Seq(Elem) /\ Len(path') = 1 /\ path'[1] = d
        BY <2>1
    <2>4. VTypeOK'
        BY <2>1, <2>2, <2>3 DEF VTypeOK
    <2>5. (Cut' <=> Cut) /\ Used' = Used
        BY <2>1 DEF Cut, Used
    <2> QED
        BY <2>1, <2>3, <2>4, <2>5 DEF VTypeOK, DiskFirst, OnItsDisk
<1>7. CASE NotFound
    <2>1. /\ place' = "idle" /\ answer' = "missing"
          /\ UNCHANGED <<vfs_root, vfs_jail, mounted, asked, todo, path,
                         path_nodes>>
        BY <1>7 DEF NotFound, Return
    <2>2. Cut \/ Used.name \notin mounted
        BY <1>7, NamesAssumption DEF NotFound, VTypeOK
    <2> QED
        BY <2>1, <2>2 DEF VTypeOK, DiskFirst, OnItsDisk, Cut, Used
<1>8. CASE AppendName
    <2>1. Head(todo) \in Elem /\ Tail(todo) \in Seq(Node)
        BY <1>8 DEF AppendName, Appending, VTypeOK
    <2>2. path' = Append(path, Head(todo)) /\ path \in Seq(Elem)
        BY <1>8 DEF AppendName, VTypeOK
    <2>3. path' \in Seq(Elem) /\ Len(path') = Len(path) + 1
        BY <2>1, <2>2
    <2>4. path' # <<>> /\ (Len(path) > 0 => path'[1] = path[1])
        BY <2>1, <2>2
    <2> QED
        BY <1>8, <2>1, <2>3, <2>4
        DEF AppendName, Appending, VTypeOK, DiskFirst, OnItsDisk, Cut, Used
<1>9. CASE AppendUp
    <2>1. Tail(todo) \in Seq(Node)
        BY <1>9 DEF AppendUp, Appending, VTypeOK
    <2>2. CASE path_nodes > 0
        <3>1. Len(path) > 1 /\ path \in Seq(Elem)
            BY <1>9, <2>2 DEF AppendUp, Appending, DiskFirst, VTypeOK
        <3>2. path' = Front(path) /\ path_nodes' = path_nodes - 1
            BY <1>9, <2>2 DEF AppendUp
        <3>3. path' \in Seq(Elem) /\ Len(path') = Len(path) - 1
                /\ path'[1] = path[1]
            BY <3>1, <3>2, FrontKeepsFirst
        <3> QED
            BY <1>9, <2>1, <2>2, <3>1, <3>2, <3>3
            DEF AppendUp, Appending, VTypeOK, DiskFirst, OnItsDisk, Cut, Used
    <2>3. CASE ~(path_nodes > 0)
        BY <1>9, <2>1, <2>3
        DEF AppendUp, Appending, VTypeOK, DiskFirst, OnItsDisk, Cut, Used
    <2> QED
        BY <2>2, <2>3
<1>10. CASE JailEnds
    <2>1. asked.nodes \in Seq(Node)
        BY DEF VTypeOK, Path
    <2> QED
        BY <1>10, <2>1
        DEF JailEnds, VTypeOK, DiskFirst, OnItsDisk, Cut, Used
<1>11. CASE Translated
    BY <1>11 DEF Translated, Return, VTypeOK, DiskFirst, OnItsDisk, Cut, Used
<1>12. CASE UNCHANGED vvars
    BY <1>12 DEF vvars, call, VTypeOK, DiskFirst, OnItsDisk, Cut, Used
<1> QED
    BY <1>1, <1>2, <1>3, <1>4, <1>5, <1>6, <1>7, <1>8, <1>9, <1>10, <1>11,
        <1>12 DEF VNext, VStep

LEMMA VInvStarts == VInit => VInv
<1> SUFFICES ASSUME VInit PROVE VInv
    OBVIOUS
<1>1. VTypeOK
    <2>1. /\ <<>> \in Seq(Node)
          /\ <<>> \in Seq(Node \cup Disk \cup {"rootfs"})
        OBVIOUS
    <2>2. vfs_root \in Device
        BY DEF VInit, Device
    <2>3. asked \in Path
        BY <2>1 DEF VInit, Path
    <2> QED
        BY <2>1, <2>2, <2>3, NamesAssumption DEF VInit, VTypeOK
<1> QED
    BY <1>1 DEF VInit, VInv, DiskFirst, OnItsDisk

LEMMA VInvHolds == VSpec => []VInv
    BY VInvStarts, VInvKept, PTL DEF VSpec

\* Every variable of the paths has its type.
THEOREM VfsTypeCorrect == VSpec => []VTypeOK
BY VInvHolds, PTL DEF VInv

\* A path is on the disk that it names, however many ".." it and the jail
\* have, and is refused only if that disk is not there.
THEOREM PathsStayOnDisk == VSpec => []OnItsDisk
BY VInvHolds, PTL DEF VInv

-----------------------------------------------------------------------------
(***************************************************************************)
(* Numbers, least ones and induction.                                      *)
(***************************************************************************)
LEMMA LeastOf ==
    ASSUME NEW S \in SUBSET Nat, S # {}
    PROVE  \E m \in S : \A k \in S : m <= k
<1> DEFINE R == {p \in Nat \X Nat : p[1] < p[2]}
<1>1. IsWellFoundedOn(R, Nat)
    BY NatLessThanWellFounded DEF OpToRel
<1>2. \E m \in S : \A k \in S : <<k, m>> \notin R
    <2> HIDE DEF R
    <2> QED
        BY <1>1, WFMin
<1>3. PICK m \in S : \A k \in S : <<k, m>> \notin R
    BY <1>2
<1>4. ASSUME NEW k \in S PROVE m <= k
    <2>1. k \in Nat /\ m \in Nat
        OBVIOUS
    <2>2. <<k, m>> \notin R
        BY <1>3
    <2> QED
        BY <2>1, <2>2
<1> QED
    BY <1>4

\* A set that has 0, and with a number the next, has them all.
LEMMA AllNumbers ==
    ASSUME NEW T, 0 \in T, \A n \in Nat : n \in T => n + 1 \in T
    PROVE  Nat \subseteq T
<1> DEFINE S == Nat \ T
<1>1. ASSUME S # {} PROVE FALSE
    <2>1. S \in SUBSET Nat
        OBVIOUS
    <2>2. PICK m \in S : \A k \in S : m <= k
        <3> HIDE DEF S
        <3> QED
            BY <1>1, <2>1, LeastOf
    <2>3. m \in Nat /\ m # 0 /\ m \notin T
        OBVIOUS
    <2>4. m - 1 \in Nat /\ ~(m <= m - 1) /\ m - 1 + 1 = m
        BY <2>3
    <2>5. m - 1 \notin S
        <3> HIDE DEF S
        <3> QED
            BY <2>2, <2>4
    <2>6. m - 1 \in T
        BY <2>4, <2>5
    <2> QED
        BY <2>3, <2>4, <2>6
<1> QED
    BY <1>1

-----------------------------------------------------------------------------
(***************************************************************************)
(* Picked elements of a sequence.                                          *)
(***************************************************************************)
\* q is the numbers of I in their order.
InOrder(I, q) ==
    /\ q \in Seq(Nat)
    /\ \A k \in DOMAIN q : q[k] \in I
    /\ \A i \in I : \E k \in DOMAIN q : q[k] = i
    /\ \A j, k \in DOMAIN q : j < k => q[j] < q[k]
    /\ IsFiniteSet(I) /\ Cardinality(I) = Len(q)
    /\ \A k \in DOMAIN q : Cardinality({j \in I : j <= q[k]}) = k

LEMMA PickedIs ==
    ASSUME NEW S, NEW s \in Seq(S), NEW I \in SUBSET DOMAIN s, NEW q,
           InOrder(I, q)
    PROVE  /\ Picked(s, I) \in Seq(S) /\ Len(Picked(s, I)) = Len(q)
           /\ \A n \in 1 .. Len(q) : Picked(s, I)[n] = s[q[n]]
<1> DEFINE nth(n) == CHOOSE i \in I : Cardinality({j \in I : j <= i}) = n
<1>1. Len(q) \in Nat /\ DOMAIN q = 1 .. Len(q) /\ q \in Seq(Nat)
    BY DEF InOrder
<1>2. ASSUME NEW n \in 1 .. Len(q) PROVE nth(n) = q[n]
    <2>1. q[n] \in I /\ Cardinality({j \in I : j <= q[n]}) = n
        BY <1>1 DEF InOrder
    <2>2. nth(n) \in I /\ Cardinality({j \in I : j <= nth(n)}) = n
        BY <2>1
    <2> HIDE DEF nth
    <2>3. PICK k \in DOMAIN q : q[k] = nth(n)
        BY <2>2 DEF InOrder
    <2>4. k = n
        BY <2>2, <2>3 DEF InOrder
    <2> QED
        BY <2>3, <2>4
<1>3. Picked(s, I) = [n \in 1 .. Len(q) |-> s[nth(n)]]
    BY DEF Picked, InOrder
<1>4. \A n \in 1 .. Len(q) : s[nth(n)] = s[q[n]] /\ s[q[n]] \in S
    <2>1. \A i \in DOMAIN s : s[i] \in S
        OBVIOUS
    <2>2. \A n \in 1 .. Len(q) : q[n] \in DOMAIN s
        BY <1>1 DEF InOrder
    <2> HIDE DEF nth
    <2> QED
        BY <1>2, <2>1, <2>2
<1> HIDE DEF nth
<1>5. Picked(s, I) \in Seq(S)
    <2> DEFINE v == [n \in 1 .. Len(q) |-> s[nth(n)]]
    <2>1. v \in [1 .. Len(q) -> S]
        BY <1>4
    <2>2. v \in Seq(S)
        BY <1>1, <2>1
    <2> HIDE DEF v
    <2> QED
        BY <1>3, <2>2 DEF v
<1>6. DOMAIN Picked(s, I) = 1 .. Len(q)
    BY <1>3
<1>7. Len(Picked(s, I)) = Len(q)
    <2> DEFINE v == Picked(s, I)
    <2>1. v \in Seq(S) /\ DOMAIN v = 1 .. Len(q) /\ Len(q) \in Nat
        BY <1>1, <1>5, <1>6
    <2> HIDE DEF v
    <2>2. Len(v) = Len(q)
        BY <2>1
    <2> QED
        BY <2>2 DEF v
<1>8. \A n \in 1 .. Len(q) : Picked(s, I)[n] = s[q[n]]
    BY <1>3, <1>4
<1> QED
    BY <1>5, <1>7, <1>8

LEMMA NoneInOrder == InOrder({}, <<>>)
    BY FS_EmptySet DEF InOrder

LEMMA AppendInOrder ==
    ASSUME NEW I, NEW q, InOrder(I, q), NEW m \in Nat, \A i \in I : i < m
    PROVE  InOrder(I \cup {m}, Append(q, m))
<1> DEFINE a == Append(q, m)
           J == I \cup {m}
<1>1. /\ Len(q) \in Nat /\ DOMAIN q = 1 .. Len(q) /\ q \in Seq(Nat)
      /\ a \in Seq(Nat) /\ Len(a) = Len(q) + 1 /\ DOMAIN a = 1 .. Len(q) + 1
      /\ \A k \in 1 .. Len(q) : a[k] = q[k]
      /\ a[Len(q) + 1] = m
    BY DEF InOrder
<1>2. m \notin I /\ I \subseteq Nat
    <2>1. I \subseteq Nat
        BY <1>1 DEF InOrder
    <2> QED
        BY <2>1
<1>3. IsFiniteSet(J) /\ Cardinality(J) = Len(q) + 1
    BY <1>2, FS_AddElement DEF InOrder
<1>4. \A k \in DOMAIN q : q[k] < m /\ q[k] \in I
    BY DEF InOrder
<1>5. ASSUME NEW k \in DOMAIN a
      PROVE  Cardinality({j \in J : j <= a[k]}) = k
    <2>1. CASE k = Len(q) + 1
        <3>1. a[k] = m
            BY <1>1, <2>1
        <3>2. \A j \in J : j <= m
            BY <1>2
        <3>3. {j \in J : j <= a[k]} = J
            <4> HIDE DEF J, a
            <4> QED
                BY <3>1, <3>2
        <3> QED
            BY <1>3, <2>1, <3>3
    <2>2. CASE k \in 1 .. Len(q)
        <3> DEFINE b == q[k]
        <3>a. a[k] = b /\ b \in I /\ b \in Nat /\ b < m
            BY <1>1, <1>2, <1>4, <2>2
        <3> HIDE DEF a, b
        <3>b. ~(m <= b)
            BY <3>a
        <3>c. {j \in J : j <= b} = {j \in I : j <= b}
            BY <3>b
        <3>1. {j \in J : j <= a[k]} = {j \in I : j <= q[k]}
            BY <3>a, <3>c DEF b
        <3> QED
            BY <1>1, <2>2, <3>1 DEF InOrder
    <2>3. k = Len(q) + 1 \/ k \in 1 .. Len(q)
        BY <1>1
    <2> QED
        BY <2>1, <2>2, <2>3
<1>6. \A k \in DOMAIN a : a[k] \in J
    BY <1>1, <1>4
<1>7. ASSUME NEW i \in J PROVE \E k \in DOMAIN a : a[k] = i
    <2>1. CASE i = m
        BY <1>1, <2>1
    <2>2. CASE i \in I
        <3>1. PICK k \in DOMAIN q : q[k] = i
            BY <2>2 DEF InOrder
        <3>2. k \in DOMAIN a /\ a[k] = i
            BY <1>1, <3>1
        <3> QED
            BY <3>2
    <2> QED
        BY <2>1, <2>2
<1>8. \A j, k \in DOMAIN a : j < k => a[j] < a[k]
    <2> SUFFICES ASSUME NEW j \in DOMAIN a, NEW k \in DOMAIN a, j < k
                 PROVE  a[j] < a[k]
        OBVIOUS
    <2>1. j \in 1 .. Len(q) /\ a[j] = q[j]
        BY <1>1
    <2>2. CASE k = Len(q) + 1
        BY <1>1, <1>4, <2>1, <2>2
    <2>3. CASE k \in 1 .. Len(q)
        BY <1>1, <2>1, <2>3 DEF InOrder
    <2> QED
        BY <1>1, <2>2, <2>3
<1> HIDE DEF a, J
<1>9. InOrder(J, a)
    BY <1>1, <1>3, <1>5, <1>6, <1>7, <1>8 DEF InOrder
<1> QED
    BY <1>9 DEF a, J

LEMMA FrontInOrder ==
    ASSUME NEW I, NEW q, InOrder(I, q), Len(q) > 0
    PROVE  InOrder(I \ {q[Len(q)]}, Front(q))
<1> DEFINE m == q[Len(q)]
           f == Front(q)
           J == I \ {m}
           n == Len(q) - 1
<1>1. /\ n \in Nat /\ Len(q) = n + 1 /\ DOMAIN q = 1 .. n + 1 /\ q \in Seq(Nat)
      /\ f \in Seq(Nat) /\ Len(f) = n /\ DOMAIN f = 1 .. n
      /\ \A k \in 1 .. n : f[k] = q[k]
      /\ m \in I /\ m \in Nat
    BY DEF InOrder, Front
<1> HIDE DEF f, n, m
<1>2. \A k \in 1 .. n : q[k] < m /\ q[k] \in J
    <2>1. ASSUME NEW k \in 1 .. n
          PROVE  q[k] < q[n + 1] /\ q[k] \in I /\ q[k] \in Nat
        <3>1. k \in DOMAIN q /\ n + 1 \in DOMAIN q /\ k < n + 1
            BY <1>1
        <3>2. q[k] < q[n + 1]
            BY <3>1 DEF InOrder
        <3>3. q[k] \in I
            BY <3>1 DEF InOrder
        <3>4. q[k] \in Nat
            BY <1>1
        <3> QED
            BY <3>2, <3>3, <3>4
    <2>2. m = q[n + 1]
        BY <1>1 DEF m
    <2> QED
        BY <1>1, <2>1, <2>2
<1>3. IsFiniteSet(J) /\ Cardinality(J) = n
    <2>1. IsFiniteSet(I) /\ Cardinality(I) = n + 1
        BY <1>1 DEF InOrder
    <2>2. m \in I
        BY <1>1
    <2>3. IsFiniteSet(J) /\ Cardinality(J) = Cardinality(I) - 1
        BY <2>1, <2>2, FS_RemoveElement
    <2>4. Cardinality(I) - 1 = n
        BY <1>1, <2>1
    <2>5. Cardinality(J) = n
        BY <2>3, <2>4, Zenon
    <2> QED
        BY <2>3, <2>5
<1>4. ASSUME NEW i \in J PROVE \E k \in DOMAIN f : f[k] = i
    <2>1. PICK k \in DOMAIN q : q[k] = i
        BY DEF InOrder
    <2>2. k # n + 1
        BY <1>1, <2>1 DEF m
    <2>3. k \in DOMAIN f /\ f[k] = i
        BY <1>1, <2>1, <2>2
    <2> QED
        BY <2>3
<1>5. ASSUME NEW k \in DOMAIN f
      PROVE  Cardinality({j \in J : j <= f[k]}) = k
    <2>1. k \in DOMAIN q /\ f[k] = q[k] /\ q[k] < m /\ q[k] \in Nat
        BY <1>1, <1>2
    <2>2. {j \in J : j <= f[k]} = {j \in I : j <= q[k]}
        BY <1>1, <2>1
    <2> QED
        BY <2>1, <2>2 DEF InOrder
<1>6. \A j, k \in DOMAIN f : j < k => f[j] < f[k]
    <2>1. \A k \in DOMAIN f : k \in DOMAIN q /\ f[k] = q[k]
        BY <1>1
    <2>2. \A j, k \in DOMAIN q : j < k => q[j] < q[k]
        BY DEF InOrder
    <2> QED
        BY <2>1, <2>2
<1>7. \A k \in DOMAIN f : f[k] \in J
    BY <1>1, <1>2
<1> HIDE DEF J
<1>8. InOrder(J, f)
    BY <1>1, <1>3, <1>4, <1>5, <1>6, <1>7 DEF InOrder
<1> QED
    BY <1>8 DEF J, f, m

LEMMA AnyInOrder ==
    ASSUME NEW n \in Nat, NEW I \in SUBSET (1 .. n)
    PROVE  \E q : InOrder(I, q)
<1> DEFINE T == {m \in Nat : \A J \in SUBSET (1 .. m) : \E q : InOrder(J, q)}
<1>1. 0 \in T
    <2>1. \A J \in SUBSET (1 .. 0) : J = {}
        OBVIOUS
    <2> QED
        BY <2>1, NoneInOrder
<1>2. ASSUME NEW m \in Nat, m \in T PROVE m + 1 \in T
    <2>1. ASSUME NEW J \in SUBSET (1 .. m + 1) PROVE \E q : InOrder(J, q)
        <3> DEFINE K == J \ {m + 1}
        <3>1. K \in SUBSET (1 .. m) /\ \A i \in K : i < m + 1
            OBVIOUS
        <3>2. PICK q : InOrder(K, q)
            BY <1>2, <3>1
        <3>3. CASE m + 1 \notin J
            <4>1. K = J
                BY <3>3
            <4> QED
                BY <3>2, <4>1
        <3>4. CASE m + 1 \in J
            <4>1. K \cup {m + 1} = J /\ m + 1 \in Nat
                BY <3>4
            <4>2. InOrder(K \cup {m + 1}, Append(q, m + 1))
                <5> HIDE DEF K
                <5> QED
                    BY <3>1, <3>2, <4>1, AppendInOrder
            <4> QED
                BY <4>1, <4>2
        <3> QED
            BY <3>3, <3>4
    <2> QED
        BY <2>1
<1>3. n \in T
    <2> HIDE DEF T
    <2> QED
        BY <1>1, <1>2, AllNumbers
<1> QED
    BY <1>3

\* a is s with x behind it, and I are numbers of s.
Grown(S, s, x, a, I) ==
    /\ s \in Seq(S) /\ x \in S /\ a = Append(s, x)
    /\ I \subseteq DOMAIN s

LEMMA PickedAppend ==
    ASSUME NEW S, NEW s, NEW x, NEW a, NEW I, Grown(S, s, x, a, I)
    PROVE  /\ Picked(s, I) \in Seq(S)
           /\ Picked(a, I) = Picked(s, I)
           /\ Picked(a, I \cup {Len(s) + 1}) = Append(Picked(s, I), x)
<1> DEFINE m == Len(s) + 1
           p == Picked(s, I)
<1>1. /\ Len(s) \in Nat /\ DOMAIN s = 1 .. Len(s)
      /\ a \in Seq(S) /\ DOMAIN a = 1 .. m /\ a[m] = x
      /\ s \in Seq(S) /\ x \in S
      /\ \A i \in 1 .. Len(s) : a[i] = s[i]
      /\ m \in Nat /\ (\A i \in I : i < m) /\ I \in SUBSET (1 .. Len(s))
      /\ I \in SUBSET DOMAIN a /\ I \cup {m} \in SUBSET DOMAIN a
      /\ I \in SUBSET DOMAIN s
    BY DEF Grown
<1>2. PICK q : InOrder(I, q)
    BY <1>1, AnyInOrder
<1>3. /\ Len(q) \in Nat /\ DOMAIN q = 1 .. Len(q) /\ q \in Seq(Nat)
      /\ \A k \in 1 .. Len(q) : q[k] \in I
    BY <1>2 DEF InOrder
<1> HIDE DEF m
<1>4. p \in Seq(S) /\ Len(p) = Len(q) /\ \A n \in 1 .. Len(q) : p[n] = s[q[n]]
    BY <1>1, <1>2, PickedIs
<1>5. /\ Picked(a, I) \in Seq(S) /\ Len(Picked(a, I)) = Len(q)
      /\ \A n \in 1 .. Len(q) : Picked(a, I)[n] = a[q[n]]
    BY <1>1, <1>2, PickedIs
<1>6. Picked(a, I) = p
    <2>1. \A n \in 1 .. Len(q) : a[q[n]] = s[q[n]]
        BY <1>1, <1>3
    <2> DEFINE r == Picked(a, I)
    <2> HIDE DEF p, r
    <2>2. \A n \in 1 .. Len(r) : r[n] = p[n]
        BY <1>4, <1>5, <2>1 DEF r
    <2>3. Len(r) = Len(p) /\ r \in Seq(S)
        BY <1>4, <1>5 DEF r
    <2>4. r = p
        BY <1>4, <2>2, <2>3, SeqEqual
    <2> QED
        BY <2>4 DEF r
<1>7. InOrder(I \cup {m}, Append(q, m))
    BY <1>1, <1>2, AppendInOrder
<1> DEFINE b == Append(q, m)
           r == Picked(a, I \cup {m})
<1>8. Len(b) = Len(q) + 1 /\ b[Len(q) + 1] = m
      /\ \A n \in 1 .. Len(q) : b[n] = q[n]
    BY <1>1, <1>3
<1> HIDE DEF b
<1>9. r \in Seq(S) /\ Len(r) = Len(q) + 1
      /\ \A n \in 1 .. Len(q) + 1 : r[n] = a[b[n]]
    <2>1. InOrder(I \cup {m}, b)
        BY <1>7 DEF b
    <2>2. r \in Seq(S) /\ Len(r) = Len(b)
          /\ \A n \in 1 .. Len(b) : r[n] = a[b[n]]
        <3> DEFINE J == I \cup {m}
        <3>1. InOrder(J, b) /\ J \in SUBSET DOMAIN a /\ a \in Seq(S)
            BY <1>1, <2>1
        <3> HIDE DEF J
        <3>2. /\ Picked(a, J) \in Seq(S) /\ Len(Picked(a, J)) = Len(b)
              /\ \A n \in 1 .. Len(b) : Picked(a, J)[n] = a[b[n]]
            BY <3>1, PickedIs
        <3> QED
            BY <3>2 DEF J
    <2> HIDE DEF r
    <2> QED
        BY <1>8, <2>2
<1> HIDE DEF r, p
<1>10. r = Append(p, x)
    <2> DEFINE e == Append(p, x)
    <2>1. e \in Seq(S) /\ Len(e) = Len(q) + 1 /\ e[Len(q) + 1] = x
          /\ \A n \in 1 .. Len(q) : e[n] = p[n]
        BY <1>1, <1>3, <1>4
    <2> HIDE DEF e
    <2>2. ASSUME NEW n \in 1 .. Len(r) PROVE r[n] = e[n]
        <3>1. CASE n = Len(q) + 1
            BY <1>1, <1>8, <1>9, <2>1, <3>1
        <3>2. CASE n \in 1 .. Len(q)
            <4>1. r[n] = a[q[n]]
                BY <1>8, <1>9, <3>2
            <4>2. a[q[n]] = s[q[n]]
                BY <1>1, <1>3, <3>2
            <4> QED
                BY <1>4, <2>1, <3>2, <4>1, <4>2
        <3> QED
            BY <1>3, <1>9, <3>1, <3>2
    <2>3. r = e
        BY <1>9, <2>1, <2>2, SeqEqual
    <2> QED
        BY <2>3 DEF e
<1> QED
    BY <1>4, <1>6, <1>10 DEF p, r, m

\* The last one is not picked any more.
LEMMA PickedFront ==
    ASSUME NEW S, NEW s \in Seq(S), NEW I \in SUBSET DOMAIN s, NEW q,
           InOrder(I, q), Len(q) > 0
    PROVE  /\ Picked(s, I) # <<>>
           /\ Picked(s, I \ {q[Len(q)]}) = Front(Picked(s, I))
<1> DEFINE J == I \ {q[Len(q)]}
           f == Front(q)
           p == Picked(s, I)
           r == Picked(s, J)
<1>1. /\ Len(q) \in Nat /\ DOMAIN q = 1 .. Len(q) /\ q \in Seq(Nat)
      /\ Len(f) = Len(q) - 1 /\ \A n \in 1 .. Len(q) - 1 : f[n] = q[n]
    BY DEF InOrder, Front
<1>2. InOrder(J, f)
    BY FrontInOrder
<1>3. p \in Seq(S) /\ Len(p) = Len(q) /\ \A n \in 1 .. Len(q) : p[n] = s[q[n]]
    BY PickedIs
<1>a. J \in SUBSET DOMAIN s
    OBVIOUS
<1> HIDE DEF f, J
<1>4. r \in Seq(S) /\ Len(r) = Len(f) /\ \A n \in 1 .. Len(f) : r[n] = s[f[n]]
    BY <1>2, <1>a, PickedIs
<1> HIDE DEF p, r
<1>5. p # <<>>
    BY <1>1, <1>3
<1>6. r = Front(p)
    <2> DEFINE e == Front(p)
    <2>1. e \in Seq(S) /\ Len(e) = Len(q) - 1
          /\ \A n \in 1 .. Len(q) - 1 : e[n] = p[n]
        BY <1>1, <1>3 DEF Front
    <2> HIDE DEF e
    <2>2. ASSUME NEW n \in 1 .. Len(r) PROVE r[n] = e[n]
        <3>1. n \in 1 .. Len(q) - 1 /\ n \in 1 .. Len(q)
            BY <1>1, <1>4
        <3>2. r[n] = s[f[n]] /\ f[n] = q[n]
            BY <1>1, <1>4, <3>1
        <3>3. p[n] = s[q[n]] /\ e[n] = p[n]
            BY <1>3, <2>1, <3>1
        <3> QED
            BY <3>2, <3>3
    <2>3. Len(r) = Len(e)
        BY <1>1, <1>4, <2>1
    <2>4. r = e
        BY <1>4, <2>1, <2>2, <2>3, SeqEqual
    <2> QED
        BY <2>4 DEF e
<1> QED
    BY <1>5, <1>6 DEF p, r, J

-----------------------------------------------------------------------------
(***************************************************************************)
(* What names say, one name after another.                                 *)
(***************************************************************************)
Ups(s, i, j) == {k \in i .. j : s[k] = DotDot}

Kept(s) == {i \in DOMAIN s : Stays(s, i)}

\* q is the numbers of the names that stay, and of the names and ".." from
\* q[k] on there are as many more names as names that stay.
Balanced(s, q) ==
    /\ InOrder(Kept(s), q)
    /\ \A k \in 1 .. Len(q) :
         2 * Cardinality(Ups(s, q[k], Len(s))) = Len(s) - q[k] - Len(q) + k

LEMMA UpsAre ==
    ASSUME NEW s, NEW i \in Nat, NEW j \in Nat
    PROVE  IsFiniteSet(Ups(s, i, j)) /\ Cardinality(Ups(s, i, j)) \in Nat
<1>1. IsFiniteSet(i .. j)
    BY FS_Interval
<1>2. IsFiniteSet(Ups(s, i, j))
    BY <1>1, FS_Subset DEF Ups
<1> QED
    BY <1>2, FS_CardinalityType

LEMMA UpsAppend ==
    ASSUME NEW s \in Seq(Node), NEW x \in Node, NEW i \in 1 .. Len(s) + 1
    PROVE  LET a == Append(s, x)
               all == Cardinality(Ups(a, i, Len(s) + 1))
               most == Cardinality(Ups(s, i, Len(s)))
           IN  /\ \A j \in i .. Len(s) : Ups(a, i, j) = Ups(s, i, j)
               /\ x = DotDot => all = most + 1
               /\ x # DotDot => all = most
<1> DEFINE a == Append(s, x)
           n == Len(s)
<1>1. /\ n \in Nat /\ a[n + 1] = x /\ \A k \in 1 .. n : a[k] = s[k]
      /\ i \in Nat /\ 1 <= i /\ i <= n + 1
    OBVIOUS
<1> HIDE DEF a, n
<1>2. ASSUME NEW j \in Nat, j <= n PROVE Ups(a, i, j) = Ups(s, i, j)
    <2>1. \A k \in i .. j : a[k] = s[k]
        BY <1>1, <1>2
    <2> QED
        BY <2>1 DEF Ups
<1>3. x # DotDot => Ups(a, i, n + 1) = Ups(s, i, n)
    <2>1. \A k \in i .. n + 1 : k = n + 1 \/ (k \in i .. n /\ k \in 1 .. n)
        BY <1>1
    <2>2. \A k \in i .. n : k \in i .. n + 1 /\ k \in 1 .. n
        BY <1>1
    <2> QED
        BY <1>1, <2>1, <2>2 DEF Ups
<1>4. x = DotDot => /\ Ups(a, i, n + 1) = Ups(s, i, n) \cup {n + 1}
                    /\ n + 1 \notin Ups(s, i, n)
    <2>1. \A k \in i .. n + 1 : k = n + 1 \/ (k \in i .. n /\ k \in 1 .. n)
        BY <1>1
    <2>2. \A k \in i .. n : k \in i .. n + 1 /\ k \in 1 .. n /\ k # n + 1
        BY <1>1
    <2>3. n + 1 \in i .. n + 1
        BY <1>1
    <2> QED
        BY <1>1, <2>1, <2>2, <2>3 DEF Ups
<1>5. IsFiniteSet(Ups(s, i, n))
    BY <1>1, UpsAre
<1>6. x = DotDot =>
        Cardinality(Ups(a, i, n + 1)) = Cardinality(Ups(s, i, n)) + 1
    BY <1>4, <1>5, FS_AddElement
<1>7. \A j \in i .. n : Ups(a, i, j) = Ups(s, i, j)
    BY <1>1, <1>2
<1> QED
    BY <1>3, <1>6, <1>7 DEF a, n

LEMMA StaysAppend ==
    ASSUME NEW s \in Seq(Node), NEW x \in Node
    PROVE  LET a == Append(s, x)
           IN  /\ Stays(a, Len(s) + 1) <=> x # DotDot
               /\ \A i \in 1 .. Len(s) :
                    Stays(a, i) <=>
                        /\ Stays(s, i)
                        /\ 2 * Cardinality(Ups(a, i, Len(s) + 1)) <
                             Len(s) + 2 - i
<1> DEFINE a == Append(s, x)
           n == Len(s)
<1>1. /\ n \in Nat /\ a[n + 1] = x /\ \A k \in 1 .. n : a[k] = s[k]
      /\ Len(a) = n + 1
    OBVIOUS
<1>2. \A i \in 1 .. n + 1 : \A j \in i .. n : Ups(a, i, j) = Ups(s, i, j)
    BY UpsAppend
<1> HIDE DEF a, n
<1>3. \A t, i : Stays(t, i) <=>
        /\ t[i] # DotDot
        /\ \A j \in i .. Len(t) : 2 * Cardinality(Ups(t, i, j)) < j - i + 1
    BY DEF Stays, Ups
<1>4. ASSUME x # DotDot PROVE Stays(a, n + 1)
    <2>1. ASSUME NEW j \in n + 1 .. n + 1
          PROVE  2 * Cardinality(Ups(a, n + 1, j)) < j - (n + 1) + 1
        <3>1. j = n + 1
            BY <1>1
        <3>2. Ups(a, n + 1, j) = {}
            BY <1>1, <1>4, <3>1 DEF Ups
        <3>3. Cardinality(Ups(a, n + 1, j)) = 0
            BY <3>2, FS_EmptySet
        <3> QED
            BY <1>1, <3>1, <3>3
    <2> QED
        BY <1>1, <1>3, <1>4, <2>1
<1>5. Stays(a, n + 1) => x # DotDot
    BY <1>1, <1>3
<1>6. ASSUME NEW i \in 1 .. n
      PROVE  Stays(a, i) <=>
                /\ Stays(s, i)
                /\ 2 * Cardinality(Ups(a, i, n + 1)) < n + 2 - i
    <2>1. /\ i .. n + 1 = (i .. n) \cup {n + 1}
          /\ a[i] = s[i] /\ i \in 1 .. n + 1
          /\ (n + 1) - i + 1 = n + 2 - i
        BY <1>1
    <2>2. \A j \in i .. n :
            (2 * Cardinality(Ups(a, i, j)) < j - i + 1) <=>
            (2 * Cardinality(Ups(s, i, j)) < j - i + 1)
        BY <1>2, <2>1
    <2>3. Stays(s, i) <=>
            /\ s[i] # DotDot
            /\ \A j \in i .. n : 2 * Cardinality(Ups(s, i, j)) < j - i + 1
        BY <1>3 DEF n
    <2>4. Stays(a, i) <=>
            /\ s[i] # DotDot
            /\ \A j \in (i .. n) \cup {n + 1} :
                 2 * Cardinality(Ups(a, i, j)) < j - i + 1
        BY <1>1, <1>3, <2>1
    <2> DEFINE F(j) == 2 * Cardinality(Ups(a, i, j)) < j - i + 1
               G(j) == 2 * Cardinality(Ups(s, i, j)) < j - i + 1
    <2>5. F(n + 1) <=> 2 * Cardinality(Ups(a, i, n + 1)) < n + 2 - i
        BY <2>1, Zenon
    <2>6. /\ \A j \in i .. n : F(j) <=> G(j)
          /\ Stays(s, i) <=> (s[i] # DotDot /\ \A j \in i .. n : G(j))
          /\ Stays(a, i) <=>
                (s[i] # DotDot /\ \A j \in (i .. n) \cup {n + 1} : F(j))
        BY <2>2, <2>3, <2>4
    <2> HIDE DEF F, G
    <2>7. Stays(a, i) <=> (Stays(s, i) /\ F(n + 1))
        BY <2>6
    <2> QED
        BY <2>5, <2>7
<1> QED
    BY <1>4, <1>5, <1>6 DEF a, n

LEMMA NoneBalanced == Balanced(<<>>, <<>>)
<1>1. Kept(<<>>) = {} /\ Len(<<>>) = 0
    BY DEF Kept
<1> QED
    BY <1>1, NoneInOrder DEF Balanced

\* A name stays.
LEMMA NameStays ==
    ASSUME NEW s \in Seq(Node), NEW q, Balanced(s, q),
           NEW x \in Node, x # DotDot
    PROVE  LET a == Append(s, x)
           IN  /\ Kept(a) = Kept(s) \cup {Len(s) + 1}
               /\ Balanced(a, Append(q, Len(s) + 1))
<1> DEFINE a == Append(s, x)
           n == Len(s)
           b == Append(q, n + 1)
<1>1. /\ n \in Nat /\ DOMAIN s = 1 .. n /\ DOMAIN a = 1 .. n + 1
      /\ Len(a) = n + 1
    OBVIOUS
<1>2. /\ Len(q) \in Nat /\ DOMAIN q = 1 .. Len(q)
      /\ \A k \in 1 .. Len(q) : q[k] \in 1 .. n /\ Stays(s, q[k])
      /\ Len(b) = Len(q) + 1 /\ b[Len(q) + 1] = n + 1
      /\ \A k \in 1 .. Len(q) : b[k] = q[k]
    <2>1. InOrder(Kept(s), q)
        BY DEF Balanced
    <2>2. q \in Seq(Nat) /\ \A k \in DOMAIN q : q[k] \in Kept(s)
        BY <2>1 DEF InOrder
    <2>3. \A k \in DOMAIN q : q[k] \in 1 .. n /\ Stays(s, q[k])
        BY <1>1, <2>2 DEF Kept
    <2> HIDE DEF n
    <2> QED
        BY <1>1, <2>2, <2>3
<1>3. \A i \in 1 .. n : Stays(s, i) => Stays(a, i)
    <2> SUFFICES ASSUME NEW i \in 1 .. n, Stays(s, i) PROVE Stays(a, i)
        OBVIOUS
    <2>1. 2 * Cardinality(Ups(s, i, n)) < n - i + 1
        BY <1>1 DEF Stays, Ups
    <2>2. Cardinality(Ups(a, i, n + 1)) = Cardinality(Ups(s, i, n))
        BY <1>1, UpsAppend
    <2>3. Cardinality(Ups(s, i, n)) \in Nat
        BY <1>1, UpsAre
    <2> HIDE DEF a, n
    <2>4. 2 * Cardinality(Ups(a, i, n + 1)) < n + 2 - i
        BY <1>1, <2>1, <2>2, <2>3
    <2> QED
        BY <2>4, StaysAppend DEF a, n
<1>4. \A i \in 1 .. n : Stays(a, i) => Stays(s, i)
    BY StaysAppend
<1>5. Stays(a, n + 1)
    BY StaysAppend
<1>6. Kept(a) = Kept(s) \cup {n + 1}
    <2> HIDE DEF a, n
    <2> QED
        BY <1>1, <1>3, <1>4, <1>5 DEF Kept
<1>7. InOrder(Kept(s), q) /\ n + 1 \in Nat /\ \A i \in Kept(s) : i < n + 1
    BY <1>1 DEF Balanced, Kept
<1>8. InOrder(Kept(a), b)
    <2> HIDE DEF a, n
    <2> QED
        BY <1>6, <1>7, AppendInOrder DEF b
<1>9. ASSUME NEW k \in 1 .. Len(b)
      PROVE  2 * Cardinality(Ups(a, b[k], n + 1)) = (n + 1) - b[k] - Len(b) + k
    <2>1. CASE k = Len(q) + 1
        <3>1. b[k] = n + 1 /\ a[n + 1] = x
            BY <1>2, <2>1
        <3> HIDE DEF a, b
        <3>2. Ups(a, n + 1, n + 1) = {}
            <4>1. \A j \in n + 1 .. n + 1 : j = n + 1
                BY <1>1
            <4> QED
                BY <3>1, <4>1 DEF Ups
        <3>3. Cardinality(Ups(a, b[k], n + 1)) = 0
            BY <3>1, <3>2, FS_EmptySet
        <3> HIDE DEF n
        <3> QED
            BY <1>1, <1>2, <2>1, <3>1, <3>3
    <2>2. CASE k \in 1 .. Len(q)
        <3> DEFINE c == Cardinality(Ups(s, q[k], n))
                   i == q[k]
        <3>1. 2 * c = n - i - Len(q) + k
            BY <2>2 DEF Balanced
        <3>2. Cardinality(Ups(a, i, n + 1)) = c
            BY <1>1, <1>2, <2>2, UpsAppend
        <3>3. b[k] = i /\ i \in Nat
            BY <1>2, <2>2
        <3> HIDE DEF i
        <3>4. c \in Nat
            BY <1>1, <3>3, UpsAre DEF i
        <3>5. Len(b) = Len(q) + 1 /\ Len(q) \in Nat /\ n \in Nat /\ k \in Nat
            BY <1>1, <1>2, <2>2
        <3> HIDE DEF a, b, c, n
        <3>6. (n + 1) - i - Len(b) + k = 2 * c
            BY <3>1, <3>3, <3>4, <3>5
        <3>7. Cardinality(Ups(a, b[k], n + 1)) = c
            BY <3>2, <3>3
        <3> QED
            BY <3>3, <3>6, <3>7
    <2> QED
        BY <1>2, <2>1, <2>2
<1>10. Balanced(a, b)
    <2> HIDE DEF a, b
    <2>1. Len(a) = n + 1
        BY <1>1
    <2> HIDE DEF n
    <2>2. \A k \in 1 .. Len(b) :
            2 * Cardinality(Ups(a, b[k], Len(a))) = Len(a) - b[k] - Len(b) + k
        <3> SUFFICES
              ASSUME NEW k \in 1 .. Len(b)
              PROVE  2 * Cardinality(Ups(a, b[k], Len(a))) =
                       Len(a) - b[k] - Len(b) + k
            OBVIOUS
        <3>1. 2 * Cardinality(Ups(a, b[k], n + 1)) =
                (n + 1) - b[k] - Len(b) + k
            BY <1>9
        <3> QED
            BY <2>1, <3>1, Zenon
    <2> QED
        BY <1>8, <2>2 DEF Balanced
<1> QED
    BY <1>6, <1>10

\* ".." with no name to take back.
LEMMA UpStays ==
    ASSUME NEW s \in Seq(Node), NEW q, Balanced(s, q), Len(q) = 0
    PROVE  LET a == Append(s, DotDot)
           IN  Kept(s) = {} /\ Kept(a) = {} /\ Balanced(a, q)
<1> DEFINE a == Append(s, DotDot)
           n == Len(s)
<1>1. n \in Nat /\ DOMAIN s = 1 .. n /\ DOMAIN a = 1 .. n + 1
    OBVIOUS
<1>2. InOrder(Kept(s), q) /\ DOMAIN q = {}
    BY DEF Balanced, InOrder
<1>3. Kept(s) = {}
    BY <1>2 DEF InOrder
<1>4. DotDot \in Node
    BY NamesAssumption DEF DotDot, Node
<1>5. /\ ~Stays(a, n + 1)
      /\ \A i \in 1 .. n : Stays(a, i) => Stays(s, i)
    BY <1>4, StaysAppend
<1>6. Kept(a) = {}
    <2> HIDE DEF a, n
    <2> QED
        BY <1>1, <1>3, <1>5 DEF Kept
<1> HIDE DEF a
<1>7. Balanced(a, q)
    BY <1>2, <1>3, <1>6 DEF Balanced
<1> QED
    BY <1>3, <1>6, <1>7 DEF a

\* ".." takes back the last name that stays.
LEMMA UpTakes ==
    ASSUME NEW s \in Seq(Node), NEW q, Balanced(s, q), Len(q) > 0
    PROVE  LET a == Append(s, DotDot)
           IN  /\ Kept(a) = Kept(s) \ {q[Len(q)]}
               /\ Balanced(a, Front(q))
<1> DEFINE a == Append(s, DotDot)
           n == Len(s)
           l == Len(q)
           b == Front(q)
<1>1. /\ n \in Nat /\ DOMAIN s = 1 .. n /\ DOMAIN a = 1 .. n + 1
      /\ Len(a) = n + 1
    OBVIOUS
<1>2. InOrder(Kept(s), q)
    BY DEF Balanced
<1>3. /\ l \in Nat \ {0} /\ DOMAIN q = 1 .. l /\ q \in Seq(Nat)
      /\ Len(b) = l - 1 /\ \A k \in 1 .. l - 1 : b[k] = q[k]
    BY <1>2 DEF InOrder, Front
<1>4. \A k \in 1 .. l : q[k] \in 1 .. n /\ Stays(s, q[k])
    BY <1>1, <1>2, <1>3 DEF InOrder, Kept
<1>5. DotDot \in Node
    BY NamesAssumption DEF DotDot, Node
<1>6. /\ ~Stays(a, n + 1)
      /\ \A i \in 1 .. n :
           Stays(a, i) <=>
             Stays(s, i) /\ 2 * Cardinality(Ups(a, i, n + 1)) < n + 2 - i
    BY <1>5, StaysAppend
<1>7. \A i \in 1 .. n :
        Cardinality(Ups(a, i, n + 1)) = Cardinality(Ups(s, i, n)) + 1
    <2> SUFFICES ASSUME NEW i \in 1 .. n
                 PROVE  Cardinality(Ups(a, i, n + 1)) =
                          Cardinality(Ups(s, i, n)) + 1
        OBVIOUS
    <2>1. i \in 1 .. n + 1
        BY <1>1
    <2> QED
        BY <1>5, <2>1, UpsAppend
<1> HIDE DEF a, b
<1>8. ASSUME NEW k \in 1 .. l
      PROVE  /\ 2 * Cardinality(Ups(a, q[k], n + 1)) =
                  (n + 1) - q[k] - (l - 1) + k
             /\ Stays(a, q[k]) <=> k < l
    <2> DEFINE c == Cardinality(Ups(s, q[k], n))
               i == q[k]
    <2>1. 2 * c = n - i - l + k
        BY DEF Balanced
    <2>2. Cardinality(Ups(a, i, n + 1)) = c + 1
        BY <1>4, <1>7
    <2>3. i \in 1 .. n /\ i \in Nat /\ Stays(s, i)
        BY <1>4
    <2> HIDE DEF i
    <2>4. c \in Nat
        BY <1>1, <2>3, UpsAre DEF i
    <2> HIDE DEF c, n, l
    <2>5. 2 * (c + 1) = (n + 1) - i - (l - 1) + k
        BY <1>1, <1>3, <2>1, <2>3, <2>4
    <2>6. 2 * Cardinality(Ups(a, i, n + 1)) = (n + 1) - i - (l - 1) + k
        BY <2>2, <2>5
    <2>7. ((n + 1) - i - (l - 1) + k < n + 2 - i) <=> k < l
        <3>1. n \in Int /\ l \in Int /\ i \in Int /\ k \in Int
            BY <1>1, <1>3, <2>3
        <3> QED
            BY <3>1
    <2>8. Stays(a, i) <=> k < l
        BY <1>6, <2>3, <2>6, <2>7
    <2> QED
        BY <2>6, <2>8 DEF i
<1>9. Kept(a) = Kept(s) \ {q[l]}
    <2>1. ASSUME NEW i \in Kept(a) PROVE i \in Kept(s) \ {q[l]}
        <3>1. i \in 1 .. n /\ Stays(a, i)
            BY <1>1, <1>6 DEF Kept
        <3>2. i \in Kept(s)
            BY <1>1, <1>6, <3>1 DEF Kept
        <3>3. i # q[l]
            <4>1. ~Stays(a, q[l])
                BY <1>3, <1>8
            <4> QED
                BY <3>1, <4>1
        <3> QED
            BY <3>2, <3>3
    <2>2. ASSUME NEW i \in Kept(s) \ {q[l]} PROVE i \in Kept(a)
        <3>1. PICK k \in 1 .. l : q[k] = i
            BY <1>2, <1>3 DEF InOrder
        <3>2. k # l
            BY <3>1
        <3>a. k < l
            <4> HIDE DEF l
            <4> QED
                BY <1>3, <3>2
        <3>3. Stays(a, i)
            BY <1>8, <3>1, <3>a
        <3>4. i \in 1 .. n + 1
            BY <1>1, <1>4, <3>1
        <3> QED
            BY <1>1, <3>3, <3>4 DEF Kept
    <2> QED
        BY <2>1, <2>2
<1>10. InOrder(Kept(a), b)
    BY <1>2, <1>9, FrontInOrder DEF b
<1>11. \A k \in 1 .. Len(b) :
         2 * Cardinality(Ups(a, b[k], Len(a))) = Len(a) - b[k] - Len(b) + k
    <2> SUFFICES ASSUME NEW k \in 1 .. Len(b)
                 PROVE  2 * Cardinality(Ups(a, b[k], Len(a))) =
                          Len(a) - b[k] - Len(b) + k
        OBVIOUS
    <2>a. k \in 1 .. l - 1 /\ b[k] = q[k]
        BY <1>3
    <2>1. k \in 1 .. l /\ b[k] = q[k]
        <3> HIDE DEF l
        <3> QED
            BY <1>3, <2>a
    <2>2. 2 * Cardinality(Ups(a, q[k], n + 1)) = (n + 1) - q[k] - (l - 1) + k
        BY <1>8, <2>1
    <2>3. Len(a) = n + 1 /\ Len(b) = l - 1
        BY <1>1, <1>3
    <2> HIDE DEF l, n
    <2> QED
        BY <2>1, <2>2, <2>3, Zenon
<1>12. Balanced(a, b)
    BY <1>10, <1>11 DEF Balanced
<1> QED
    BY <1>9, <1>12 DEF a, b

LEMMA SomeBalanced == \A s \in Seq(Node) : \E q : Balanced(s, q)
<1> DEFINE T == {n \in Nat : \A s \in Seq(Node) :
                   Len(s) = n => \E q : Balanced(s, q)}
<1>1. 0 \in T
    <2>1. \A s \in Seq(Node) : Len(s) = 0 => s = <<>>
        OBVIOUS
    <2> QED
        BY <2>1, NoneBalanced
<1>2. ASSUME NEW n \in Nat, n \in T PROVE n + 1 \in T
    <2>1. ASSUME NEW s \in Seq(Node), Len(s) = n + 1
          PROVE  \E q : Balanced(s, q)
        <3>1. s # <<>>
            BY <2>1
        <3>2. PICK r \in Seq(Node), x \in Node : s = Append(r, x)
            BY <3>1, SequenceEmptyOrAppend
        <3>3. Len(r) = n
            BY <2>1, <3>2
        <3>4. PICK q : Balanced(r, q)
            BY <1>2, <3>3
        <3>5. CASE x # DotDot
            BY <3>2, <3>4, <3>5, NameStays
        <3>6. CASE x = DotDot /\ Len(q) = 0
            BY <3>2, <3>4, <3>6, UpStays
        <3>7. CASE x = DotDot /\ Len(q) > 0
            BY <3>2, <3>4, <3>7, UpTakes
        <3>8. Len(q) \in Nat
            BY <3>4 DEF Balanced, InOrder
        <3> QED
            BY <3>5, <3>6, <3>7, <3>8
    <2> QED
        BY <2>1
<1> HIDE DEF T
<1>3. Nat \subseteq T
    BY <1>1, <1>2, AllNumbers
<1> QED
    BY <1>3 DEF T

-----------------------------------------------------------------------------
\* What ".." and a name do to what the names before them say.
LEMMA MeaningAppend ==
    ASSUME NEW s \in Seq(Node), NEW x \in Node
    PROVE  LET a == Append(s, x)
               m == Meaning(s)
           IN  /\ m \in Seq(Node)
               /\ x # DotDot => Meaning(a) = Append(m, x)
               /\ (x = DotDot /\ m = <<>>) => Meaning(a) = <<>>
               /\ (x = DotDot /\ m # <<>>) => Meaning(a) = Front(m)
<1> DEFINE a == Append(s, x)
           m == Meaning(s)
<1>1. /\ \A t : Meaning(t) = Picked(t, Kept(t))
      /\ Kept(s) \in SUBSET DOMAIN s
    BY DEF Meaning, Kept
<1>2. PICK q : Balanced(s, q)
    BY SomeBalanced
<1>3. InOrder(Kept(s), q) /\ Len(q) \in Nat
    BY <1>2 DEF Balanced, InOrder
<1>a. \A I \in SUBSET DOMAIN s : Grown(Node, s, x, a, I)
    BY DEF Grown
<1>4. /\ m \in Seq(Node) /\ Len(m) = Len(q)
      /\ Picked(a, Kept(s)) = m
      /\ Picked(a, Kept(s) \cup {Len(s) + 1}) = Append(m, x)
    <2> HIDE DEF a
    <2>1. m \in Seq(Node) /\ Len(m) = Len(q)
        BY <1>1, <1>3, PickedIs
    <2>2. Grown(Node, s, x, a, Kept(s))
        BY <1>1, <1>a
    <2> QED
        BY <1>1, <2>1, <2>2, PickedAppend
<1>5. CASE x # DotDot
    BY <1>1, <1>2, <1>4, <1>5, NameStays
<1>6. CASE x = DotDot /\ Len(q) = 0
    <2>1. Kept(a) = Kept(s)
        BY <1>2, <1>6, UpStays
    <2>2. m = <<>>
        BY <1>4, <1>6
    <2> QED
        BY <1>1, <1>4, <1>6, <2>1, <2>2
<1>7. CASE x = DotDot /\ Len(q) > 0
    <2> DEFINE I == Kept(s) \ {q[Len(q)]}
    <2>1. Kept(a) = I
        BY <1>2, <1>7, UpTakes
    <2>2. m # <<>> /\ Picked(s, I) = Front(m)
        BY <1>1, <1>3, <1>7, PickedFront
    <2>3. I \in SUBSET DOMAIN s
        BY <1>1
    <2> HIDE DEF I, a
    <2>a. Grown(Node, s, x, a, I)
        BY <1>a, <2>3
    <2>4. /\ Picked(s, I) \in Seq(Node)
          /\ Picked(a, I) = Picked(s, I)
          /\ Picked(a, I \cup {Len(s) + 1}) = Append(Picked(s, I), x)
        BY <2>a, PickedAppend
    <2>5. Meaning(a) = Front(m)
        BY <1>1, <2>1, <2>2, <2>4
    <2> QED
        BY <1>4, <1>7, <2>2, <2>5 DEF a
<1> QED
    BY <1>3, <1>5, <1>6, <1>7

LEMMA MeaningOfNone == Meaning(<<>>) = <<>>
<1>1. {i \in DOMAIN <<>> : Stays(<<>>, i)} = {}
    OBVIOUS
<1>2. <<>> \in Seq(Node) /\ {} \in SUBSET DOMAIN <<>>
    OBVIOUS
<1>3. Picked(<<>>, {}) \in Seq(Node) /\ Len(Picked(<<>>, {})) = Len(<<>>)
    BY <1>2, NoneInOrder, PickedIs
<1> QED
    BY <1>1, <1>3 DEF Meaning

\* A name "." is left out.
LEMMA HereAppend ==
    ASSUME NEW S, NEW s \in Seq(S), NEW x \in S
    PROVE  /\ WithoutHere(s) \in Seq(S)
           /\ x = Dot => WithoutHere(Append(s, x)) = WithoutHere(s)
           /\ x # Dot =>
                WithoutHere(Append(s, x)) = Append(WithoutHere(s), x)
<1> DEFINE a == Append(s, x)
           n == Len(s)
           I(t) == {i \in DOMAIN t : t[i] # Dot}
<1>1. /\ n \in Nat /\ DOMAIN s = 1 .. n /\ DOMAIN a = 1 .. n + 1
      /\ a[n + 1] = x /\ \A i \in 1 .. n : a[i] = s[i]
      /\ I(s) \in SUBSET DOMAIN s
    OBVIOUS
<1>2. \A t : WithoutHere(t) = Picked(t, I(t))
    BY DEF WithoutHere
<1>3. /\ x = Dot => I(a) = I(s)
      /\ x # Dot => I(a) = I(s) \cup {n + 1}
    <2> HIDE DEF a, n
    <2> QED
        BY <1>1
<1> HIDE DEF I
<1>4. /\ Picked(s, I(s)) \in Seq(S)
      /\ Picked(a, I(s)) = Picked(s, I(s))
      /\ Picked(a, I(s) \cup {n + 1}) = Append(Picked(s, I(s)), x)
    <2>1. Grown(S, s, x, a, I(s))
        BY <1>1 DEF Grown
    <2> QED
        BY <2>1, PickedAppend
<1> QED
    BY <1>2, <1>3, <1>4

LEMMA HereOfNone == WithoutHere(<<>>) = <<>>
<1>1. {i \in DOMAIN <<>> : <<>>[i] # Dot} = {}
    OBVIOUS
<1>2. <<>> \in Seq(Node) /\ {} \in SUBSET DOMAIN <<>>
    OBVIOUS
<1>3. Picked(<<>>, {}) \in Seq(Node) /\ Len(Picked(<<>>, {})) = Len(<<>>)
    BY <1>2, NoneInOrder, PickedIs
<1> QED
    BY <1>1, <1>3 DEF WithoutHere

-----------------------------------------------------------------------------
(***************************************************************************)
(* The names of a path.                                                    *)
(***************************************************************************)
Name == Node \cup Disk \cup {"rootfs"}

\* The names of the jail, the path that was asked for, whether ".." may take
\* back a ".", and the names that are there so far, behind the disk.
JailNames == IF Jailed THEN Meaning(vfs_jail) ELSE <<>>
HereAndUp == {Dot, DotDot} \subseteq Range(asked.nodes)
OnPath == Tail(path)

\* While the jail is read: what its names up to here say is on the path, and
\* ".." may take back all of it.
JailRead ==
    place = "jail" =>
        /\ Jailed
        /\ \E s \in Seq(Node) :
             /\ vfs_jail = s \o todo
             /\ OnPath = Meaning(s) /\ path_nodes = Len(Meaning(s))

\* Later ".." may not take back what the jail has put there.
JailStays ==
    (place = "path" \/ answer = "path") =>
        /\ Len(JailNames) + (IF place = "path" THEN path_nodes ELSE 0)
             <= Len(OnPath)
        /\ \A n \in 1 .. Len(JailNames) : OnPath[n] = JailNames[n]

-----------------------------------------------------------------------------
\* A name has been read.
LEMMA ReadOne ==
    ASSUME NEW S, NEW s \in Seq(S), NEW t \in Seq(S), t # <<>>
    PROVE  /\ Head(t) \in S /\ Tail(t) \in Seq(S)
           /\ Append(s, Head(t)) \in Seq(S)
           /\ s \o t = Append(s, Head(t)) \o Tail(t)
           /\ Head(t) \in Range(s \o t)
<1>1. /\ Head(t) \in S /\ Tail(t) \in Seq(S) /\ Append(s, Head(t)) \in Seq(S)
      /\ Len(t) \in Nat \ {0} /\ Len(s) \in Nat /\ Head(t) = t[1]
    OBVIOUS
<1>2. t = <<Head(t)>> \o Tail(t)
    <2> DEFINE r == <<Head(t)>> \o Tail(t)
    <2>1. /\ Len(Tail(t)) = Len(t) - 1
          /\ \A n \in 1 .. Len(t) - 1 : Tail(t)[n] = t[n + 1]
        OBVIOUS
    <2>2. r \in Seq(S) /\ Len(r) = Len(t) /\ r[1] = t[1]
        BY <1>1, <2>1
    <2>3. \A n \in 2 .. Len(t) : r[n] = t[n]
        <3> SUFFICES ASSUME NEW n \in 2 .. Len(t) PROVE r[n] = t[n]
            OBVIOUS
        <3>1. r[n] = Tail(t)[n - 1]
            BY <1>1, <2>1
        <3>2. n - 1 \in 1 .. Len(t) - 1 /\ n - 1 + 1 = n
            BY <1>1
        <3> HIDE DEF r
        <3> QED
            BY <2>1, <3>1, <3>2
    <2> HIDE DEF r
    <2>4. \A n \in 1 .. Len(t) : n = 1 \/ n \in 2 .. Len(t)
        BY <1>1
    <2>5. \A n \in 1 .. Len(t) : t[n] = r[n]
        BY <2>2, <2>3, <2>4
    <2>6. t = r
        BY <2>2, <2>5, SeqEqual
    <2> QED
        BY <2>6 DEF r
<1>3. Append(s, Head(t)) = s \o <<Head(t)>>
    BY <1>1, AppendIsConcat
<1>4. <<Head(t)>> \in Seq(S)
    BY <1>1
<1> DEFINE x == <<Head(t)>>
           u == Tail(t)
<1> HIDE DEF x, u
<1>5. (s \o x) \o u = s \o (x \o u)
    BY <1>1, <1>4, ConcatAssociative DEF x, u
<1>6. s \o t = Append(s, Head(t)) \o Tail(t)
    BY <1>2, <1>3, <1>5, Zenon DEF x, u
<1>7. Head(t) \in Range(s \o t)
    <2>1. Len(s) + 1 \in DOMAIN (s \o t) /\ (s \o t)[Len(s) + 1] = t[1]
        BY <1>1
    <2> QED
        BY <1>1, <2>1 DEF Range
<1> QED
    BY <1>1, <1>6, <1>7

\* What is behind the disk when a name is put on the path or taken off.
LEMMA BehindOf ==
    ASSUME NEW S, NEW s \in Seq(S), Len(s) > 0
    PROVE  /\ Tail(s) \in Seq(S) /\ Len(Tail(s)) = Len(s) - 1
           /\ \A x \in S : Tail(Append(s, x)) = Append(Tail(s), x)
           /\ Len(s) > 1 => Tail(Front(s)) = Front(Tail(s))
<1>1. /\ Tail(s) \in Seq(S) /\ Len(Tail(s)) = Len(s) - 1 /\ s # <<>>
      /\ \A n \in 1 .. Len(s) - 1 : Tail(s)[n] = s[n + 1]
    OBVIOUS
<1>2. \A x \in S : Tail(Append(s, x)) = Append(Tail(s), x)
    BY <1>1, HeadTailAppend
<1>3. ASSUME Len(s) > 1 PROVE Tail(Front(s)) = Front(Tail(s))
    <2> DEFINE a == Front(s)
               b == Tail(s)
               l == Tail(a)
               r == Front(b)
    <2>1. /\ a \in Seq(S) /\ Len(a) = Len(s) - 1 /\ Len(a) > 0
          /\ \A n \in 1 .. Len(s) - 1 : a[n] = s[n]
        BY <1>3 DEF Front
    <2>2. b \in Seq(S) /\ Len(b) = Len(s) - 1
          /\ \A n \in 1 .. Len(s) - 1 : b[n] = s[n + 1]
        BY <1>1
    <2> HIDE DEF a, b
    <2>3. /\ l \in Seq(S) /\ Len(l) = Len(s) - 2
          /\ \A n \in 1 .. Len(s) - 2 : l[n] = a[n + 1]
        BY <1>3, <2>1
    <2>4. /\ r \in Seq(S) /\ Len(r) = Len(s) - 2
          /\ \A n \in 1 .. Len(s) - 2 : r[n] = b[n]
        BY <1>3, <2>2 DEF Front
    <2> HIDE DEF l, r
    <2>5. ASSUME NEW n \in 1 .. Len(l) PROVE l[n] = r[n]
        <3>1. n \in 1 .. Len(s) - 2
            BY <2>3
        <3>2. n \in 1 .. Len(s) - 1 /\ n + 1 \in 1 .. Len(s) - 1
            BY <3>1
        <3>3. l[n] = a[n + 1] /\ r[n] = b[n]
            BY <2>3, <2>4, <3>1
        <3>4. a[n + 1] = s[n + 1] /\ b[n] = s[n + 1]
            BY <2>1, <2>2, <3>2
        <3> QED
            BY <3>3, <3>4
    <2>6. l = r
        BY <2>3, <2>4, <2>5, SeqEqual
    <2> QED
        BY <2>6 DEF l, r, a, b
<1> QED
    BY <1>1, <1>2, <1>3

LEMMA ConcatAppend ==
    ASSUME NEW s \in Seq(Node), NEW t \in Seq(Node), NEW x \in Node
    PROVE  Append(s \o t, x) = s \o Append(t, x)
<1> DEFINE u == <<x>>
<1>1. u \in Seq(Node) /\ s \o t \in Seq(Node)
    OBVIOUS
<1>2. Append(s \o t, x) = (s \o t) \o u /\ Append(t, x) = t \o u
    BY <1>1, AppendIsConcat
<1> HIDE DEF u
<1>3. (s \o t) \o u = s \o (t \o u)
    BY <1>1, ConcatAssociative
<1> QED
    BY <1>2, <1>3, Zenon

LEMMA FrontOfAppend ==
    ASSUME NEW S, NEW s \in Seq(S), NEW x \in S
    PROVE  Front(Append(s, x)) = s
<1> DEFINE f == Front(Append(s, x))
<1>1. f \in Seq(S) /\ Len(f) = Len(s) /\ \A n \in 1 .. Len(s) : f[n] = s[n]
    BY DEF Front
<1> HIDE DEF f
<1>2. f = s
    BY <1>1, SeqEqual
<1> QED
    BY <1>2 DEF f

LEMMA FrontAndLast ==
    ASSUME NEW S, NEW s \in Seq(S), s # <<>>
    PROVE  /\ Front(s) \in Seq(S) /\ s[Len(s)] \in S
           /\ s = Append(Front(s), s[Len(s)])
<1>1. PICK r \in Seq(S), x \in S : s = Append(r, x)
    BY SequenceEmptyOrAppend
<1>2. Front(s) = r
    BY <1>1, FrontOfAppend
<1>3. s[Len(s)] = x
    BY <1>1
<1> QED
    BY <1>1, <1>2, <1>3

LEMMA ConcatFront ==
    ASSUME NEW s \in Seq(Node), NEW t \in Seq(Node), t # <<>>
    PROVE  Front(s \o t) = s \o Front(t)
<1> DEFINE f == Front(t)
           x == t[Len(t)]
<1>1. f \in Seq(Node) /\ x \in Node /\ t = Append(f, x)
    BY FrontAndLast
<1> HIDE DEF f, x
<1>2. s \o t = Append(s \o f, x)
    BY <1>1, ConcatAppend
<1>3. s \o f \in Seq(Node)
    BY <1>1
<1> DEFINE l == s \o f
<1> HIDE DEF l
<1>4. Front(Append(l, x)) = l
    BY <1>1, <1>3, FrontOfAppend DEF l
<1> QED
    BY <1>2, <1>4 DEF f, l

\* The last name is taken off, and it is no ".".
LEMMA HereFront ==
    ASSUME NEW S, NEW s \in Seq(S), s # <<>>, s[Len(s)] # Dot
    PROVE  WithoutHere(Front(s)) = Front(WithoutHere(s))
<1> DEFINE f == Front(s)
           x == s[Len(s)]
<1>1. f \in Seq(S) /\ x \in S /\ s = Append(f, x) /\ x # Dot
    BY FrontAndLast
<1> HIDE DEF f, x
<1>2. WithoutHere(f) \in Seq(S) /\ WithoutHere(s) = Append(WithoutHere(f), x)
    BY <1>1, HereAppend
<1>3. Front(Append(WithoutHere(f), x)) = WithoutHere(f)
    BY <1>1, <1>2, FrontOfAppend
<1> QED
    BY <1>2, <1>3 DEF f

\* b is behind the disk, j the names of the jail, and s the names that have
\* been read.
Read(b, j, s) ==
    /\ b \in Seq(Name) /\ j \in Seq(Node) /\ s \in Seq(Node)
    /\ WithoutHere(b) = j \o Meaning(WithoutHere(s))

LEMMA ReadTyped ==
    ASSUME NEW s \in Seq(Node)
    PROVE  /\ WithoutHere(s) \in Seq(Node)
           /\ Meaning(WithoutHere(s)) \in Seq(Node)
<1>1. Dot \in Node
    BY NamesAssumption DEF Node, Dot
<1>2. WithoutHere(s) \in Seq(Node)
    BY <1>1, HereAppend
<1> QED
    BY <1>1, <1>2, MeaningAppend

LEMMA NameRead ==
    ASSUME NEW b, NEW j, NEW s, Read(b, j, s), NEW x \in Node, x # DotDot
    PROVE  /\ Read(Append(b, x), j, Append(s, x))
           /\ x # Dot =>
                Len(Meaning(WithoutHere(Append(s, x)))) =
                  Len(Meaning(WithoutHere(s))) + 1
<1> DEFINE w == WithoutHere(s)
           m == Meaning(w)
           c == Append(b, x)
           t == Append(s, x)
<1>1. /\ b \in Seq(Name) /\ j \in Seq(Node) /\ s \in Seq(Node)
      /\ WithoutHere(b) = j \o m /\ x \in Name
    BY DEF Read, Name
<1>2. w \in Seq(Node) /\ m \in Seq(Node)
    BY <1>1, ReadTyped
<1>3. c \in Seq(Name) /\ t \in Seq(Node)
    BY <1>1
<1>4. CASE x = Dot
    <2>1. WithoutHere(c) = WithoutHere(b) /\ WithoutHere(t) = w
        BY <1>1, <1>4, HereAppend
    <2> HIDE DEF c, t, w
    <2>2. Read(c, j, t)
        BY <1>1, <1>3, <2>1 DEF Read
    <2> QED
        BY <1>4, <2>2 DEF c, t
<1>5. CASE x # Dot
    <2>1. WithoutHere(c) = Append(j \o m, x)
        BY <1>1, <1>5, HereAppend, SMTT(30)
    <2>2. WithoutHere(t) = Append(w, x)
        BY <1>1, <1>5, HereAppend
    <2> HIDE DEF c, t, w
    <2>3. Meaning(Append(w, x)) = Append(m, x)
        BY <1>2, MeaningAppend
    <2> HIDE DEF m
    <2>4. Append(j \o m, x) = j \o Append(m, x)
        <3>1. j \in Seq(Node) /\ m \in Seq(Node)
            BY <1>1, <1>2
        <3> QED
            BY <3>1, ConcatAppend, Zenon
    <2>5. Len(Append(m, x)) = Len(m) + 1
        BY <1>2
    <2> QED
        BY <1>1, <1>3, <2>1, <2>2, <2>3, <2>4, <2>5 DEF Read, m, w, c, t
<1> QED
    BY <1>4, <1>5

LEMMA UpRead ==
    ASSUME NEW b, NEW j, NEW s, Read(b, j, s)
    PROVE  LET m == Meaning(WithoutHere(s))
               n == Meaning(WithoutHere(Append(s, DotDot)))
           IN  /\ Len(m) = 0 => Read(b, j, Append(s, DotDot)) /\ Len(n) = 0
               /\ (Len(m) > 0 /\ b # <<>> /\ b[Len(b)] # Dot) =>
                    /\ Read(Front(b), j, Append(s, DotDot))
                    /\ Len(n) = Len(m) - 1
<1> DEFINE w == WithoutHere(s)
           m == Meaning(w)
           t == Append(s, DotDot)
           n == Meaning(WithoutHere(t))
<1>1. /\ b \in Seq(Name) /\ j \in Seq(Node) /\ s \in Seq(Node)
      /\ WithoutHere(b) = j \o m
    BY DEF Read
<1>2. w \in Seq(Node) /\ m \in Seq(Node)
    BY <1>1, ReadTyped
<1>3. DotDot \in Node /\ DotDot # Dot
    BY NamesAssumption DEF DotDot, Node, Dot
<1>4. t \in Seq(Node)
    BY <1>1, <1>3
<1>5. WithoutHere(t) = Append(w, DotDot)
    BY <1>1, <1>3, HereAppend
<1> HIDE DEF t, w
<1>6. /\ m = <<>> => Meaning(Append(w, DotDot)) = <<>>
      /\ m # <<>> => Meaning(Append(w, DotDot)) = Front(m)
    BY <1>2, <1>3, MeaningAppend
<1> HIDE DEF m
<1>7. ASSUME Len(m) = 0 PROVE Read(b, j, t) /\ Len(n) = 0
    <2>1. m = <<>>
        BY <1>2, <1>7
    <2>2. n = m
        BY <1>5, <1>6, <2>1
    <2> QED
        BY <1>1, <1>4, <1>7, <2>2 DEF Read
<1>8. ASSUME Len(m) > 0, b # <<>>, b[Len(b)] # Dot
      PROVE  Read(Front(b), j, t) /\ Len(n) = Len(m) - 1
    <2>1. m # <<>>
        BY <1>8
    <2>2. n = Front(m)
        BY <1>5, <1>6, <2>1
    <2>3. WithoutHere(Front(b)) = Front(j \o m)
        BY <1>1, <1>8, HereFront
    <2>4. Front(j \o m) = j \o Front(m)
        BY <1>1, <1>2, <2>1, ConcatFront
    <2>5. Front(b) \in Seq(Name)
        BY <1>1, <1>8, FrontAndLast
    <2>6. Len(Front(m)) = Len(m) - 1
        <3> DEFINE f == Front(m)
                   x == m[Len(m)]
        <3>1. f \in Seq(Node) /\ x \in Node /\ m = Append(f, x)
            BY <1>2, <2>1, FrontAndLast
        <3> HIDE DEF f, x
        <3>2. Len(f) \in Nat /\ Len(m) = Len(f) + 1
            BY <3>1
        <3>3. Len(f) = Len(m) - 1
            BY <3>2
        <3> QED
            BY <3>3 DEF f
    <2> QED
        BY <1>1, <1>4, <2>2, <2>3, <2>4, <2>5, <2>6 DEF Read
<1> QED
    BY <1>7, <1>8 DEF m, w, t

\* While the path is read, what its names up to here say is behind the jail;
\* if it has a "..", it has no ".", and ".." may take back all of it.
NamesRead ==
    (place = "path" /\ ~HereAndUp) =>
        \E s \in Seq(Node) :
          /\ asked.nodes = s \o todo
          /\ Read(OnPath, WithoutHere(JailNames), s)
          /\ DotDot \in Range(asked.nodes) =>
               /\ path_nodes = Len(Meaning(WithoutHere(s)))
               /\ \A n \in Len(OnPath) - path_nodes + 1 .. Len(OnPath) :
                    OnPath[n] # Dot

NamesMeant ==
    (answer = "path" /\ ~HereAndUp) =>
        WithoutHere(OnPath) =
          WithoutHere(JailNames) \o Meaning(WithoutHere(asked.nodes))

NamesInv == JailRead /\ JailStays /\ NamesRead /\ NamesMeant


LEMMA NamesTyped ==
    ASSUME VTypeOK
    PROVE  /\ vfs_jail \in Seq(Node) /\ Meaning(vfs_jail) \in Seq(Node)
           /\ JailNames \in Seq(Node) /\ WithoutHere(JailNames) \in Seq(Node)
           /\ asked.nodes \in Seq(Node) /\ path \in Seq(Name)
<1>1. vfs_jail \in Seq(Node)
    BY NamesAssumption DEF VTypeOK
<1>2. Dot \in Node
    BY NamesAssumption DEF Node, Dot
<1>3. Meaning(vfs_jail) \in Seq(Node)
    BY <1>1, <1>2, MeaningAppend
<1>4. JailNames \in Seq(Node)
    BY <1>3 DEF JailNames
<1>5. WithoutHere(JailNames) \in Seq(Node)
    BY <1>4, ReadTyped
<1>6. asked.nodes \in Seq(Node) /\ path \in Seq(Name)
    BY DEF VTypeOK, Path, Name
<1> QED
    BY <1>1, <1>3, <1>4, <1>5, <1>6

\* Nothing has been read yet.
LEMMA NoneRead ==
    ASSUME NEW b \in Seq(Name), NEW j \in Seq(Node), WithoutHere(b) = j
    PROVE  Read(b, j, <<>>) /\ Len(Meaning(WithoutHere(<<>>))) = 0
<1>1. Meaning(WithoutHere(<<>>)) = <<>>
    BY HereOfNone, MeaningOfNone
<1>2. j \o <<>> = j
    BY ConcatEmptySeq
<1>3. <<>> \in Seq(Node)
    OBVIOUS
<1> QED
    BY <1>1, <1>2, <1>3 DEF Read

LEMMA FoundRead ==
    ASSUME VInv, NEW d \in Disk \cup {"rootfs"}, Found(d)
    PROVE  NamesInv'
<1>1. /\ path' = <<d>> /\ path_nodes' = 0 /\ answer' = "none"
      /\ place' = IF Jailed THEN "jail" ELSE "path"
      /\ todo' = IF Jailed THEN vfs_jail ELSE asked.nodes
      /\ UNCHANGED <<vfs_root, vfs_jail, asked>>
    BY DEF Found, HasDevice, VInv, DiskFirst
<1>2. OnPath' = <<>>
    BY <1>1 DEF OnPath
<1>3. (Jailed' <=> Jailed)
    BY <1>1 DEF Jailed, Used
<1>4. VTypeOK
    BY DEF VInv
<1>5. <<>> \in Seq(Node) /\ <<>> \in Seq(Name) /\ Len(<<>>) = 0
    OBVIOUS
<1>6. CASE Jailed
    <2>1. vfs_jail = <<>> \o vfs_jail
        BY <1>4, NamesTyped, ConcatEmptySeq
    <2>2. \E s \in Seq(Node) :
            /\ vfs_jail' = s \o todo'
            /\ OnPath' = Meaning(s) /\ path_nodes' = Len(Meaning(s))
        BY <1>1, <1>2, <1>5, <1>6, <2>1, MeaningOfNone
    <2>3. JailRead'
        BY <1>3, <1>6, <2>2 DEF JailRead
    <2> QED
        BY <1>1, <1>6, <2>3
        DEF NamesInv, JailStays, NamesRead, NamesMeant
<1>7. CASE ~Jailed
    <2>1. JailNames' = <<>>
        BY <1>3, <1>7 DEF JailNames
    <2>2. JailStays'
        BY <1>1, <1>2, <1>5, <2>1 DEF JailStays
    <2>3. asked.nodes = <<>> \o asked.nodes
        BY <1>4, NamesTyped, ConcatEmptySeq
    <2>4. Read(OnPath', WithoutHere(JailNames'), <<>>)
          /\ Len(Meaning(WithoutHere(<<>>))) = 0
        BY <1>2, <1>5, <2>1, HereOfNone, NoneRead
    <2>5. NamesRead'
        <3>1. Len(OnPath') = 0
            BY <1>2
        <3>2. \A n \in Len(OnPath') - path_nodes' + 1 .. Len(OnPath') :
                (OnPath')[n] # Dot
            BY <1>1, <3>1
        <3>3. path_nodes' = Len(Meaning(WithoutHere(<<>>)))
            BY <1>1, <2>4
        <3>4. (asked.nodes)' = <<>> \o todo'
            BY <1>1, <1>7, <2>3
        <3> QED
            BY <1>5, <2>4, <3>2, <3>3, <3>4 DEF NamesRead
    <2> QED
        BY <1>1, <1>7, <2>2, <2>5 DEF NamesInv, JailRead, NamesMeant
<1> QED
    BY <1>6, <1>7

LEMMA NameIsRead ==
    ASSUME VInv, NamesInv, AppendName
    PROVE  NamesInv'
<1> DEFINE x == Head(todo)
<1>1. /\ place \in {"jail", "path"} /\ todo # <<>> /\ x # DotDot
      /\ path' = Append(path, x) /\ path_nodes' = path_nodes + 1
      /\ todo' = Tail(todo) /\ answer = "none"
      /\ UNCHANGED <<vfs_root, vfs_jail, asked, place, answer>>
    BY DEF AppendName, Appending, VInv, DiskFirst
<1>2. VTypeOK /\ todo \in Seq(Node) /\ path_nodes \in Nat
    BY DEF VInv, VTypeOK
<1>3. path \in Seq(Name) /\ Len(path) > 0
    BY <1>1, <1>2, NamesTyped DEF VInv, DiskFirst
<1>4. x \in Node /\ x \in Name /\ Tail(todo) \in Seq(Node)
    BY <1>1, <1>2 DEF Name
<1>5. /\ OnPath \in Seq(Name) /\ OnPath' = Append(OnPath, x)
    BY <1>1, <1>3, <1>4, BehindOf DEF OnPath
<1>6. Jailed' = Jailed /\ JailNames' = JailNames /\ HereAndUp' = HereAndUp
    BY <1>1 DEF JailNames, Jailed, Used, HereAndUp
<1> HIDE DEF x
<1> DEFINE B == OnPath
           C == OnPath'
<1>7. /\ Len(C) = Len(B) + 1 /\ Len(B) \in Nat /\ C[Len(B) + 1] = x
      /\ \A n \in 1 .. Len(B) : C[n] = B[n]
    BY <1>4, <1>5
<1> HIDE DEF B, C
<1>8. CASE place = "jail"
    <2>1. PICK s \in Seq(Node) :
            /\ vfs_jail = s \o todo
            /\ OnPath = Meaning(s) /\ path_nodes = Len(Meaning(s))
        BY <1>8 DEF NamesInv, JailRead
    <2> DEFINE t == Append(s, x)
    <2>2. t \in Seq(Node) /\ vfs_jail = t \o Tail(todo)
        BY <1>1, <1>2, <2>1, ReadOne DEF x, t
    <2>3. Meaning(t) = Append(Meaning(s), x)
        BY <1>1, <1>4, MeaningAppend
    <2> HIDE DEF t
    <2>4. OnPath' = Meaning(t) /\ path_nodes' = Len(Meaning(t))
        BY <1>1, <1>5, <1>7, <2>1, <2>3 DEF B, C
    <2>5. JailRead'
        BY <1>1, <1>6, <1>8, <2>2, <2>4 DEF NamesInv, JailRead
    <2> QED
        BY <1>1, <1>8, <2>5 DEF NamesInv, JailStays, NamesRead, NamesMeant
<1>9. CASE place = "path"
    <2> DEFINE J == JailNames
    <2>1. J \in Seq(Node) /\ Len(J) \in Nat
        BY <1>2, NamesTyped
    <2>2. /\ Len(J) + path_nodes <= Len(B)
          /\ \A n \in 1 .. Len(J) : B[n] = J[n]
        BY <1>9 DEF NamesInv, JailStays, B
    <2> HIDE DEF J
    <2>3. /\ Len(J) + path_nodes' <= Len(C)
          /\ \A n \in 1 .. Len(J) : C[n] = J[n]
        BY <1>1, <1>2, <1>7, <2>1, <2>2
    <2>4. JailStays'
        BY <1>1, <1>6, <1>9, <2>3 DEF JailStays, C, J
    <2>5. ASSUME ~HereAndUp PROVE NamesRead'
        <3>1. PICK s \in Seq(Node) :
                /\ asked.nodes = s \o todo
                /\ Read(OnPath, WithoutHere(J), s)
                /\ DotDot \in Range(asked.nodes) =>
                     /\ path_nodes = Len(Meaning(WithoutHere(s)))
                     /\ \A n \in Len(B) - path_nodes + 1 .. Len(B) :
                          B[n] # Dot
            BY <1>9, <2>5 DEF NamesInv, NamesRead, B, J
        <3> DEFINE t == Append(s, x)
        <3>2. /\ t \in Seq(Node) /\ asked.nodes = t \o Tail(todo)
              /\ x \in Range(asked.nodes)
            <4>1. /\ t \in Seq(Node) /\ s \o todo = t \o Tail(todo)
                  /\ x \in Range(s \o todo)
                BY <1>1, <1>2, ReadOne DEF x, t
            <4> HIDE DEF t
            <4> QED
                BY <3>1, <4>1
        <3>3. /\ Read(OnPath', WithoutHere(J), t)
              /\ x # Dot => Len(Meaning(WithoutHere(t))) =
                              Len(Meaning(WithoutHere(s))) + 1
            BY <1>1, <1>4, <1>5, <3>1, NameRead
        <3> HIDE DEF t
        <3>4. ASSUME DotDot \in Range(asked.nodes)
              PROVE  /\ path_nodes' = Len(Meaning(WithoutHere(t)))
                     /\ \A n \in Len(C) - path_nodes' + 1 .. Len(C) :
                          C[n] # Dot
            <4>1. x # Dot
                BY <2>5, <3>2, <3>4 DEF HereAndUp
            <4>2. path_nodes' = Len(Meaning(WithoutHere(t)))
                BY <1>1, <3>1, <3>3, <3>4, <4>1
            <4>3. ASSUME NEW n \in Len(C) - path_nodes' + 1 .. Len(C)
                  PROVE  C[n] # Dot
                <5>1. CASE n = Len(B) + 1
                    BY <1>7, <4>1, <5>1
                <5>2. CASE n # Len(B) + 1
                    <6>1. /\ n \in Len(B) - path_nodes + 1 .. Len(B)
                          /\ n \in 1 .. Len(B)
                        BY <1>1, <1>2, <1>7, <2>1, <2>2, <5>2
                    <6>2. B[n] # Dot
                        BY <3>1, <3>4, <6>1
                    <6> QED
                        BY <1>7, <6>1, <6>2
                <5> QED
                    BY <5>1, <5>2
            <4> QED
                BY <4>2, <4>3
        <3> QED
            BY <1>1, <1>6, <3>2, <3>3, <3>4 DEF NamesRead, C, J
    <2>6. NamesRead'
        BY <1>6, <2>5 DEF NamesRead
    <2> QED
        BY <1>1, <1>9, <2>4, <2>6 DEF NamesInv, JailRead, NamesMeant
<1> QED
    BY <1>1, <1>8, <1>9

LEMMA UpIsRead ==
    ASSUME VInv, NamesInv, AppendUp
    PROVE  NamesInv'
<1> DEFINE x == Head(todo)
<1>1. /\ place \in {"jail", "path"} /\ todo # <<>> /\ x = DotDot
      /\ path_nodes > 0 =>
           path' = Front(path) /\ path_nodes' = path_nodes - 1
      /\ ~(path_nodes > 0) => path' = path /\ path_nodes' = path_nodes
      /\ todo' = Tail(todo) /\ answer = "none"
      /\ UNCHANGED <<vfs_root, vfs_jail, asked, place, answer>>
    BY DEF AppendUp, Appending, VInv, DiskFirst
<1>2. VTypeOK /\ todo \in Seq(Node) /\ path_nodes \in Nat
    BY DEF VInv, VTypeOK
<1>3. path \in Seq(Name) /\ Len(path) > path_nodes
    BY <1>1, <1>2, NamesTyped DEF VInv, DiskFirst
<1>4. DotDot \in Node
    BY NamesAssumption DEF Node, DotDot
<1>5. /\ OnPath \in Seq(Name) /\ Len(OnPath) = Len(path) - 1
      /\ path_nodes > 0 => OnPath' = Front(OnPath)
      /\ ~(path_nodes > 0) => OnPath' = OnPath
    <2>1. Len(path) > 0 /\ (path_nodes > 0 => Len(path) > 1)
        BY <1>2, <1>3
    <2> QED
        BY <1>1, <1>3, <2>1, BehindOf DEF OnPath
<1>6. Jailed' = Jailed /\ JailNames' = JailNames /\ HereAndUp' = HereAndUp
    BY <1>1 DEF JailNames, Jailed, Used, HereAndUp
<1> HIDE DEF x
<1> DEFINE B == OnPath
           C == OnPath'
<1>7. Len(B) \in Nat /\ Len(B) >= path_nodes
    BY <1>2, <1>3, <1>5
<1>8. path_nodes > 0 =>
        /\ Len(C) = Len(B) - 1
        /\ \A n \in 1 .. Len(B) - 1 : C[n] = B[n]
    BY <1>2, <1>5, <1>7 DEF Front
<1> HIDE DEF B, C
<1>9. CASE place = "jail"
    <2>1. PICK s \in Seq(Node) :
            /\ vfs_jail = s \o todo
            /\ OnPath = Meaning(s) /\ path_nodes = Len(Meaning(s))
        BY <1>9 DEF NamesInv, JailRead
    <2> DEFINE t == Append(s, x)
               m == Meaning(s)
    <2>2. t \in Seq(Node) /\ vfs_jail = t \o Tail(todo)
        BY <1>1, <1>2, <2>1, ReadOne DEF x, t
    <2>3. /\ m \in Seq(Node)
          /\ m = <<>> => Meaning(t) = <<>>
          /\ m # <<>> => Meaning(t) = Front(m)
        BY <1>1, <1>4, MeaningAppend
    <2> HIDE DEF t
    <2>4. OnPath' = Meaning(t) /\ path_nodes' = Len(Meaning(t))
        <3>1. CASE path_nodes > 0
            <4>1. m # <<>>
                BY <2>1, <3>1
            <4> QED
                BY <1>1, <1>5, <1>8, <2>1, <2>3, <3>1, <4>1 DEF B, C
        <3>2. CASE ~(path_nodes > 0)
            <4>1. m = <<>>
                BY <1>2, <2>1, <2>3, <3>2
            <4> QED
                BY <1>1, <1>5, <2>1, <2>3, <3>2, <4>1
        <3> QED
            BY <3>1, <3>2
    <2>5. JailRead'
        BY <1>1, <1>6, <1>9, <2>2, <2>4 DEF NamesInv, JailRead
    <2> QED
        BY <1>1, <1>9, <2>5 DEF NamesInv, JailStays, NamesRead, NamesMeant
<1>10. CASE place = "path"
    <2> DEFINE J == JailNames
    <2>1. J \in Seq(Node) /\ Len(J) \in Nat
        BY <1>2, NamesTyped
    <2>2. /\ Len(J) + path_nodes <= Len(B)
          /\ \A n \in 1 .. Len(J) : B[n] = J[n]
        BY <1>10 DEF NamesInv, JailStays, B
    <2> HIDE DEF J
    <2>3. /\ Len(J) + path_nodes' <= Len(C)
          /\ \A n \in 1 .. Len(J) : C[n] = J[n]
        <3>1. CASE path_nodes > 0
            <4>1. \A n \in 1 .. Len(J) : n \in 1 .. Len(B) - 1
                BY <1>2, <1>7, <2>1, <2>2, <3>1
            <4> QED
                BY <1>1, <1>2, <1>7, <1>8, <2>1, <2>2, <3>1, <4>1
        <3>2. CASE ~(path_nodes > 0)
            BY <1>1, <1>5, <2>2, <3>2 DEF B, C
        <3> QED
            BY <3>1, <3>2
    <2>4. JailStays'
        BY <1>1, <1>6, <1>10, <2>3 DEF JailStays, C, J
    <2>5. ASSUME ~HereAndUp PROVE NamesRead'
        <3>1. PICK s \in Seq(Node) :
                /\ asked.nodes = s \o todo
                /\ Read(OnPath, WithoutHere(J), s)
                /\ DotDot \in Range(asked.nodes) =>
                     /\ path_nodes = Len(Meaning(WithoutHere(s)))
                     /\ \A n \in Len(B) - path_nodes + 1 .. Len(B) :
                          B[n] # Dot
            BY <1>10, <2>5 DEF NamesInv, NamesRead, B, J
        <3> DEFINE t == Append(s, DotDot)
                   m == Meaning(WithoutHere(s))
                   o == Meaning(WithoutHere(t))
        <3>2. /\ t \in Seq(Node) /\ asked.nodes = t \o Tail(todo)
              /\ DotDot \in Range(asked.nodes)
            <4>1. /\ t \in Seq(Node) /\ s \o todo = t \o Tail(todo)
                  /\ DotDot \in Range(s \o todo)
                BY <1>1, <1>2, ReadOne DEF x, t
            <4> HIDE DEF t
            <4> QED
                BY <3>1, <4>1
        <3>3. /\ path_nodes = Len(m)
              /\ \A n \in Len(B) - path_nodes + 1 .. Len(B) : B[n] # Dot
            BY <3>1, <3>2
        <3>4. /\ Len(m) = 0 => Read(OnPath, WithoutHere(J), t) /\ Len(o) = 0
              /\ (Len(m) > 0 /\ OnPath # <<>> /\ OnPath[Len(OnPath)] # Dot) =>
                   /\ Read(Front(OnPath), WithoutHere(J), t)
                   /\ Len(o) = Len(m) - 1
            BY <3>1, UpRead
        <3> HIDE DEF t, m, o
        <3>5. Read(OnPath', WithoutHere(J), t) /\ path_nodes' = Len(o)
            <4>1. CASE path_nodes > 0
                <5>1. /\ Len(B) \in Len(B) - path_nodes + 1 .. Len(B)
                      /\ Len(B) > 0
                    BY <1>2, <1>7, <4>1
                <5>2. OnPath # <<>> /\ OnPath[Len(OnPath)] # Dot
                    BY <3>3, <5>1 DEF B
                <5> QED
                    BY <1>1, <1>5, <3>3, <3>4, <4>1, <5>2
            <4>2. CASE ~(path_nodes > 0)
                BY <1>1, <1>2, <1>5, <3>3, <3>4, <4>2
            <4> QED
                BY <4>1, <4>2
        <3>6. \A n \in Len(C) - path_nodes' + 1 .. Len(C) : C[n] # Dot
            <4>1. CASE path_nodes > 0
                <5> SUFFICES
                      ASSUME NEW n \in Len(C) - path_nodes' + 1 .. Len(C)
                      PROVE  C[n] # Dot
                    OBVIOUS
                <5>1. /\ n \in Len(B) - path_nodes + 1 .. Len(B)
                      /\ n \in 1 .. Len(B) - 1
                    BY <1>1, <1>2, <1>7, <1>8, <4>1
                <5> QED
                    BY <1>8, <3>3, <4>1, <5>1
            <4>2. CASE ~(path_nodes > 0)
                BY <1>1, <1>5, <3>3, <4>2 DEF B, C
            <4> QED
                BY <4>1, <4>2
        <3> QED
            BY <1>1, <1>6, <3>2, <3>5, <3>6 DEF NamesRead, C, J, o
    <2>6. NamesRead'
        BY <1>6, <2>5 DEF NamesRead
    <2> QED
        BY <1>1, <1>10, <2>4, <2>6 DEF NamesInv, JailRead, NamesMeant
<1> QED
    BY <1>1, <1>9, <1>10

LEMMA JailIsRead ==
    ASSUME VInv, NamesInv, JailEnds
    PROVE  NamesInv'
<1>1. /\ place = "jail" /\ todo = <<>> /\ place' = "path"
      /\ todo' = asked.nodes /\ path_nodes' = 0 /\ answer' = "none"
      /\ UNCHANGED <<vfs_root, vfs_jail, asked, path>>
    BY DEF JailEnds, VInv, DiskFirst
<1>2. VTypeOK
    BY DEF VInv
<1>3. PICK s \in Seq(Node) : vfs_jail = s \o todo /\ OnPath = Meaning(s)
    BY <1>1 DEF NamesInv, JailRead
<1>4. vfs_jail = s
    BY <1>1, <1>3, ConcatEmptySeq
<1>5. Jailed /\ JailNames = OnPath
    BY <1>1, <1>3, <1>4 DEF NamesInv, JailRead, JailNames
<1>6. /\ OnPath' = OnPath /\ JailNames' = JailNames
      /\ HereAndUp' = HereAndUp
    BY <1>1 DEF OnPath, JailNames, Jailed, Used, HereAndUp
<1>7. /\ JailNames \in Seq(Node) /\ OnPath \in Seq(Name)
      /\ WithoutHere(JailNames) \in Seq(Node)
    BY <1>2, <1>5, NamesTyped, SeqMonotonic DEF Name
<1>8. JailStays'
    <2>1. Len(OnPath) \in Nat
        BY <1>7
    <2> QED
        BY <1>1, <1>5, <1>6, <2>1 DEF JailStays
<1>9. NamesRead'
    <2>1. asked.nodes = <<>> \o asked.nodes /\ <<>> \in Seq(Node)
        BY <1>2, NamesTyped, ConcatEmptySeq
    <2>2. Read(OnPath, WithoutHere(JailNames), <<>>)
          /\ Len(Meaning(WithoutHere(<<>>))) = 0
        BY <1>5, <1>7, NoneRead
    <2>3. \A n \in Len(OnPath) - path_nodes' + 1 .. Len(OnPath) :
            OnPath[n] # Dot
        <3>1. Len(OnPath) \in Nat
            BY <1>7
        <3> QED
            BY <1>1, <3>1
    <2> QED
        BY <1>1, <1>6, <2>1, <2>2, <2>3 DEF NamesRead
<1> QED
    BY <1>1, <1>8, <1>9 DEF NamesInv, JailRead, NamesMeant

LEMMA AllIsRead ==
    ASSUME VInv, NamesInv, Translated
    PROVE  NamesInv'
<1>1. /\ place = "path" /\ todo = <<>> /\ place' = "idle" /\ answer' = "path"
      /\ UNCHANGED <<vfs_root, vfs_jail, asked, path>>
    BY DEF Translated, Return
<1>2. VTypeOK /\ path_nodes \in Nat
    BY DEF VInv, VTypeOK
<1>3. /\ OnPath' = OnPath /\ JailNames' = JailNames
      /\ HereAndUp' = HereAndUp
    BY <1>1 DEF OnPath, JailNames, Jailed, Used, HereAndUp
<1>4. JailNames \in Seq(Node) /\ path \in Seq(Name) /\ Len(path) > 0
    BY <1>1, <1>2, NamesTyped DEF VInv, DiskFirst
<1>5. JailStays'
    <2>1. Len(JailNames) \in Nat /\ Len(OnPath) \in Nat
        BY <1>4 DEF OnPath
    <2>2. Len(JailNames) + path_nodes <= Len(OnPath)
          /\ \A n \in 1 .. Len(JailNames) : OnPath[n] = JailNames[n]
        BY <1>1 DEF NamesInv, JailStays
    <2> QED
        BY <1>1, <1>2, <1>3, <2>1, <2>2 DEF JailStays
<1>6. ASSUME ~HereAndUp
      PROVE  WithoutHere(OnPath) =
               WithoutHere(JailNames) \o Meaning(WithoutHere(asked.nodes))
    <2>1. PICK s \in Seq(Node) :
            /\ asked.nodes = s \o todo
            /\ Read(OnPath, WithoutHere(JailNames), s)
        BY <1>1, <1>6 DEF NamesInv, NamesRead
    <2>2. asked.nodes = s
        BY <1>1, <2>1, ConcatEmptySeq
    <2> QED
        BY <2>1, <2>2 DEF Read
<1>7. NamesMeant'
    BY <1>1, <1>3, <1>6 DEF NamesMeant
<1> QED
    BY <1>1, <1>5, <1>7 DEF NamesInv, JailRead, NamesRead

LEMMA NamesKept ==
    ASSUME VInv, NamesInv, [VNext]_vvars
    PROVE  NamesInv'
<1> DEFINE Quiet == /\ place' \notin {"jail", "path"} /\ answer' # "path"
<1>1. Quiet => NamesInv'
    BY DEF NamesInv, JailRead, JailStays, NamesRead, NamesMeant
<1>2. ASSUME NEW d \in Device, SetRoot(d)
      PROVE  NamesInv'
    BY <1>1, <1>2 DEF SetRoot
<1>3. ASSUME NEW j \in Jails, SetJail(j)
      PROVE  NamesInv'
    BY <1>1, <1>3 DEF SetJail
<1>4. ASSUME NEW p \in Path, Translate(p)
      PROVE  NamesInv'
    BY <1>1, <1>4 DEF Translate
<1>5. CASE Refuse
    BY <1>1, <1>5 DEF Refuse, Return
<1>6. CASE Raw
    BY <1>1, <1>6 DEF Raw, Return
<1>7. CASE NotFound
    BY <1>1, <1>7 DEF NotFound, Return
<1>8. ASSUME NEW d \in Disk \cup {"rootfs"}, Found(d)
      PROVE  NamesInv'
    BY <1>8, FoundRead
<1>9. CASE AppendName
    BY <1>9, NameIsRead
<1>10. CASE AppendUp
    BY <1>10, UpIsRead
<1>11. CASE JailEnds
    BY <1>11, JailIsRead
<1>12. CASE Translated
    BY <1>12, AllIsRead
<1>13. CASE UNCHANGED vvars
    BY <1>13
    DEF vvars, call, NamesInv, JailRead, JailStays, NamesRead, NamesMeant,
        JailNames, Jailed, Used, HereAndUp, OnPath
<1> HIDE DEF Quiet
<1> QED
    BY <1>2, <1>3, <1>4, <1>5, <1>6, <1>7, <1>8, <1>9, <1>10, <1>11, <1>12,
        <1>13 DEF VNext, VStep

LEMMA NamesHold == VSpec => [](VInv /\ NamesInv)
<1>1. VInit => NamesInv
    BY DEF VInit, NamesInv, JailRead, JailStays, NamesRead, NamesMeant
<1>2. VInv /\ NamesInv /\ [VNext]_vvars => NamesInv'
    BY NamesKept
<1> QED
    BY <1>1, <1>2, VInvHolds, PTL DEF VSpec

\* No path leaves its jail: whatever names and ".." are asked for, what the
\* jail says stays where it was put, right behind the disk.
THEOREM PathsStayInJail == VSpec => []InJail
<1>1. VInv /\ NamesInv => InJail
    <2> SUFFICES ASSUME VInv, NamesInv, place = "path" \/ answer = "path",
                        Jailed
                 PROVE  IsPrefix(<<path[1]>> \o Meaning(vfs_jail), path)
        BY DEF InJail
    <2> DEFINE m == Meaning(vfs_jail)
               p == <<path[1]>> \o m
    <2>1. JailNames = m /\ m \in Seq(Node) /\ path \in Seq(Name)
        BY NamesTyped DEF VInv, JailNames
    <2>2. path # <<>>
        BY <2>1 DEF VInv, VTypeOK, DiskFirst, OnItsDisk
    <2>3. /\ Len(m) <= Len(path) - 1 /\ Len(m) \in Nat /\ Len(path) \in Nat
          /\ \A n \in 1 .. Len(m) : path[n + 1] = m[n]
        <3>1. /\ Len(OnPath) = Len(path) - 1
              /\ \A n \in 1 .. Len(path) - 1 : OnPath[n] = path[n + 1]
            BY <2>1, <2>2 DEF OnPath
        <3>2. /\ Len(m) + (IF place = "path" THEN path_nodes ELSE 0)
                   <= Len(OnPath)
              /\ \A n \in 1 .. Len(m) : OnPath[n] = m[n]
            BY <2>1 DEF NamesInv, JailStays
        <3>3. path_nodes \in Nat /\ Len(m) \in Nat /\ Len(path) \in Nat
            BY <2>1 DEF VInv, VTypeOK
        <3> HIDE DEF m
        <3>4. Len(m) <= Len(path) - 1
            BY <3>1, <3>2, <3>3
        <3>5. \A n \in 1 .. Len(m) : n \in 1 .. Len(path) - 1
            BY <3>3, <3>4
        <3> QED
            BY <3>1, <3>2, <3>3, <3>4, <3>5
    <2> HIDE DEF m
    <2>4. /\ p \in Seq(Name) /\ Len(p) = Len(m) + 1 /\ p[1] = path[1]
          /\ \A n \in 1 .. Len(m) : p[n + 1] = m[n]
        <3>1. m \in Seq(Name) /\ <<path[1]>> \in Seq(Name)
            BY <2>1, <2>2, SeqMonotonic DEF Name
        <3> QED
            BY <3>1
    <2> HIDE DEF p
    <2>5. \A n \in 1 .. Len(p) : p[n] = path[n]
        <3> SUFFICES ASSUME NEW n \in 1 .. Len(p) PROVE p[n] = path[n]
            OBVIOUS
        <3>1. CASE n = 1
            BY <2>4, <3>1
        <3>2. CASE n # 1
            <4>1. n - 1 \in 1 .. Len(m) /\ n - 1 + 1 = n
                BY <2>3, <2>4, <3>2
            <4> QED
                BY <2>3, <2>4, <4>1
        <3> QED
            BY <3>1, <3>2
    <2>6. Len(p) <= Len(path)
        BY <2>3, <2>4
    <2> DEFINE a == SubSeq(p, 1, Len(p))
               b == SubSeq(path, 1, Len(p))
    <2>7. /\ a \in Seq(Name) /\ Len(a) = Len(p)
          /\ \A n \in 1 .. Len(p) : a[n] = p[n]
        BY <2>4
    <2>8. /\ b \in Seq(Name) /\ Len(b) = Len(p)
          /\ \A n \in 1 .. Len(p) : b[n] = path[n]
        BY <2>1, <2>3, <2>4, <2>6
    <2> HIDE DEF a, b
    <2>9. a = b
        BY <2>5, <2>7, <2>8, SeqEqual
    <2> QED
        BY <2>6, <2>9 DEF IsPrefix, a, b, p, m
<1> QED
    BY <1>1, NamesHold, PTL

\* A path means what its names say, below what the names of its jail say,
\* however long the two are and however ".." and names alternate in them.
THEOREM PathsMean == VSpec => []PathMeans
<1>1. VInv /\ NamesInv => PathMeans
    BY DEF VInv, NamesInv, NamesMeant, PathMeans, HereAndUp, JailNames,
           OnPath
<1> QED
    BY <1>1, NamesHold, PTL

-----------------------------------------------------------------------------
(***************************************************************************)
(* Patterns (Glob).                                                        *)
(***************************************************************************)
\* Character i of e may stand for what lies between a and b in s.
Goes(s, e, i, a, b) ==
    IF e[i] = "*" THEN a <= b ELSE b = a + 1 /\ Fits(s[b], e[i])

\* Character i of e ends at c[i], for those from q to n.
Ends(s, e, q, n, c) ==
    /\ c \in [q .. n -> 0 .. Len(s)]
    /\ \A i \in q + 1 .. n : Goes(s, e, i, c[i - 1], c[i])

\* What is between q and n in e may stand for what is between p and m in s.
Way(s, e, q, p, n, m) ==
    \E c : Ends(s, e, q, n, c) /\ c[q] = p /\ c[n] = m

LEMMA WayOfNone ==
    ASSUME NEW s, NEW e, NEW q \in Nat, NEW p \in 0 .. Len(s),
           NEW m \in 0 .. Len(s), Len(s) \in Nat
    PROVE  Way(s, e, q, p, q, m) <=> p = m
<1>1. ASSUME p = m PROVE Way(s, e, q, p, q, m)
    <2> DEFINE c == [i \in q .. q |-> p]
    <2>1. Ends(s, e, q, q, c) /\ c[q] = p
        BY DEF Ends
    <2> HIDE DEF c
    <2> QED
        BY <1>1, <2>1 DEF Way
<1> QED
    BY <1>1 DEF Way

LEMMA WayOfOne ==
    ASSUME NEW s, NEW e, Len(s) \in Nat, NEW q \in Nat,
           NEW p \in 0 .. Len(s), NEW m \in 0 .. Len(s),
           Goes(s, e, q + 1, p, m)
    PROVE  Way(s, e, q, p, q + 1, m)
<1> DEFINE c == [i \in q .. q + 1 |-> IF i = q THEN p ELSE m]
<1>1. c \in [q .. q + 1 -> 0 .. Len(s)] /\ c[q] = p /\ c[q + 1] = m
    OBVIOUS
<1> HIDE DEF c
<1>2. \A i \in q + 1 .. q + 1 : i = q + 1 /\ i - 1 = q
    OBVIOUS
<1>3. Ends(s, e, q, q + 1, c)
    BY <1>1, <1>2 DEF Ends
<1> QED
    BY <1>1, <1>3 DEF Way

LEMMA WayJoined ==
    ASSUME NEW s, NEW e, Len(s) \in Nat,
           NEW q \in Nat, NEW r \in Nat, NEW n \in Nat, q <= r, r <= n,
           NEW p, NEW k, NEW m,
           Way(s, e, q, p, r, k), Way(s, e, r, k, n, m)
    PROVE  Way(s, e, q, p, n, m)
<1>1. PICK c : Ends(s, e, q, r, c) /\ c[q] = p /\ c[r] = k
    BY DEF Way
<1>2. PICK d : Ends(s, e, r, n, d) /\ d[r] = k /\ d[n] = m
    BY DEF Way
<1> DEFINE f == [i \in q .. n |-> IF i <= r THEN c[i] ELSE d[i]]
<1>3. f \in [q .. n -> 0 .. Len(s)]
    BY <1>1, <1>2 DEF Ends
<1>4. /\ \A i \in q .. r : f[i] = c[i]
      /\ \A i \in r .. n : f[i] = d[i]
    BY <1>1, <1>2
<1> HIDE DEF f
<1>5. ASSUME NEW i \in q + 1 .. n
      PROVE  Goes(s, e, i, f[i - 1], f[i])
    <2>1. CASE i <= r
        <3>1. i - 1 \in q .. r /\ i \in q .. r /\ i \in q + 1 .. r
            BY <2>1
        <3> QED
            BY <1>1, <1>4, <3>1 DEF Ends
    <2>2. CASE ~(i <= r)
        <3>1. i - 1 \in r .. n /\ i \in r .. n /\ i \in r + 1 .. n
            BY <2>2
        <3> QED
            BY <1>2, <1>4, <3>1 DEF Ends
    <2> QED
        BY <2>1, <2>2
<1>6. f[q] = p /\ f[n] = m
    <2>1. q \in q .. r /\ n \in r .. n
        OBVIOUS
    <2> QED
        BY <1>1, <1>2, <1>4, <2>1
<1> QED
    BY <1>3, <1>5, <1>6 DEF Ends, Way

LEMMA WayCut ==
    ASSUME NEW s, NEW e, Len(s) \in Nat,
           NEW q \in Nat, NEW r \in Nat, NEW n \in Nat, q <= r, r <= n,
           NEW p, NEW m, Way(s, e, q, p, n, m)
    PROVE  \E k \in 0 .. Len(s) :
             Way(s, e, q, p, r, k) /\ Way(s, e, r, k, n, m)
<1>1. PICK c : Ends(s, e, q, n, c) /\ c[q] = p /\ c[n] = m
    BY DEF Way
<1> DEFINE a == [i \in q .. r |-> c[i]]
           b == [i \in r .. n |-> c[i]]
<1>2. a \in [q .. r -> 0 .. Len(s)] /\ \A i \in q .. r : a[i] = c[i]
    BY <1>1 DEF Ends
<1>3. b \in [r .. n -> 0 .. Len(s)] /\ \A i \in r .. n : b[i] = c[i]
    BY <1>1 DEF Ends
<1> HIDE DEF a, b
<1>4. \A i \in q + 1 .. r : i \in q .. r /\ i - 1 \in q .. r
                              /\ i \in q + 1 .. n
    OBVIOUS
<1>5. \A i \in r + 1 .. n : i \in r .. n /\ i - 1 \in r .. n
                              /\ i \in q + 1 .. n
    OBVIOUS
<1>6. Ends(s, e, q, r, a)
    BY <1>1, <1>2, <1>4 DEF Ends
<1>7. Ends(s, e, r, n, b)
    BY <1>1, <1>3, <1>5 DEF Ends
<1>8. /\ q \in q .. r /\ r \in q .. r /\ r \in r .. n /\ n \in r .. n
      /\ r \in q .. n
    OBVIOUS
<1>9. c[r] \in 0 .. Len(s)
    BY <1>1, <1>8 DEF Ends
<1> QED
    BY <1>1, <1>2, <1>3, <1>6, <1>7, <1>8, <1>9 DEF Way

LEMMA WayForward ==
    ASSUME NEW s, NEW e, Len(s) \in Nat, NEW q \in Nat, NEW n \in Nat, q <= n,
           NEW p, NEW m, Way(s, e, q, p, n, m)
    PROVE  p \in 0 .. Len(s) /\ m \in 0 .. Len(s) /\ p <= m
<1>1. PICK c : Ends(s, e, q, n, c) /\ c[q] = p /\ c[n] = m
    BY DEF Way
<1>2. \A i \in q .. n : c[i] \in 0 .. Len(s)
    BY <1>1 DEF Ends
<1> DEFINE T == {d \in Nat : q + d <= n => c[q] <= c[q + d]}
<1>3. 0 \in T
    BY <1>2
<1>4. ASSUME NEW d \in Nat, d \in T, q + (d + 1) <= n
      PROVE  c[q] <= c[q + (d + 1)]
    <2>1. /\ q + (d + 1) \in q + 1 .. n /\ q + (d + 1) - 1 = q + d
          /\ q + d \in q .. n /\ q + (d + 1) \in q .. n /\ q \in q .. n
        BY <1>4
    <2>2. c[q] <= c[q + d]
        BY <1>4
    <2>3. Goes(s, e, q + (d + 1), c[q + d], c[q + (d + 1)])
        BY <1>1, <2>1 DEF Ends
    <2>4. c[q + d] <= c[q + (d + 1)]
        BY <1>2, <2>1, <2>3 DEF Goes
    <2> QED
        BY <1>2, <2>1, <2>2, <2>4
<1>5. \A d \in Nat : d \in T => d + 1 \in T
    BY <1>4
<1>6. n - q \in T
    <2> HIDE DEF T
    <2>1. n - q \in Nat
        OBVIOUS
    <2> QED
        BY <1>3, <1>5, <2>1, AllNumbers
<1>7. q + (n - q) = n /\ q \in q .. n /\ n \in q .. n
    OBVIOUS
<1> QED
    BY <1>1, <1>2, <1>6, <1>7

\* What may stand for characters that are no stars.
LEMMA WayOfPiece ==
    ASSUME NEW s, NEW e, Len(s) \in Nat, NEW q \in Nat, NEW n \in Nat,
           \A i \in 1 .. n : e[q + i] # "*",
           NEW p \in 0 .. Len(s), NEW m \in 0 .. Len(s)
    PROVE  Way(s, e, q, p, q + n, m) <=>
             m = p + n /\ \A i \in 1 .. n : Fits(s[p + i], e[q + i])
<1>1. ASSUME Way(s, e, q, p, q + n, m)
      PROVE  m = p + n /\ \A i \in 1 .. n : Fits(s[p + i], e[q + i])
    <2>1. PICK c : Ends(s, e, q, q + n, c) /\ c[q] = p /\ c[q + n] = m
        BY <1>1 DEF Way
    <2> DEFINE T == {d \in Nat : d <= n => c[q + d] = p + d}
    <2>2. 0 \in T
        BY <2>1
    <2>3. ASSUME NEW d \in Nat, d + 1 <= n, c[q + d] = p + d
          PROVE  /\ c[q + (d + 1)] = p + (d + 1)
                 /\ Fits(s[p + (d + 1)], e[q + (d + 1)])
        <3>1. /\ q + (d + 1) \in q + 1 .. q + n
              /\ q + (d + 1) - 1 = q + d /\ d + 1 \in 1 .. n
            BY <2>3
        <3>2. Goes(s, e, q + (d + 1), c[q + d], c[q + (d + 1)])
            BY <2>1, <3>1 DEF Ends
        <3>3. /\ c[q + (d + 1)] = c[q + d] + 1
              /\ Fits(s[c[q + (d + 1)]], e[q + (d + 1)])
            BY <3>1, <3>2 DEF Goes
        <3>4. c[q + (d + 1)] = p + (d + 1)
            BY <2>3, <3>3
        <3> QED
            BY <3>3, <3>4
    <2>4. \A d \in Nat : d \in T => d + 1 \in T
        BY <2>3
    <2>5. \A d \in Nat : d \in T
        <3> HIDE DEF T
        <3> QED
            BY <2>2, <2>4, AllNumbers
    <2>6. m = p + n
        BY <2>1, <2>5
    <2>7. ASSUME NEW i \in 1 .. n PROVE Fits(s[p + i], e[q + i])
        <3>1. i - 1 \in Nat /\ i - 1 + 1 = i /\ i <= n /\ i - 1 <= n
            OBVIOUS
        <3>2. c[q + (i - 1)] = p + (i - 1)
            BY <2>5, <3>1
        <3> QED
            BY <2>3, <3>1, <3>2
    <2> QED
        BY <2>6, <2>7
<1>2. ASSUME m = p + n, \A i \in 1 .. n : Fits(s[p + i], e[q + i])
      PROVE  Way(s, e, q, p, q + n, m)
    <2> DEFINE c == [i \in q .. q + n |-> p + (i - q)]
    <2>1. c \in [q .. q + n -> 0 .. Len(s)]
        BY <1>2
    <2>2. c[q] = p /\ c[q + n] = m
        BY <1>2
    <2>3. ASSUME NEW i \in q + 1 .. q + n
          PROVE  Goes(s, e, i, c[i - 1], c[i])
        <3>1. /\ i - q \in 1 .. n /\ q + (i - q) = i
              /\ i - 1 \in q .. q + n /\ i \in q .. q + n
            OBVIOUS
        <3>2. c[i - 1] = p + ((i - 1) - q) /\ c[i] = p + (i - q)
            BY <3>1
        <3> HIDE DEF c
        <3>3. c[i] = c[i - 1] + 1
            BY <3>1, <3>2
        <3>4. e[i] # "*" /\ Fits(s[p + (i - q)], e[i])
            BY <1>2, <3>1
        <3> QED
            BY <3>2, <3>3, <3>4 DEF Goes
    <2> HIDE DEF c
    <2> QED
        BY <2>1, <2>2, <2>3 DEF Ends, Way
<1> QED
    BY <1>1, <1>2

\* Stars may stand for anything.
LEMMA WayOfStars ==
    ASSUME NEW s, NEW e, Len(s) \in Nat, NEW q \in Nat, NEW n \in Nat \ {0},
           \A i \in 1 .. n : e[q + i] = "*",
           NEW p \in 0 .. Len(s), NEW m \in 0 .. Len(s), p <= m
    PROVE  Way(s, e, q, p, q + n, m)
<1> DEFINE c == [i \in q .. q + n |-> IF i = q THEN p ELSE m]
<1>1. c \in [q .. q + n -> 0 .. Len(s)] /\ c[q] = p /\ c[q + n] = m
    OBVIOUS
<1>2. ASSUME NEW i \in q + 1 .. q + n
      PROVE  Goes(s, e, i, c[i - 1], c[i])
    <2>1. /\ i - q \in 1 .. n /\ q + (i - q) = i
          /\ i - 1 \in q .. q + n /\ i \in q .. q + n
        OBVIOUS
    <2>2. e[i] = "*"
        BY <2>1
    <2>3. c[i - 1] <= c[i]
        BY <2>1
    <2> QED
        BY <2>2, <2>3 DEF Goes
<1> HIDE DEF c
<1> QED
    BY <1>1, <1>2 DEF Ends, Way

\* A star may stand for more.
LEMMA WayOfLonger ==
    ASSUME NEW s, NEW e, Len(s) \in Nat, NEW q \in Nat, NEW n \in Nat,
           q < n, e[q + 1] = "*", NEW p \in 0 .. Len(s), NEW k, NEW m,
           Way(s, e, q, k, n, m), p <= k
    PROVE  Way(s, e, q, p, n, m)
<1>1. PICK j \in 0 .. Len(s) :
        Way(s, e, q, k, q + 1, j) /\ Way(s, e, q + 1, j, n, m)
    <2>1. q + 1 \in Nat /\ q <= q + 1 /\ q + 1 <= n
        OBVIOUS
    <2> QED
        BY <2>1, WayCut
<1>2. k \in 0 .. Len(s) /\ k <= j
    BY <1>1, WayForward
<1>3. Way(s, e, q, p, q + 1, j)
    <2>1. Goes(s, e, q + 1, p, j)
        BY <1>2 DEF Goes
    <2> QED
        BY <2>1, WayOfOne
<1> QED
    BY <1>1, <1>3, WayJoined

\* Matches() asks for a way through all of both.
LEMMA MatchesIsWay ==
    ASSUME NEW S, NEW s \in Seq(S), NEW T, NEW e \in Seq(T)
    PROVE  Matches(s, e) <=> Way(s, e, 0, 0, Len(e), Len(s))
<1> DEFINE Row(f, i) ==
             IF i = 0 THEN {0}
             ELSE IF e[i] = "*"
                    THEN {j \in 0 .. Len(s) : \E k \in f[i - 1] : k <= j}
                    ELSE {j \in 1 .. Len(s) :
                            j - 1 \in f[i - 1] /\ Fits(s[j], e[i])}
           M == CHOOSE f : f = [i \in 0 .. Len(e) |-> Row(f, i)]
<1>1. Matches(s, e) <=> Len(s) \in M[Len(e)]
    BY DEF Matches
<1>2. Len(s) \in Nat /\ Len(e) \in Nat
    OBVIOUS
<1>3. \E f : f = [i \in 0 .. Len(e) |-> Row(f, i)]
    <2> DEFINE N == {n \in Nat : \E f : f = [i \in 0 .. n |-> Row(f, i)]}
    <2>1. 0 \in N
        <3> DEFINE f == [i \in 0 .. 0 |-> {0}]
        <3>1. f = [i \in 0 .. 0 |-> Row(f, i)]
            OBVIOUS
        <3> QED
            BY <3>1
    <2>2. ASSUME NEW n \in Nat, NEW f, f = [i \in 0 .. n |-> Row(f, i)]
          PROVE  n + 1 \in N
        <3> DEFINE g == [i \in 0 .. n + 1 |->
                           IF i <= n THEN f[i] ELSE Row(f, n + 1)]
        <3>1. ASSUME NEW i \in 0 .. n + 1
              PROVE  g[i] = Row(g, i)
            <4>1. CASE i = 0
                BY <2>2, <4>1
            <4>2. CASE i \in 1 .. n
                <5>1. g[i] = f[i] /\ g[i - 1] = f[i - 1] /\ f[i] = Row(f, i)
                    <6>1. /\ i \in 0 .. n /\ i \in 0 .. n + 1 /\ i <= n
                          /\ i - 1 \in 0 .. n + 1 /\ i - 1 <= n
                        BY <4>2
                    <6> HIDE DEF Row
                    <6>2. f[i] = Row(f, i)
                        <7> HIDE DEF g
                        <7> QED
                            BY <2>2, <6>1
                    <6> QED
                        BY <6>1, <6>2
                <5> HIDE DEF g
                <5> QED
                    BY <5>1
            <4>3. CASE i = n + 1
                <5>1. g[i] = Row(f, i) /\ g[i - 1] = f[i - 1]
                    <6> HIDE DEF Row
                    <6> QED
                        BY <4>3
                <5> HIDE DEF g
                <5> QED
                    BY <5>1
            <4> QED
                BY <4>1, <4>2, <4>3
        <3>2. g = [i \in 0 .. n + 1 |-> g[i]]
            OBVIOUS
        <3> HIDE DEF g, Row
        <3>3. g = [i \in 0 .. n + 1 |-> Row(g, i)]
            BY <3>1, <3>2
        <3> QED
            BY <3>3
    <2>3. \A n \in Nat : n \in N => n + 1 \in N
        BY <2>2, ZenonT(40)
    <2> HIDE DEF Row
    <2>4. Len(e) \in N
        <3> HIDE DEF N
        <3> QED
            BY <1>2, <2>1, <2>3, AllNumbers
    <2> QED
        BY <2>4
<1>4. M = [i \in 0 .. Len(e) |-> Row(M, i)]
    BY <1>3
<1> HIDE DEF M
<1>5. /\ M[0] = {0}
      /\ \A i \in 0 .. Len(e) - 1 :
           M[i + 1] = IF e[i + 1] = "*"
                        THEN {j \in 0 .. Len(s) : \E k \in M[i] : k <= j}
                        ELSE {j \in 1 .. Len(s) :
                                j - 1 \in M[i] /\ Fits(s[j], e[i + 1])}
    <2>1. \A i \in 0 .. Len(e) : M[i] = Row(M, i)
        <3> HIDE DEF Row
        <3> QED
            BY <1>4
    <2>2. M[0] = {0}
        <3>1. M[0] = Row(M, 0)
            <4> HIDE DEF Row
            <4> QED
                BY <1>2, <2>1
        <3> QED
            BY <3>1
    <2>3. ASSUME NEW i \in 0 .. Len(e) - 1
          PROVE  M[i + 1] = Row(M, i + 1) /\ i + 1 # 0 /\ (i + 1) - 1 = i
        <3>1. i + 1 \in 0 .. Len(e) /\ i + 1 # 0 /\ (i + 1) - 1 = i
            BY <1>2
        <3> HIDE DEF Row
        <3> QED
            BY <2>1, <3>1
    <2> QED
        BY <2>2, <2>3
<1> HIDE DEF Row
<1> DEFINE A == {n \in Nat : n <= Len(e) =>
                   \A j : j \in M[n] <=>
                     j \in 0 .. Len(s) /\ Way(s, e, 0, 0, n, j)}
<1>6. 0 \in A
    BY <1>2, <1>5, WayOfNone
<1>7. ASSUME NEW n \in Nat, n + 1 <= Len(e),
             \A j : j \in M[n] <=>
                      j \in 0 .. Len(s) /\ Way(s, e, 0, 0, n, j),
             NEW j
      PROVE  j \in M[n + 1] <=>
               j \in 0 .. Len(s) /\ Way(s, e, 0, 0, n + 1, j)
    <2>1. n \in 0 .. Len(e) - 1
        BY <1>2, <1>7
    <2>2. j \in M[n + 1] <=>
            j \in 0 .. Len(s) /\ \E k \in M[n] : Goes(s, e, n + 1, k, j)
        <3>1. \A k \in M[n] : k \in 0 .. Len(s)
            BY <1>7
        <3>2. CASE e[n + 1] = "*"
            <4>1. M[n + 1] = {i \in 0 .. Len(s) : \E k \in M[n] : k <= i}
                BY <1>5, <2>1, <3>2
            <4> QED
                BY <3>2, <4>1 DEF Goes
        <3>3. CASE e[n + 1] # "*"
            <4>1. M[n + 1] = {i \in 1 .. Len(s) :
                                i - 1 \in M[n] /\ Fits(s[i], e[n + 1])}
                BY <1>5, <2>1, <3>3
            <4>2. \A k \in M[n], i \in 0 .. Len(s) :
                    i = k + 1 <=> (i \in 1 .. Len(s) /\ k = i - 1)
                BY <3>1, <1>2
            <4> QED
                BY <1>2, <3>3, <4>1, <4>2 DEF Goes
        <3> QED
            BY <3>2, <3>3
    <2>3. ASSUME j \in 0 .. Len(s), NEW k \in M[n], Goes(s, e, n + 1, k, j)
          PROVE  Way(s, e, 0, 0, n + 1, j)
        <3>1. k \in 0 .. Len(s) /\ Way(s, e, 0, 0, n, k)
            BY <1>7
        <3>2. Way(s, e, n, k, n + 1, j)
            BY <1>2, <2>3, <3>1, WayOfOne
        <3> QED
            BY <1>2, <3>1, <3>2, WayJoined
    <2>4. ASSUME j \in 0 .. Len(s), Way(s, e, 0, 0, n + 1, j)
          PROVE  \E k \in M[n] : Goes(s, e, n + 1, k, j)
        <3>1. PICK k \in 0 .. Len(s) :
                Way(s, e, 0, 0, n, k) /\ Way(s, e, n, k, n + 1, j)
            <4>1. /\ 0 \in Nat /\ n + 1 \in Nat /\ Len(s) \in Nat
                  /\ 0 <= n /\ n <= n + 1
                BY <1>2
            <4> HIDE DEF A
            <4> QED
                BY <2>4, <4>1, WayCut
        <3>2. PICK c : /\ Ends(s, e, n, n + 1, c)
                       /\ c[n] = k /\ c[n + 1] = j
            BY <3>1 DEF Way
        <3>3. n + 1 \in n + 1 .. n + 1 /\ (n + 1) - 1 = n
            OBVIOUS
        <3>4. Goes(s, e, n + 1, k, j)
            BY <3>2, <3>3 DEF Ends
        <3> QED
            BY <1>7, <3>1, <3>4
    <2> QED
        BY <2>2, <2>3, <2>4
<1>8. \A n \in Nat : n \in A => n + 1 \in A
    BY <1>2, <1>7
<1>9. Len(e) \in A
    <2> HIDE DEF A
    <2> QED
        BY <1>2, <1>6, <1>8, AllNumbers
<1> QED
    BY <1>1, <1>2, <1>9

-----------------------------------------------------------------------------
LEMMA DropIs ==
    ASSUME NEW S, NEW s \in Seq(S), NEW n \in 0 .. Len(s)
    PROVE  /\ Drop(s, n) \in Seq(S)
           /\ Len(Drop(s, n)) = Len(s) - n
           /\ \A i \in 1 .. Len(s) - n : Drop(s, n)[i] = s[n + i]
    BY DEF Drop

LEMMA DropMore ==
    ASSUME NEW S, NEW s \in Seq(S), NEW n \in 0 .. Len(s),
           NEW m \in 0 .. Len(s) - n
    PROVE  Drop(Drop(s, n), m) = Drop(s, n + m)
<1>1. n + m \in 0 .. Len(s) /\ Len(s) - n \in Nat /\ Len(s) \in Nat
    OBVIOUS
<1>2. /\ Drop(s, n) \in Seq(S) /\ Len(Drop(s, n)) = Len(s) - n
      /\ \A i \in 1 .. Len(s) - n : Drop(s, n)[i] = s[n + i]
    BY DropIs
<1>3. /\ Drop(Drop(s, n), m) \in Seq(S)
      /\ Len(Drop(Drop(s, n), m)) = Len(s) - (n + m)
      /\ \A i \in 1 .. Len(s) - (n + m) :
           Drop(Drop(s, n), m)[i] = Drop(s, n)[m + i]
    <2>1. /\ m \in 0 .. Len(Drop(s, n))
          /\ Len(Drop(s, n)) - m = Len(s) - (n + m)
        BY <1>1, <1>2
    <2> HIDE DEF Drop
    <2> QED
        BY <1>2, <2>1, DropIs, ZenonT(40)
<1>4. /\ Drop(s, n + m) \in Seq(S)
      /\ Len(Drop(s, n + m)) = Len(s) - (n + m)
      /\ \A i \in 1 .. Len(s) - (n + m) : Drop(s, n + m)[i] = s[n + m + i]
    BY <1>1, DropIs
<1>5. \A i \in 1 .. Len(s) - (n + m) :
        Drop(Drop(s, n), m)[i] = Drop(s, n + m)[i]
    <2> SUFFICES ASSUME NEW i \in 1 .. Len(s) - (n + m)
                 PROVE  Drop(Drop(s, n), m)[i] = Drop(s, n + m)[i]
        OBVIOUS
    <2>1. m + i \in 1 .. Len(s) - n /\ n + (m + i) = n + m + i
        BY <1>1
    <2> QED
        BY <1>2, <1>3, <1>4, <2>1
<1> DEFINE a == Drop(Drop(s, n), m)
           b == Drop(s, n + m)
<1> HIDE DEF a, b
<1>6. a \in Seq(S) /\ b \in Seq(S) /\ Len(a) = Len(b)
    BY <1>3, <1>4 DEF a, b
<1>7. \A i \in 1 .. Len(a) : a[i] = b[i]
    BY <1>3, <1>5 DEF a, b
<1>8. a = b
    BY <1>6, <1>7, SeqEqual
<1> QED
    BY <1>8 DEF a, b

LEMMA TailIsDrop ==
    ASSUME NEW S, NEW s \in Seq(S), s # <<>>
    PROVE  Tail(s) = Drop(s, 1) /\ Len(s) \in Nat \ {0}
    BY DEF Drop

\* The first index of those that pass, when the last one does.
LEMMA FirstIn ==
    ASSUME NEW n \in Nat \ {0}, NEW I \in SUBSET (1 .. n), n \in I
    PROVE  \E m \in 0 .. n - 1 :
             /\ Min(I) - 1 = m
             /\ m + 1 \in I
             /\ \A i \in 1 .. m : i \notin I
<1>1. PICK k \in I : \A j \in I : k <= j
    BY LeastOf
<1>2. Min(I) \in I /\ \A j \in I : Min(I) <= j
    BY <1>1 DEF Min
<1>3. ASSUME NEW x \in I, \A j \in I : x <= j PROVE x = k
    <2>1. x \in Nat /\ k \in Nat /\ x <= k /\ k <= x
        BY <1>1, <1>3
    <2> QED
        BY <2>1
<1>4. k \in 1 .. n
    OBVIOUS
<1>5. k - 1 \in 0 .. n - 1 /\ k - 1 + 1 = k
    BY <1>4
<1>6. \A i \in 1 .. k - 1 : ~(k <= i)
    BY <1>4
<1> QED
    BY <1>1, <1>2, <1>3, <1>5, <1>6

\* The stars that expr begins with.
LEMMA RestIs ==
    ASSUME NEW S, expr \in Seq(S), AtStar
    PROVE  \E m \in 1 .. Len(expr) :
             /\ Rest = Drop(expr, m)
             /\ \A i \in 1 .. m : expr[i] = "*"
             /\ m < Len(expr) => expr[m + 1] # "*"
<1> DEFINE n == Len(expr) + 1
           a == Append(expr, "x")
           I == {i \in 1 .. n : a[i] # "*"}
<1>1. /\ n \in Nat \ {0} /\ Len(a) = n /\ a[n] = "x" /\ Len(expr) \in Nat
      /\ \A i \in 1 .. Len(expr) : a[i] = expr[i]
    OBVIOUS
<1>2. n \in I /\ 1 \notin I /\ I \in SUBSET (1 .. n)
    <2>1. expr # <<>> /\ expr[1] = "*" /\ 1 \in 1 .. Len(expr)
        BY DEF AtStar
    <2> QED
        BY <1>1, <2>1
<1>3. SelectInSeq(a, LAMBDA c : c # "*") = Min(I)
    BY <1>1, <1>2 DEF SelectInSeq
<1>4. Rest = Drop(expr, Min(I) - 1)
    BY <1>3 DEF Rest
<1>5. \A i \in 1 .. n : i \in I <=> a[i] # "*"
    OBVIOUS
<1> HIDE DEF I
<1>6. PICK m \in 0 .. n - 1 : /\ Min(I) - 1 = m
                              /\ m + 1 \in I
                              /\ \A i \in 1 .. m : i \notin I
    <2> HIDE DEF n
    <2> QED
        BY <1>1, <1>2, FirstIn
<1> HIDE DEF a
<1>7. m \in 1 .. Len(expr)
    BY <1>1, <1>2, <1>6
<1>8. ASSUME NEW i \in 1 .. m PROVE expr[i] = "*"
    <2>1. i \in 1 .. Len(expr) /\ i \in 1 .. n
        BY <1>1, <1>7
    <2> QED
        BY <1>1, <1>5, <1>6, <2>1
<1>9. ASSUME m < Len(expr) PROVE expr[m + 1] # "*"
    <2>1. m + 1 \in 1 .. Len(expr) /\ m + 1 \in 1 .. n
        BY <1>1, <1>7, <1>9
    <2> QED
        BY <1>1, <1>5, <1>6, <2>1
<1> QED
    BY <1>4, <1>6, <1>7, <1>8, <1>9

\* What lies between two stars.
LEMMA SpanIs ==
    ASSUME NEW S, Rest \in Seq(S)
    PROVE  /\ Span \in 0 .. Len(Rest)
           /\ \A i \in 1 .. Span : Rest[i] # "*"
           /\ Span < Len(Rest) => Rest[Span + 1] = "*"
<1> DEFINE r == Rest
           n == Len(r) + 1
           a == Append(r, "*")
           I == {i \in 1 .. n : a[i] = "*"}
<1> HIDE DEF r
<1>0. r \in Seq(S) /\ r = Rest
    BY DEF r
<1>1. /\ n \in Nat \ {0} /\ Len(a) = n /\ a[n] = "*" /\ Len(r) \in Nat
      /\ \A i \in 1 .. Len(r) : a[i] = r[i]
    BY <1>0
<1>2. n \in I /\ I \in SUBSET (1 .. n)
    BY <1>1
<1>3. SelectInSeq(a, LAMBDA c : c = "*") = Min(I)
    BY <1>1, <1>2 DEF SelectInSeq
<1>4. Span = Min(I) - 1
    BY <1>0, <1>3 DEF Span
<1>5. \A i \in 1 .. n : i \in I <=> a[i] = "*"
    OBVIOUS
<1> HIDE DEF I
<1>6. PICK m \in 0 .. n - 1 : /\ Min(I) - 1 = m
                              /\ m + 1 \in I
                              /\ \A i \in 1 .. m : i \notin I
    <2> HIDE DEF n
    <2> QED
        BY <1>1, <1>2, FirstIn
<1> HIDE DEF a
<1>7. m \in 0 .. Len(r)
    BY <1>1, <1>6
<1>8. ASSUME NEW i \in 1 .. m PROVE r[i] # "*"
    <2>1. i \in 1 .. Len(r) /\ i \in 1 .. n
        BY <1>1, <1>7
    <2> QED
        BY <1>1, <1>5, <1>6, <2>1
<1>9. ASSUME m < Len(r) PROVE r[m + 1] = "*"
    <2>1. m + 1 \in 1 .. Len(r) /\ m + 1 \in 1 .. n
        BY <1>1, <1>7, <1>9
    <2> QED
        BY <1>1, <1>5, <1>6, <2>1
<1> QED
    BY <1>0, <1>4, <1>6, <1>7, <1>8, <1>9

LEMMA WayOfSame ==
    ASSUME NEW s, NEW e, NEW f, NEW q \in Nat, NEW n \in Nat, NEW p, NEW m,
           \A i \in q + 1 .. n : e[i] = f[i], Way(s, e, q, p, n, m)
    PROVE  Way(s, f, q, p, n, m)
    BY DEF Way, Ends, Goes

\* mycmp() and the ways through what it compares.
LEMMA MyCmpIs ==
    ASSUME NEW S, NEW s \in Seq(S), NEW T, NEW e \in Seq(T),
           NEW b \in Nat, NEW n \in Nat, b + n <= Len(e),
           NEW p \in 0 .. Len(s)
    PROVE  MyCmp(Drop(s, p), Drop(e, b), n) <=>
             n <= Len(s) - p /\ \A i \in 1 .. n : Fits(s[p + i], e[b + i])
<1>1. /\ Len(s) \in Nat /\ Len(e) \in Nat /\ b \in 0 .. Len(e)
      /\ b <= b + n /\ b + n \in Nat
    OBVIOUS
<1>2. /\ Len(Drop(s, p)) = Len(s) - p
      /\ \A i \in 1 .. Len(s) - p : Drop(s, p)[i] = s[p + i]
    BY DropIs
<1>3. \A i \in 1 .. Len(e) - b : Drop(e, b)[i] = e[b + i]
    BY <1>1, DropIs
<1>4. ASSUME n <= Len(s) - p, NEW i \in 1 .. n
      PROVE  Drop(s, p)[i] = s[p + i] /\ Drop(e, b)[i] = e[b + i]
    <2>1. i \in 1 .. Len(s) - p /\ i \in 1 .. Len(e) - b
        BY <1>1, <1>4
    <2> QED
        BY <1>2, <1>3, <2>1
<1> QED
    BY <1>2, <1>4 DEF MyCmp

LEMMA WayOfCmp ==
    ASSUME NEW S, NEW s \in Seq(S), NEW T, NEW e \in Seq(T),
           NEW b \in Nat, NEW n \in Nat, b + n <= Len(e),
           \A i \in 1 .. n : e[b + i] # "*",
           NEW p \in 0 .. Len(s), NEW m
    PROVE  Way(s, e, b, p, b + n, m) <=>
             /\ m = p + n /\ m \in 0 .. Len(s)
             /\ MyCmp(Drop(s, p), Drop(e, b), n)
<1>1. Len(s) \in Nat /\ Len(e) \in Nat /\ b <= b + n /\ b + n \in Nat
    OBVIOUS
<1>2. Way(s, e, b, p, b + n, m) => m \in 0 .. Len(s)
    BY <1>1, WayForward
<1>3. m \in 0 .. Len(s) =>
        (Way(s, e, b, p, b + n, m) <=>
           m = p + n /\ \A i \in 1 .. n : Fits(s[p + i], e[b + i]))
    BY <1>1, WayOfPiece
<1>4. m = p + n /\ m \in 0 .. Len(s) => n <= Len(s) - p
    BY <1>1
<1> QED
    BY <1>2, <1>3, <1>4, MyCmpIs

-----------------------------------------------------------------------------
GlobTyped == text \in Node /\ pattern \in Seq(DOMAIN Lower)

\* The pointers are p and q characters into the arguments.
GlobAt(p, q) ==
    /\ p \in 0 .. Len(text) /\ q \in 0 .. Len(pattern)
    /\ str = Drop(text, p) /\ expr = Drop(pattern, q)
    /\ Way(text, pattern, 0, 0, q, p)
    /\ Matches(text, pattern) =>
         Way(text, pattern, q, p, Len(pattern), Len(text))

GlobInv ==
    /\ GlobTyped
    /\ \E p \in Nat, q \in Nat : GlobAt(p, q)
    /\ GlobMeans

LEMMA MatchesIs ==
    ASSUME GlobTyped
    PROVE  /\ Matches(text, pattern) <=>
                Way(text, pattern, 0, 0, Len(pattern), Len(text))
           /\ Len(text) \in Nat /\ Len(pattern) \in Nat
<1>1. text \in Seq(Char) /\ pattern \in Seq(DOMAIN Lower)
    BY DEF GlobTyped, Node
<1> QED
    BY <1>1, MatchesIsWay

\* What AtStar and its two operators say about the arguments: the stars are
\* before b, and n characters follow that are none.
LEMMA StarIs ==
    ASSUME GlobTyped, AtStar, NEW p \in Nat, NEW q \in Nat, GlobAt(p, q)
    PROVE  \E b \in q + 1 .. Len(pattern) :
             /\ \A i \in 1 .. b - q : pattern[q + i] = "*"
             /\ Rest = Drop(pattern, b)
             /\ Span \in 0 .. Len(pattern) - b
             /\ Len(Rest) = Len(pattern) - b
             /\ \A i \in 1 .. Span : pattern[b + i] # "*"
             /\ Rest # <<>> => Span # 0
             /\ Span < Len(Rest) => pattern[b + Span + 1] = "*"
<1> DEFINE D == DOMAIN Lower
<1>1. /\ pattern \in Seq(D) /\ q \in 0 .. Len(pattern)
      /\ Len(pattern) \in Nat /\ expr = Drop(pattern, q)
    BY MatchesIs DEF GlobTyped, GlobAt
<1> HIDE DEF D
<1>2. /\ expr \in Seq(D) /\ Len(expr) = Len(pattern) - q
      /\ \A i \in 1 .. Len(expr) : expr[i] = pattern[q + i]
    <2>1. /\ Drop(pattern, q) \in Seq(D)
          /\ Len(Drop(pattern, q)) = Len(pattern) - q
          /\ \A i \in 1 .. Len(pattern) - q :
               Drop(pattern, q)[i] = pattern[q + i]
        BY <1>1, DropIs
    <2> QED
        BY <1>1, <2>1
<1>3. PICK m \in 1 .. Len(expr) :
        /\ Rest = Drop(expr, m)
        /\ \A i \in 1 .. m : expr[i] = "*"
        /\ m < Len(expr) => expr[m + 1] # "*"
    BY <1>2, RestIs
<1> DEFINE b == q + m
<1>4. /\ b \in q + 1 .. Len(pattern) /\ b - q = m
      /\ m \in 0 .. Len(pattern) - q /\ b \in 0 .. Len(pattern)
    BY <1>1, <1>2
<1>5. Rest = Drop(pattern, b)
    BY <1>1, <1>3, <1>4, DropMore
<1>6. /\ Rest \in Seq(D) /\ Len(Rest) = Len(pattern) - b
      /\ \A i \in 1 .. Len(pattern) - b : Rest[i] = pattern[b + i]
    <2>1. /\ Drop(pattern, b) \in Seq(D)
          /\ Len(Drop(pattern, b)) = Len(pattern) - b
          /\ \A i \in 1 .. Len(pattern) - b :
               Drop(pattern, b)[i] = pattern[b + i]
        <3> HIDE DEF b
        <3> QED
            BY <1>1, <1>4, DropIs
    <2> QED
        BY <1>5, <2>1
<1>7. /\ Span \in 0 .. Len(Rest)
      /\ \A i \in 1 .. Span : Rest[i] # "*"
      /\ Span < Len(Rest) => Rest[Span + 1] = "*"
    BY <1>6, SpanIs
<1>8. \A i \in 1 .. b - q : pattern[q + i] = "*"
    <2> SUFFICES ASSUME NEW i \in 1 .. m PROVE pattern[q + i] = "*"
        BY <1>4
    <2>1. i \in 1 .. Len(expr)
        BY <1>2, <1>1
    <2> QED
        BY <1>2, <1>3, <2>1
<1> HIDE DEF b
<1>9. \A i \in 1 .. Span : pattern[b + i] # "*"
    <2> SUFFICES ASSUME NEW i \in 1 .. Span PROVE pattern[b + i] # "*"
        OBVIOUS
    <2>1. i \in 1 .. Len(pattern) - b
        BY <1>1, <1>4, <1>6, <1>7
    <2> QED
        BY <1>6, <1>7, <2>1
<1>10. ASSUME Span < Len(Rest) PROVE pattern[b + Span + 1] = "*"
    <2>1. Span + 1 \in 1 .. Len(pattern) - b
        BY <1>1, <1>4, <1>6, <1>7, <1>10
    <2>2. b + (Span + 1) = b + Span + 1
        BY <1>1, <1>4, <1>6, <1>7
    <2> QED
        BY <1>6, <1>7, <1>10, <2>1, <2>2
<1>11. ASSUME Rest # <<>>, Span = 0 PROVE FALSE
    <2>1. 0 < Len(Rest) /\ Span + 1 = 1 /\ 1 \in 1 .. Len(pattern) - b
        BY <1>1, <1>4, <1>6, <1>11
    <2>2. pattern[b + 1] = "*"
        BY <1>6, <1>7, <1>11, <2>1
    <2>3. m < Len(expr) /\ b + 1 = q + (m + 1) /\ m + 1 \in 1 .. Len(expr)
        BY <1>1, <1>2, <1>4, <1>6, <2>1
    <2> QED
        BY <1>2, <1>3, <2>2, <2>3
<1> QED
    BY <1>4, <1>5, <1>6, <1>7, <1>8, <1>9, <1>10, <1>11

LEMMA PieceIs ==
    ASSUME GlobTyped, NEW b \in Nat, NEW n \in Nat, b + n <= Len(pattern),
           \A i \in 1 .. n : pattern[b + i] # "*",
           NEW k \in 0 .. Len(text), NEW m
    PROVE  Way(text, pattern, b, k, b + n, m) <=>
             /\ m = k + n /\ m \in 0 .. Len(text)
             /\ MyCmp(Drop(text, k), Drop(pattern, b), n)
<1>1. text \in Seq(Char) /\ pattern \in Seq(DOMAIN Lower)
    BY DEF GlobTyped, Node
<1> QED
    BY <1>1, WayOfCmp

\* A way to the end of both is a match.
LEMMA StarsMatch ==
    ASSUME GlobTyped, NEW p \in Nat, NEW q \in Nat, GlobAt(p, q),
           NEW b \in q + 1 .. Len(pattern),
           \A i \in 1 .. b - q : pattern[q + i] = "*",
           NEW m \in p .. Len(text)
    PROVE  Way(text, pattern, 0, 0, b, m)
<1>1. /\ Len(text) \in Nat /\ p \in 0 .. Len(text)
      /\ Way(text, pattern, 0, 0, q, p)
    BY MatchesIs DEF GlobAt
<1>2. /\ b - q \in Nat \ {0} /\ q + (b - q) = b /\ b \in Nat
      /\ m \in 0 .. Len(text) /\ p <= m /\ 0 \in Nat /\ 0 <= q /\ q <= b
    BY <1>1, MatchesIs
<1>3. Way(text, pattern, q, p, b, m)
    <2>1. Way(text, pattern, q, p, q + (b - q), m)
        BY <1>1, <1>2, WayOfStars
    <2> QED
        BY <1>2, <2>1
<1> QED
    BY <1>1, <1>2, <1>3, WayJoined

\* Where a match goes on behind the stars.
LEMMA StarsMatched ==
    ASSUME GlobTyped, Matches(text, pattern),
           NEW p \in Nat, NEW q \in Nat, GlobAt(p, q),
           NEW b \in q .. Len(pattern)
    PROVE  \E k \in p .. Len(text) :
             Way(text, pattern, b, k, Len(pattern), Len(text))
<1>1. /\ Way(text, pattern, q, p, Len(pattern), Len(text))
      /\ Len(pattern) \in Nat /\ Len(text) \in Nat
      /\ b \in Nat /\ q <= b /\ b <= Len(pattern)
    BY MatchesIs DEF GlobAt
<1>2. PICK k \in 0 .. Len(text) :
        /\ Way(text, pattern, q, p, b, k)
        /\ Way(text, pattern, b, k, Len(pattern), Len(text))
    BY <1>1, WayCut
<1>3. p <= k
    BY <1>1, <1>2, WayForward
<1>4. k \in p .. Len(text)
    BY <1>1, <1>3
<1> QED
    BY <1>2, <1>4

LEMMA EndTaken ==
    ASSUME GlobTyped, NEW p \in Nat, NEW q \in Nat, GlobAt(p, q),
           AtStar, str = <<>>
    PROVE  Taken(text, pattern)
<1>1. /\ text \in Seq(Char) /\ pattern \in Seq(DOMAIN Lower)
      /\ Len(text) \in Nat /\ Len(pattern) \in Nat
      /\ p \in 0 .. Len(text) /\ q \in 0 .. Len(pattern)
      /\ str = Drop(text, p) /\ expr = Drop(pattern, q)
      /\ Way(text, pattern, 0, 0, q, p)
    BY MatchesIs DEF GlobTyped, GlobAt, Node
<1>2. p = Len(text)
    <2>1. Len(Drop(text, p)) = Len(text) - p
        BY <1>1, DropIs
    <2> QED
        BY <1>1, <2>1
<1>3. q + 1 \in DOMAIN pattern /\ pattern[q + 1] = "*"
    <2>1. /\ Len(expr) = Len(pattern) - q /\ expr \in Seq(DOMAIN Lower)
          /\ \A i \in 1 .. Len(pattern) - q : expr[i] = pattern[q + i]
        BY <1>1, DropIs
    <2>2. 1 \in 1 .. Len(pattern) - q
        BY <2>1 DEF AtStar
    <2> QED
        BY <1>1, <2>1, <2>2 DEF AtStar
<1> DEFINE e == SubSeq(pattern, 1, q)
<1>4. /\ e \in Seq(DOMAIN Lower) /\ Len(e) = q
      /\ \A i \in 1 .. q : e[i] = pattern[i]
    BY <1>1
<1> HIDE DEF e
<1>5. Way(text, e, 0, 0, q, p)
    <2>1. \A i \in 0 + 1 .. q : pattern[i] = e[i]
        BY <1>4
    <2> QED
        BY <1>1, <2>1, WayOfSame
<1>6. Matches(text, e)
    BY <1>1, <1>2, <1>4, <1>5, MatchesIsWay
<1>7. (q + 1) - 1 = q
    OBVIOUS
<1> QED
    BY <1>3, <1>6, <1>7 DEF Taken, e

LEMMA StarEndsMeans ==
    ASSUME GlobInv, StarEnds
    PROVE  GlobInv'
<1>1. PICK p \in Nat, q \in Nat : GlobAt(p, q)
    BY DEF GlobInv
<1>2. GlobTyped /\ AtStar /\ (str = <<>> \/ Rest = <<>>)
    BY DEF GlobInv, StarEnds
<1>3. Taken(text, pattern)
    <2>1. CASE Rest = <<>>
        <3>1. PICK b \in q + 1 .. Len(pattern) :
                /\ \A i \in 1 .. b - q : pattern[q + i] = "*"
                /\ Len(Rest) = Len(pattern) - b
            BY <1>1, <1>2, StarIs
        <3>2. b = Len(pattern) /\ Len(text) \in p .. Len(text)
            BY <1>1, <1>2, <2>1, <3>1, MatchesIs DEF GlobAt
        <3>3. Way(text, pattern, 0, 0, b, Len(text))
            BY <1>1, <1>2, <3>1, <3>2, StarsMatch
        <3> QED
            BY <1>2, <3>2, <3>3, MatchesIs DEF Taken
    <2>2. CASE str = <<>>
        BY <1>1, <1>2, <2>2, EndTaken
    <2> QED
        BY <1>2, <2>1, <2>2
<1>4. UNCHANGED <<text, pattern, str, expr>> /\ verdict' = "yes"
    BY DEF StarEnds, Says
<1> QED
    BY <1>1, <1>2, <1>3, <1>4 DEF GlobInv, GlobAt, GlobTyped, GlobMeans

\* What a step that answers has to show.
LEMMA SaysMeans ==
    ASSUME GlobInv, NEW v, Says(v),
           v = "yes" => Matches(text, pattern),
           v = "no" => ~Matches(text, pattern)
    PROVE  GlobInv'
<1>1. UNCHANGED <<text, pattern, str, expr>> /\ verdict' = v
    BY DEF Says
<1> QED
    BY <1>1 DEF GlobInv, GlobAt, GlobTyped, GlobMeans, Taken

LEMMA StarLastMeans ==
    ASSUME GlobInv, StarLast
    PROVE  GlobInv'
<1>1. PICK p \in Nat, q \in Nat : GlobAt(p, q)
    BY DEF GlobInv
<1>2. GlobTyped /\ AtStar /\ Span = Len(Rest)
    BY DEF GlobInv, StarLast
<1>3. PICK b \in q + 1 .. Len(pattern) :
        /\ \A i \in 1 .. b - q : pattern[q + i] = "*"
        /\ Rest = Drop(pattern, b)
        /\ Len(Rest) = Len(pattern) - b
        /\ \A i \in 1 .. Span : pattern[b + i] # "*"
    BY <1>1, <1>2, StarIs
<1>4. /\ text \in Seq(Char) /\ pattern \in Seq(DOMAIN Lower)
      /\ Len(text) \in Nat /\ Len(pattern) \in Nat
      /\ p \in 0 .. Len(text) /\ q \in 0 .. Len(pattern)
      /\ str = Drop(text, p)
    BY <1>1, <1>2, MatchesIs DEF GlobTyped, GlobAt, Node
<1>5. Len(str) = Len(text) - p
    BY <1>4, DropIs
<1>0. PICK n : n = Span
    OBVIOUS
<1> DEFINE t == Drop(str, Len(str) - n)
           fits == n <= Len(str) /\ MyCmp(t, Rest, n)
<1>6. /\ n \in Nat /\ b + n = Len(pattern) /\ b \in Nat
      /\ b + n <= Len(pattern)
      /\ \A i \in 1 .. n : pattern[b + i] # "*"
    BY <1>0, <1>2, <1>3, <1>4
<1>7. Says(IF fits THEN "yes" ELSE "no")
    BY <1>0 DEF StarLast
<1>11. \A k \in 0 .. Len(text) : \A m :
         Way(text, pattern, b, k, b + n, m) <=>
             /\ m = k + n /\ m \in 0 .. Len(text)
             /\ MyCmp(Drop(text, k), Drop(pattern, b), n)
    BY <1>2, <1>6, PieceIs
<1>8. ASSUME n <= Len(str)
      PROVE  t = Drop(text, Len(text) - n) /\ Len(text) - n \in p .. Len(text)
    <2>1. /\ Len(str) - n \in 0 .. Len(text) - p
          /\ p + (Len(str) - n) = Len(text) - n
          /\ Len(text) - n \in p .. Len(text)
        BY <1>4, <1>5, <1>6, <1>8
    <2>2. Drop(Drop(text, p), Len(str) - n) = Drop(text, p + (Len(str) - n))
        BY <1>4, <2>1, DropMore
    <2> QED
        BY <1>4, <2>1, <2>2
<1>9. ASSUME fits PROVE Matches(text, pattern)
    <2> DEFINE k == Len(text) - n
    <2>1. /\ k \in p .. Len(text) /\ k \in 0 .. Len(text)
          /\ k + n = Len(text)
        BY <1>4, <1>6, <1>8, <1>9
    <2>2. MyCmp(Drop(text, k), Drop(pattern, b), n)
        BY <1>3, <1>8, <1>9
    <2> HIDE DEF k
    <2>3. Way(text, pattern, b, k, b + n, k + n)
        BY <1>4, <1>11, <2>1, <2>2
    <2>4. Way(text, pattern, 0, 0, b, k)
        BY <1>1, <1>2, <1>3, <2>1, StarsMatch
    <2>5. 0 \in Nat /\ 0 <= b /\ b <= Len(pattern)
        BY <1>6
    <2>6. Way(text, pattern, 0, 0, Len(pattern), Len(text))
        BY <1>4, <1>6, <2>1, <2>3, <2>4, <2>5, WayJoined
    <2> QED
        BY <1>2, <2>6, MatchesIs
<1>10. ASSUME Matches(text, pattern) PROVE fits
    <2>1. b \in q .. Len(pattern)
        BY <1>4
    <2>2. PICK k \in p .. Len(text) :
            Way(text, pattern, b, k, Len(pattern), Len(text))
        BY <1>1, <1>2, <1>10, <2>1, StarsMatched
    <2>3. k \in 0 .. Len(text) /\ b + n <= Len(pattern)
        BY <1>4, <1>6
    <2>4. Way(text, pattern, b, k, b + n, Len(text))
        BY <1>6, <2>2
    <2>5. Len(text) = k + n /\ MyCmp(Drop(text, k), Drop(pattern, b), n)
        BY <1>11, <2>3, <2>4
    <2>6. n <= Len(str) /\ k = Len(text) - n
        BY <1>4, <1>5, <1>6, <2>5
    <2> QED
        BY <1>3, <1>8, <2>5, <2>6
<1> HIDE DEF fits
<1> QED
    BY <1>7, <1>9, <1>10, SaysMeans

\* What a step that goes on has to show.
LEMMA MovesMeans ==
    ASSUME GlobInv, verdict = "none", NEW s, NEW e, Moves(s, e),
           NEW p \in 0 .. Len(text), NEW q \in 0 .. Len(pattern),
           s = Drop(text, p), e = Drop(pattern, q),
           Way(text, pattern, 0, 0, q, p),
           Matches(text, pattern) =>
             Way(text, pattern, q, p, Len(pattern), Len(text))
    PROVE  GlobInv'
<1>1. UNCHANGED <<text, pattern, verdict>> /\ str' = s /\ expr' = e
    BY DEF Moves
<1>2. GlobTyped /\ p \in Nat /\ q \in Nat
    BY MatchesIs DEF GlobInv
<1>3. GlobAt(p, q)'
    BY <1>1 DEF GlobAt
<1> QED
    BY <1>1, <1>2, <1>3 DEF GlobInv, GlobTyped, GlobMeans

LEMMA StarFindsMeans ==
    ASSUME GlobInv, StarFinds
    PROVE  GlobInv'
<1>1. PICK p \in Nat, q \in Nat : GlobAt(p, q)
    BY DEF GlobInv
<1>2. /\ GlobTyped /\ AtStar /\ Span < Len(Rest) /\ Rest # <<>>
      /\ verdict = "none"
    BY DEF GlobInv, StarFinds, AtStar
<1>3. PICK b \in q + 1 .. Len(pattern) :
        /\ \A i \in 1 .. b - q : pattern[q + i] = "*"
        /\ Rest = Drop(pattern, b)
        /\ Span \in 0 .. Len(pattern) - b
        /\ Len(Rest) = Len(pattern) - b
        /\ \A i \in 1 .. Span : pattern[b + i] # "*"
        /\ Rest # <<>> => Span # 0
        /\ Span < Len(Rest) => pattern[b + Span + 1] = "*"
    BY <1>1, <1>2, StarIs
<1>4. /\ text \in Seq(Char) /\ pattern \in Seq(DOMAIN Lower)
      /\ Len(text) \in Nat /\ Len(pattern) \in Nat
      /\ p \in 0 .. Len(text) /\ q \in 0 .. Len(pattern)
      /\ str = Drop(text, p)
    BY <1>1, <1>2, MatchesIs DEF GlobTyped, GlobAt, Node
<1>5. Len(str) = Len(text) - p
    BY <1>4, DropIs
<1>6. PICK n : n = Span
    OBVIOUS
<1>7. /\ n \in Nat \ {0} /\ b + n < Len(pattern) /\ b \in Nat
      /\ b + n <= Len(pattern) /\ b + n \in Nat /\ b + n \in 0 .. Len(pattern)
      /\ n \in 0 .. Len(pattern) - b /\ b \in 0 .. Len(pattern)
      /\ \A i \in 1 .. n : pattern[b + i] # "*"
      /\ pattern[b + n + 1] = "*"
    BY <1>2, <1>3, <1>4, <1>6
<1>8. \A k \in 0 .. Len(text) : \A m :
        Way(text, pattern, b, k, b + n, m) <=>
          /\ m = k + n /\ m \in 0 .. Len(text)
          /\ MyCmp(Drop(text, k), Drop(pattern, b), n)
    BY <1>2, <1>7, PieceIs
<1> DEFINE hits == {k \in 0 .. Len(str) - 1 : MyCmp(Drop(str, k), Rest, n)}
           least == CHOOSE i \in hits : \A j \in hits : i <= j
<1>9. /\ hits = {} => Says("no")
      /\ hits # {} => Moves(Drop(str, least + n), Drop(Rest, n))
    BY <1>6 DEF StarFinds
<1>10. \A k \in 0 .. Len(str) :
         Drop(str, k) = Drop(text, p + k) /\ p + k \in 0 .. Len(text)
    <2> SUFFICES ASSUME NEW k \in 0 .. Len(str)
                 PROVE  /\ Drop(str, k) = Drop(text, p + k)
                        /\ p + k \in 0 .. Len(text)
        OBVIOUS
    <2>1. k \in 0 .. Len(text) - p /\ p + k \in 0 .. Len(text)
        BY <1>4, <1>5
    <2> QED
        BY <1>4, <2>1, DropMore
\* A match goes on at a hit.
<1>11. ASSUME Matches(text, pattern)
       PROVE  \E k \in hits :
                Way(text, pattern, b + n, p + k + n, Len(pattern), Len(text))
    <2>1. b \in q .. Len(pattern)
        BY <1>4
    <2>2. PICK k1 \in p .. Len(text) :
            Way(text, pattern, b, k1, Len(pattern), Len(text))
        BY <1>1, <1>2, <1>11, <2>1, StarsMatched
    <2>3. PICK k2 \in 0 .. Len(text) :
            /\ Way(text, pattern, b, k1, b + n, k2)
            /\ Way(text, pattern, b + n, k2, Len(pattern), Len(text))
        <3>1. b <= b + n
            BY <1>7
        <3> QED
            BY <1>4, <1>7, <2>2, <3>1, WayCut
    <2>4. k2 = k1 + n /\ MyCmp(Drop(text, k1), Drop(pattern, b), n)
        <3>1. k1 \in 0 .. Len(text)
            BY <1>4
        <3> QED
            BY <1>8, <2>3, <3>1
    <2>5. /\ k1 - p \in 0 .. Len(str) - 1 /\ p + (k1 - p) = k1
          /\ k1 - p \in 0 .. Len(str)
        BY <1>4, <1>5, <1>7, <2>3, <2>4
    <2>6. k1 - p \in hits
        BY <1>3, <1>10, <2>4, <2>5
    <2> QED
        BY <2>3, <2>4, <2>5, <2>6
<1>12. CASE hits = {}
    BY <1>9, <1>11, <1>12, SaysMeans
<1>13. CASE hits # {}
    <2>1. hits \in SUBSET Nat /\ hits \subseteq 0 .. Len(str) - 1
        BY <1>4, <1>5
    <2>2. least \in hits /\ \A j \in hits : least <= j
        <3> HIDE DEF hits
        <3>1. \E i \in hits : \A j \in hits : i <= j
            BY <1>13, <2>1, LeastOf
        <3> QED
            BY <3>1
    <2>3. /\ least \in 0 .. Len(str) - 1
          /\ MyCmp(Drop(str, least), Rest, n)
        BY <2>2
    <2>4. Moves(Drop(str, least + n), Drop(Rest, n))
        BY <1>9, <1>13
    <2> HIDE DEF least, hits
    <2>5. PICK k \in Nat : k = least /\ k \in 0 .. Len(str)
        BY <1>4, <1>5, <2>3
    <2> DEFINE m == p + k + n
    <2>6. /\ p + k \in 0 .. Len(text)
          /\ MyCmp(Drop(text, p + k), Drop(pattern, b), n)
          /\ p + k \in p .. Len(text)
        BY <1>3, <1>4, <1>10, <2>3, <2>5
    <2>7. m \in 0 .. Len(text) /\ k + n \in 0 .. Len(str)
        <3>1. n <= Len(Drop(text, p + k))
            BY <2>6 DEF MyCmp
        <3>2. Len(Drop(text, p + k)) = Len(text) - (p + k)
            BY <1>4, <2>6, DropIs
        <3> QED
            BY <1>4, <1>5, <1>7, <2>5, <3>1, <3>2
    <2>8. Drop(str, k + n) = Drop(text, m)
        <3>1. p + (k + n) = m
            BY <1>4, <1>7
        <3> QED
            BY <1>10, <2>7, <3>1
    <2>9. Drop(Rest, n) = Drop(pattern, b + n)
        BY <1>3, <1>4, <1>7, DropMore
    <2>10. Way(text, pattern, 0, 0, b + n, m)
        <3>1. Way(text, pattern, 0, 0, b, p + k)
            BY <1>1, <1>2, <1>3, <2>6, StarsMatch
        <3>2. Way(text, pattern, b, p + k, b + n, m)
            BY <1>8, <2>6, <2>7
        <3>3. 0 \in Nat /\ 0 <= b /\ b <= b + n
            BY <1>7
        <3> QED
            BY <1>4, <1>7, <3>1, <3>2, <3>3, WayJoined
    <2>11. ASSUME Matches(text, pattern)
           PROVE  Way(text, pattern, b + n, m, Len(pattern), Len(text))
        <3>1. PICK j \in hits :
                Way(text, pattern, b + n, p + j + n, Len(pattern), Len(text))
            BY <1>11, <2>11
        <3>2. j \in Nat /\ k <= j
            BY <2>1, <2>2, <2>5, <3>1
        <3>3. m <= p + j + n
            BY <1>4, <1>7, <3>2
        <3> HIDE DEF m
        <3> QED
            BY <1>4, <1>7, <2>7, <3>1, <3>3, WayOfLonger
    <2> HIDE DEF m
    <2> QED
        BY <1>2, <1>7, <2>4, <2>5, <2>7, <2>8, <2>9, <2>10, <2>11, MovesMeans
<1> QED
    BY <1>12, <1>13

LEMMA OneMeans ==
    ASSUME GlobInv, One
    PROVE  GlobInv'
<1>1. PICK p \in Nat, q \in Nat : GlobAt(p, q)
    BY DEF GlobInv
<1>2. GlobTyped /\ verdict = "none" /\ ~AtStar
    BY DEF GlobInv, One
<1>3. /\ text \in Seq(Char) /\ pattern \in Seq(DOMAIN Lower)
      /\ Len(text) \in Nat /\ Len(pattern) \in Nat
      /\ p \in 0 .. Len(text) /\ q \in 0 .. Len(pattern)
      /\ str = Drop(text, p) /\ expr = Drop(pattern, q)
      /\ Way(text, pattern, 0, 0, q, p)
      /\ Matches(text, pattern) =>
           Way(text, pattern, q, p, Len(pattern), Len(text))
    BY <1>1, <1>2, MatchesIs DEF GlobTyped, GlobAt, Node
<1>4. /\ str \in Seq(Char) /\ Len(str) = Len(text) - p
      /\ expr \in Seq(DOMAIN Lower) /\ Len(expr) = Len(pattern) - q
      /\ \A i \in 1 .. Len(pattern) - q : expr[i] = pattern[q + i]
    BY <1>3, DropIs
<1>5. CASE expr = <<>>
    <2>1. Says(IF str = <<>> THEN "yes" ELSE "no")
        BY <1>5 DEF One
    <2>2. q = Len(pattern)
        BY <1>3, <1>4, <1>5
    <2>3. str = <<>> <=> p = Len(text)
        BY <1>3, <1>4
    <2>4. Matches(text, pattern) <=> p = Len(text)
        <3>1. Len(text) \in 0 .. Len(text)
            BY <1>3
        <3>2. Way(text, pattern, q, p, q, Len(text)) <=> p = Len(text)
            BY <1>3, <3>1, WayOfNone
        <3> QED
            BY <1>2, <1>3, <2>2, <3>2, MatchesIs
    <2> QED
        BY <2>1, <2>3, <2>4, SaysMeans
<1>6. CASE expr # <<>>
    <2>1. /\ q + 1 \in 0 .. Len(pattern) /\ q + 1 <= Len(pattern)
          /\ q + 1 \in Nat /\ q <= q + 1 /\ 1 \in 1 .. Len(pattern) - q
        BY <1>3, <1>4, <1>6
    <2>2. \A i \in 1 .. 1 : pattern[q + i] # "*"
        BY <1>2, <1>4, <1>6, <2>1 DEF AtStar
    <2>3. \A m : Way(text, pattern, q, p, q + 1, m) <=>
                   /\ m = p + 1 /\ m \in 0 .. Len(text)
                   /\ MyCmp(str, expr, 1)
        <3>1. 1 \in Nat
            OBVIOUS
        <3>2. \A m : Way(text, pattern, q, p, q + 1, m) <=>
                   /\ m = p + 1 /\ m \in 0 .. Len(text)
                   /\ MyCmp(Drop(text, p), Drop(pattern, q), 1)
            BY <1>2, <1>3, <2>1, <2>2, <3>1, PieceIs
        <3> QED
            BY <1>3, <3>2
    <2>4. ASSUME Matches(text, pattern)
          PROVE  /\ MyCmp(str, expr, 1)
                 /\ Way(text, pattern, q + 1, p + 1,
                        Len(pattern), Len(text))
        <3>1. PICK k \in 0 .. Len(text) :
                /\ Way(text, pattern, q, p, q + 1, k)
                /\ Way(text, pattern, q + 1, k, Len(pattern), Len(text))
            BY <1>3, <2>1, <2>4, WayCut
        <3> QED
            BY <2>3, <3>1
    <2>5. CASE MyCmp(str, expr, 1)
        <3>1. Moves(Tail(str), Tail(expr))
            BY <1>6, <2>5 DEF One
        <3>2. 1 <= Len(str)
            BY <2>5 DEF MyCmp
        <3>3. /\ p + 1 \in 0 .. Len(text) /\ str # <<>>
              /\ 1 \in 0 .. Len(text) - p /\ 1 \in 0 .. Len(pattern) - q
            BY <1>3, <1>4, <2>1, <3>2
        <3>4. Tail(str) = Drop(text, p + 1)
            <4>1. Tail(str) = Drop(str, 1)
                BY <1>4, <3>3, TailIsDrop
            <4> QED
                BY <1>3, <3>3, <4>1, DropMore
        <3>5. Tail(expr) = Drop(pattern, q + 1)
            <4>1. Tail(expr) = Drop(expr, 1)
                BY <1>4, <1>6, TailIsDrop
            <4> QED
                BY <1>3, <3>3, <4>1, DropMore
        <3>6. Way(text, pattern, 0, 0, q + 1, p + 1)
            <4>1. Way(text, pattern, q, p, q + 1, p + 1)
                BY <2>3, <2>5, <3>3
            <4>2. 0 \in Nat /\ 0 <= q
                BY <1>3
            <4> QED
                BY <1>3, <2>1, <4>1, <4>2, WayJoined
        <3> QED
            BY <1>2, <2>1, <2>4, <3>1, <3>3, <3>4, <3>5, <3>6, MovesMeans
    <2>6. CASE ~MyCmp(str, expr, 1)
        <3>1. Says("no")
            BY <1>6, <2>6 DEF One
        <3> QED
            BY <2>4, <2>6, <3>1, SaysMeans
    <2> QED
        BY <2>5, <2>6
<1> QED
    BY <1>5, <1>6

-----------------------------------------------------------------------------
(***************************************************************************)
(* find (Find).                                                            *)
(***************************************************************************)
FindTypes ==
    /\ at \in {"prompt", "access", "open", "read", "stat", "match", "done"}
    /\ goal \in [path : Path, name : Seq(DOMAIN Lower)]
    /\ tree \in Tree
    /\ dirs \in Seq([path : Path, left : SUBSET Node])
    /\ verdict \in {"none", "yes", "no"}

Finding == goal.path.dev # NoDevice

\* What there is before find, and while it runs: one disk and no jail.
OneDisk ==
    /\ at \in {"open", "read", "stat", "match"} => Finding
    /\ ~Finding =>
         dirs = <<>> /\ printed = {} /\ goal.path.nodes = <<>>
           /\ goal.name = <<>>
    /\ Finding =>
         /\ at \notin {"prompt", "access"}
         /\ vfs_jail = <<>>
         /\ goal.path.dev \in [prefix : {""}, name : Disk]
         /\ asked.dev = goal.path.dev
         /\ \A i \in DOMAIN dirs : dirs[i].path.dev = goal.path.dev
         /\ place = "idle" => answer \in {"missing", "path"}

\* What find has at each of its steps.
AtStep ==
    /\ at \notin {"access", "open", "stat"} => place = "idle"
    /\ at \in {"read", "stat", "match"} => dirs # <<>>
    /\ at = "done" => dirs = <<>>
    /\ at \in {"stat", "match"} => asked.nodes # <<>>
    /\ at = "match" => text = Last(asked.nodes) /\ pattern = goal.name

FInv == FindTypes /\ OneDisk /\ AtStep

LEMMA DiskIsDevice ==
    ASSUME NEW d \in Disk, NEW s \in Seq(Node)
    PROVE  /\ [dev |-> [prefix |-> "", name |-> d], nodes |-> s] \in Path
           /\ [prefix |-> "", name |-> d] \in Device
    BY DEF Path, Device

LEMMA BelowIsPath ==
    ASSUME NEW p \in Path, NEW n \in Node
    PROVE  /\ Below(p, n) \in Path
           /\ Below(p, n).dev = p.dev
           /\ Below(p, n).nodes = Append(p.nodes, n)
           /\ Below(p, n).nodes # <<>>
    BY DEF Below, Path

LEMMA FrontIs ==
    ASSUME NEW S, NEW s \in Seq(S), s # <<>>
    PROVE  /\ Front(s) \in Seq(S) /\ Len(Front(s)) = Len(s) - 1
           /\ \A i \in 1 .. Len(s) - 1 : Front(s)[i] = s[i]
<1>1. PICK r \in Seq(S), x \in S : s = Append(r, x)
    BY SequenceEmptyOrAppend
<1>2. Front(s) = r
    BY <1>1, FrontOfAppend
<1> QED
    BY <1>1, <1>2

LEMMA TopIs ==
    ASSUME FindTypes, dirs # <<>>
    PROVE  /\ Top \in [path : Path, left : SUBSET Node]
           /\ Len(dirs) \in DOMAIN dirs /\ Top = dirs[Len(dirs)]
           /\ Front(dirs) \in Seq([path : Path, left : SUBSET Node])
           /\ Len(Front(dirs)) = Len(dirs) - 1
           /\ \A i \in 1 .. Len(dirs) - 1 : Front(dirs)[i] = dirs[i]
<1> DEFINE S == [path : Path, left : SUBSET Node]
<1>1. dirs \in Seq(S) /\ dirs # <<>>
    BY DEF FindTypes
<1> HIDE DEF S
<1>2. Len(dirs) \in DOMAIN dirs /\ dirs[Len(dirs)] \in S
    BY <1>1
<1>3. /\ Front(dirs) \in Seq(S) /\ Len(Front(dirs)) = Len(dirs) - 1
      /\ \A i \in 1 .. Len(dirs) - 1 : Front(dirs)[i] = dirs[i]
    BY <1>1, FrontIs
<1> QED
    BY <1>2, <1>3 DEF Top, Last, S

LEMMA EntriesAreNames ==
    ASSUME FindTypes, NEW p
    PROVE  Entries(p) \subseteq Node
<1>1. DOMAIN tree \subseteq Seq(Node)
    BY TreeAssumption DEF FindTypes
<1>2. \A q \in DOMAIN tree \ {<<>>} : Last(q) \in Node
    BY <1>1 DEF Last
<1> QED
    BY <1>2 DEF Entries

\* What find does with paths is what Vfs allows.
LEMMA FindStepIsPathStep ==
    ASSUME FInv, VTypeOK, [FindNext]_fvars
    PROVE  [VNext]_vvars
<1>1. asked \in Path
    BY DEF VTypeOK
<1>2. ASSUME NEW p \in Path, Translate(p) PROVE VNext
    BY <1>2 DEF VNext
<1>3. ASSUME NEW d \in Device, Root(d) PROVE VNext
    BY <1>3 DEF Root, VNext
<1>4. ASSUME NEW j \in Jails, Jail(j) PROVE VNext
    BY <1>4 DEF Jail, VNext
<1>5. ASSUME NEW p \in Path, Access(p) PROVE VNext
    BY <1>2, <1>5 DEF Access
<1>6. ASSUME NEW d \in Disk, NEW s \in Seq(Node), NEW n,
             FindCmd([dev |-> [prefix |-> "", name |-> d], nodes |-> s], n)
      PROVE  VNext
    BY <1>2, <1>6, DiskIsDevice DEF FindCmd
<1>7. CASE VStep
    BY <1>7 DEF VNext
<1>8. ASSUME at = "read", NEW n \in Top.left, ReadDir(n) PROVE VNext
    <2>1. Top.path \in Path /\ n \in Node
        BY <1>8, TopIs DEF FInv, AtStep
    <2> QED
        BY <1>2, <1>8, <2>1, BelowIsPath DEF ReadDir
<1>9. CASE Matched
    BY <1>1, <1>2, <1>9 DEF Matched
<1>10. ASSUME \/ GlobStep /\ UNCHANGED <<vvars, tree, finder>>
              \/ Accessed \/ OpenDir \/ CannotOpen \/ Stat \/ CannotStat
              \/ CloseDir \/ Finished \/ UNCHANGED fvars
       PROVE  UNCHANGED vvars
    BY <1>10 DEF Accessed, OpenDir, CannotOpen, Stat, CannotStat, CloseDir,
                 Finished, fvars
<1> QED
    BY <1>3, <1>4, <1>5, <1>6, <1>7, <1>8, <1>9, <1>10
       DEF FindNext, Working
-----------------------------------------------------------------------------
LEMMA FInvStarts == FindInit => FInv
<1> SUFFICES ASSUME FindInit PROVE FInv
    OBVIOUS
<1>1. /\ asked = [dev |-> NoDevice, nodes |-> <<>>]
      /\ goal = [path |-> asked, name |-> <<>>]
      /\ dirs = <<>> /\ printed = {} /\ at = "prompt" /\ place = "idle"
      /\ tree \in Tree /\ verdict = "none"
    BY DEF FindInit, VInit, GlobInit
<1>2. asked \in Path
    BY <1>1 DEF Path
<1>3. /\ goal \in [path : Path, name : Seq(DOMAIN Lower)]
      /\ goal.path.dev = NoDevice /\ goal.path.nodes = <<>>
      /\ goal.name = <<>>
    BY <1>1, <1>2
<1>4. dirs \in Seq([path : Path, left : SUBSET Node])
    BY <1>1
<1> QED
    BY <1>1, <1>3, <1>4 DEF FInv, FindTypes, OneDisk, AtStep, Finding

LEMMA VerdictTyped ==
    ASSUME GlobStep, verdict \in {"none", "yes", "no"}
    PROVE  /\ verdict' \in {"none", "yes", "no"}
           /\ text' = text /\ pattern' = pattern
<1>1. ASSUME NEW v, Says(v)
      PROVE  verdict' = v /\ text' = text /\ pattern' = pattern
    BY <1>1 DEF Says
<1>2. ASSUME NEW s, NEW e, Moves(s, e)
      PROVE  verdict' = verdict /\ text' = text /\ pattern' = pattern
    BY <1>2 DEF Moves
<1>3. CASE StarEnds
    BY <1>1, <1>3 DEF StarEnds
<1>4. CASE StarFinds
    BY <1>1, <1>2, <1>4, Zenon DEF StarFinds
<1>5. CASE StarLast
    BY <1>1, <1>5, Zenon DEF StarLast
<1>6. CASE One
    BY <1>1, <1>2, <1>6, Zenon DEF One
<1> QED
    BY <1>3, <1>4, <1>5, <1>6 DEF GlobStep

\* A step on a path leaves the question and the jail alone; without a jail a
\* disk's path is found or missing.
LEMMA PathStepKeeps ==
    ASSUME VStep
    PROVE  /\ vfs_jail' = vfs_jail /\ mounted' = mounted /\ asked' = asked
           /\ place # "idle"
    BY DEF VStep, Refuse, Raw, Found, NotFound, AppendName, AppendUp, JailEnds,
           Translated, Return, HasDevice, Appending

LEMMA DiskAnswers ==
    ASSUME VStep, OneDisk, Finding, place' = "idle"
    PROVE  answer' \in {"missing", "path"}
<1>1. /\ asked.dev \in [prefix : {""}, name : Disk]
      /\ asked.dev \notin {NoDevice, Unclosed}
    <2>1. asked.dev \in [prefix : {""}, name : Disk]
        BY DEF OneDisk
    <2>2. asked.dev \in Device
        BY <2>1 DEF Device
    <2> QED
        BY <2>1, <2>2, NamesAssumption
<1>2. Used = asked.dev /\ Used.name \in Disk
    BY <1>1 DEF Used
<1>3. ~Refuse
    BY <1>1, <1>2, NamesAssumption DEF Refuse, Unnamed
<1>4. ~Raw
    BY <1>2, NamesAssumption DEF Raw
<1>5. NotFound \/ Translated
    BY <1>3, <1>4 DEF VStep, Found, AppendName, AppendUp, JailEnds, HasDevice,
                      Appending
<1> QED
    BY <1>5 DEF NotFound, Translated, Return

LEMMA FInvKept ==
    ASSUME FInv, VTypeOK, [FindNext]_fvars
    PROVE  FInv'
<1>1. ASSUME NEW d \in Device, Root(d) PROVE FInv'
    BY <1>1 DEF Root, SetRoot, FInv, FindTypes, OneDisk, AtStep, Finding,
                gvars, finder
<1>2. ASSUME NEW j \in Jails, Jail(j) PROVE FInv'
    BY <1>2 DEF Jail, SetJail, FInv, FindTypes, OneDisk, AtStep, Finding,
                gvars, finder
<1>3. ASSUME NEW p \in Path, Access(p) PROVE FInv'
    BY <1>3 DEF Access, Translate, FInv, FindTypes, OneDisk, AtStep, Finding,
                gvars
<1>4. CASE Accessed
    BY <1>4 DEF Accessed, vvars, call, FInv, FindTypes, OneDisk, AtStep,
                Finding, gvars
<1>5. ASSUME NEW d \in Disk, NEW s \in Seq(Node), NEW n \in Seq(DOMAIN Lower),
             FindCmd([dev |-> [prefix |-> "", name |-> d], nodes |-> s], n)
      PROVE  FInv'
    <2> DEFINE p == [dev |-> [prefix |-> "", name |-> d], nodes |-> s]
    <2>1. p \in Path /\ p.dev \in Device
          /\ p.dev \in [prefix : {""}, name : Disk]
        BY DiskIsDevice
    <2>2. /\ at' = "open" /\ goal' = [path |-> p, name |-> n]
          /\ tree' = tree /\ dirs' = dirs /\ printed' = printed
          /\ verdict' = verdict /\ place' = "device" /\ asked' = p
          /\ vfs_jail' = <<>> /\ at = "prompt"
        BY <1>5 DEF FindCmd, Translate, gvars
    <2>3. p.dev # NoDevice
        BY <2>1, NamesAssumption
    <2> HIDE DEF p
    <2>4. dirs' = <<>> /\ ~\E i \in DOMAIN dirs' : TRUE
        BY <2>2 DEF FInv, OneDisk
    <2>5. /\ goal'.path = p /\ goal'.path.dev = p.dev /\ Finding'
          /\ goal' \in [path : Path, name : Seq(DOMAIN Lower)]
        BY <2>1, <2>2, <2>3 DEF Finding
    <2>6. FindTypes'
        BY <2>2, <2>5 DEF FInv, FindTypes
    <2>7. OneDisk'
        BY <2>1, <2>2, <2>4, <2>5 DEF OneDisk
    <2>8. AtStep'
        BY <2>2 DEF AtStep
    <2> QED
        BY <2>6, <2>7, <2>8 DEF FInv
<1>6. CASE VStep /\ UNCHANGED <<gvars, tree, finder>>
    <2>1. /\ UNCHANGED <<at, goal, dirs, printed, tree, text, pattern,
                         verdict>>
          /\ vfs_jail' = vfs_jail /\ asked' = asked /\ place # "idle"
        BY <1>6, PathStepKeeps DEF gvars, finder
    <2>2. OneDisk'
        BY <1>6, <2>1, DiskAnswers DEF FInv, OneDisk, Finding
    <2> QED
        BY <2>1, <2>2 DEF FInv, FindTypes, AtStep
<1>7. CASE at = "match" /\ GlobStep /\ UNCHANGED <<vvars, tree, finder>>
    BY <1>7, VerdictTyped DEF vvars, call, finder, FInv, FindTypes, OneDisk,
                              AtStep, Finding
<1>8. CASE OpenDir
    <2>1. /\ at = "open" /\ at' = "read" /\ place = "idle"
          /\ dirs' = Append(dirs, [path |-> asked, left |-> Entries(path)])
          /\ UNCHANGED <<vfs_jail, asked, place, answer, goal, tree, printed,
                         verdict>>
        BY <1>8 DEF OpenDir, vvars, call, gvars
    <2> DEFINE x == [path |-> asked, left |-> Entries(path)]
    <2>2. x \in [path : Path, left : SUBSET Node] /\ x.path = asked
        BY EntriesAreNames DEF FInv, VTypeOK
    <2> HIDE DEF x
    <2>3. /\ dirs' = Append(dirs, x)
          /\ dirs \in Seq([path : Path, left : SUBSET Node])
        BY <2>1 DEF x, FInv, FindTypes
    <2>4. /\ dirs' \in Seq([path : Path, left : SUBSET Node])
          /\ dirs' # <<>>
          /\ \A i \in DOMAIN dirs' :
               (i \in DOMAIN dirs /\ dirs'[i] = dirs[i]) \/ dirs'[i] = x
        BY <2>2, <2>3
    <2>5. Finding /\ Finding'
        BY <2>1 DEF FInv, OneDisk, Finding
    <2> QED
        BY <2>1, <2>2, <2>4, <2>5 DEF FInv, FindTypes, OneDisk, AtStep
<1>9. CASE CannotOpen
    <2>1. /\ at = "open" /\ place = "idle"
          /\ at' = IF dirs = <<>> THEN "done" ELSE "read"
          /\ UNCHANGED <<vfs_jail, asked, place, answer, goal, tree, printed,
                         verdict, dirs, text, pattern>>
        BY <1>9 DEF CannotOpen, vvars, call, gvars
    <2> QED
        BY <2>1 DEF FInv, FindTypes, OneDisk, AtStep, Finding
<1>10. ASSUME at = "read", NEW n \in Top.left, ReadDir(n) PROVE FInv'
    <2>1. /\ dirs # <<>> /\ Finding
        BY <1>10 DEF FInv, AtStep, OneDisk
    <2> DEFINE x == [Top EXCEPT !.left = @ \ {n}]
               f == Front(dirs)
               b == Below(Top.path, n)
    <2>2. /\ dirs' = Append(f, x) /\ at' = "stat"
          /\ place' = "device" /\ asked' = b
          /\ UNCHANGED <<vfs_jail, goal, tree, printed, verdict>>
        BY <1>10 DEF ReadDir, Translate, gvars
    <2>3. /\ x \in [path : Path, left : SUBSET Node] /\ x.path = Top.path
          /\ Top.path.dev = goal.path.dev /\ Top.path \in Path /\ n \in Node
        BY <1>10, <2>1, TopIs DEF FInv, OneDisk
    <2>4. b.dev = goal.path.dev /\ b.nodes # <<>>
        BY <2>3, BelowIsPath
    <2>5. /\ f \in Seq([path : Path, left : SUBSET Node])
          /\ \A i \in DOMAIN f : i \in DOMAIN dirs /\ f[i] = dirs[i]
        BY <2>1, TopIs DEF FInv, FindTypes
    <2> HIDE DEF x, f, b
    <2>6. /\ dirs' \in Seq([path : Path, left : SUBSET Node])
          /\ dirs' # <<>>
          /\ \A i \in DOMAIN dirs' :
               (i \in DOMAIN f /\ dirs'[i] = f[i]) \/ dirs'[i] = x
        BY <2>2, <2>3, <2>5
    <2>7. \A i \in DOMAIN dirs' : dirs'[i].path.dev = goal.path.dev
        BY <2>1, <2>3, <2>5, <2>6, ZenonT(40) DEF FInv, OneDisk
    <2> QED
        BY <2>1, <2>2, <2>4, <2>6, <2>7
           DEF FInv, FindTypes, OneDisk, AtStep, Finding
<1>11. CASE Stat
    BY <1>11 DEF Stat, Compare, vvars, call, FInv, FindTypes, OneDisk, AtStep,
                 Finding
<1>12. CASE CannotStat
    BY <1>12 DEF CannotStat, vvars, call, gvars, FInv, FindTypes, OneDisk,
                 AtStep, Finding
<1>13. CASE Matched
    <2>1. /\ at = "match" /\ Finding
          /\ UNCHANGED <<goal, tree, dirs, verdict, text, pattern>>
        BY <1>13 DEF Matched, gvars, FInv, OneDisk
    <2>2. CASE IsDir(path)
        <3>1. at' = "open" /\ Translate(asked)
            BY <1>13, <2>2 DEF Matched
        <3> QED
            BY <2>1, <3>1 DEF Translate, FInv, FindTypes, OneDisk, AtStep,
                              Finding
    <2>3. CASE ~IsDir(path)
        <3>1. at' = "read" /\ UNCHANGED vvars
            BY <1>13, <2>3 DEF Matched
        <3> QED
            BY <2>1, <3>1 DEF vvars, call, FInv, FindTypes, OneDisk, AtStep,
                              Finding
    <2> QED
        BY <2>2, <2>3
<1>14. CASE CloseDir
    <2>1. /\ at = "read" /\ dirs' = Front(dirs) /\ Finding /\ dirs # <<>>
          /\ at' = IF dirs' = <<>> THEN "done" ELSE "read"
          /\ UNCHANGED <<vfs_jail, asked, place, answer, goal, tree, printed,
                         verdict, text, pattern>>
        BY <1>14 DEF CloseDir, vvars, call, gvars, FInv, OneDisk, AtStep
    <2>2. /\ dirs' \in Seq([path : Path, left : SUBSET Node])
          /\ \A i \in DOMAIN dirs' : i \in DOMAIN dirs /\ dirs'[i] = dirs[i]
        BY <2>1, TopIs, SMTT(30) DEF FInv, FindTypes
    <2> QED
        BY <2>1, <2>2 DEF FInv, FindTypes, OneDisk, AtStep, Finding
<1>15. CASE UNCHANGED fvars
    BY <1>15 DEF fvars, vvars, call, gvars, finder, FInv, FindTypes, OneDisk,
                 AtStep, Finding
<1> QED
    BY <1>1, <1>2, <1>3, <1>4, <1>5, <1>6, <1>7, <1>8, <1>9, <1>10, <1>11,
       <1>12, <1>13, <1>14, <1>15
       DEF FindNext, Working, Finished

\* find and the rest of the shell use paths as Vfs has them.
LEMMA FInvHolds == FindSpec => [](FInv /\ VInv)
<1>1. FindInit => FInv /\ VInv
    BY FInvStarts, VInvStarts DEF FindInit
<1>2. FInv /\ VInv /\ [FindNext]_fvars => FInv' /\ VInv'
    BY FInvKept, FindStepIsPathStep, VInvKept DEF VInv
<1> QED
    BY <1>1, <1>2, PTL DEF FindSpec

THEOREM FindUsesPaths == FindSpec => VSpec
<1>1. FindInit => VInit
    BY DEF FindInit
<1>2. FInv /\ VInv /\ [FindNext]_fvars => [VNext]_vvars
    BY FindStepIsPathStep DEF VInv
<1> QED
    BY <1>1, <1>2, FInvHolds, PTL DEF FindSpec, VSpec

LEMMA CompareMeans ==
    ASSUME NEW s \in Node, NEW e \in Seq(DOMAIN Lower), Compare(s, e)
    PROVE  GlobInv'
<1>1. /\ text' = s /\ str' = s /\ pattern' = e /\ expr' = e
      /\ verdict' = "none"
    BY DEF Compare
<1>2. /\ s \in Seq(Char) /\ Len(s) \in Nat /\ Len(e) \in Nat
      /\ 0 \in 0 .. Len(s) /\ 0 \in 0 .. Len(e) /\ 0 \in Nat
    BY DEF Node
<1>3. s = Drop(s, 0) /\ e = Drop(e, 0)
    BY <1>2 DEF Drop
<1>4. Way(s, e, 0, 0, 0, 0)
    BY <1>2, WayOfNone
<1>5. Matches(s, e) => Way(s, e, 0, 0, Len(e), Len(s))
    BY <1>2, MatchesIsWay
<1>6. GlobAt(0, 0)'
    BY <1>1, <1>2, <1>3, <1>4, <1>5 DEF GlobAt
<1> QED
    BY <1>1, <1>2, <1>6 DEF GlobInv, GlobTyped, GlobMeans

LEMMA GlobInvStarts == GlobInit => GlobInv
<1> SUFFICES ASSUME GlobInit PROVE GlobInv
    OBVIOUS
<1> DEFINE s == <<>>
<1>1. /\ text = s /\ str = s /\ pattern = s /\ expr = s
      /\ verdict = "none"
    BY DEF GlobInit
<1>2. /\ s \in Node /\ s \in Seq(Char) /\ s \in Seq(DOMAIN Lower)
      /\ Len(s) = 0 /\ 0 \in 0 .. 0 /\ 0 \in Nat
    BY DEF Node
<1>3. s = Drop(s, 0)
    BY DEF Drop
<1> HIDE DEF s
<1>4. Way(s, s, 0, 0, 0, 0)
    BY <1>2, WayOfNone
<1>5. GlobAt(0, 0)
    BY <1>1, <1>2, <1>3, <1>4 DEF GlobAt
<1> QED
    BY <1>1, <1>2, <1>5 DEF GlobInv, GlobTyped, GlobMeans

LEMMA GlobInvKept ==
    ASSUME GlobInv, FInv, VTypeOK, [FindNext]_fvars
    PROVE  GlobInv'
<1>1. ASSUME UNCHANGED gvars PROVE GlobInv'
    BY <1>1 DEF gvars, GlobInv, GlobTyped, GlobAt, GlobMeans
<1>2. CASE GlobStep
    BY <1>2, StarEndsMeans, StarFindsMeans, StarLastMeans, OneMeans
       DEF GlobStep
<1>3. CASE Stat
    <2>1. at = "stat" /\ Compare(Last(asked.nodes), goal.name)
        BY <1>3 DEF Stat
    <2>2. asked.nodes \in Seq(Node) /\ asked.nodes # <<>>
        BY <2>1 DEF VTypeOK, Path, FInv, AtStep
    <2>3. Last(asked.nodes) \in Node
        BY <2>2 DEF Last
    <2>4. goal.name \in Seq(DOMAIN Lower)
        BY DEF FInv, FindTypes
    <2> QED
        BY <2>1, <2>3, <2>4, CompareMeans
<1>4. ASSUME \/ \E d \in Device : Root(d)
             \/ \E j \in Jails : Jail(j)
             \/ \E p \in Path : Access(p)
             \/ \E p, n : FindCmd(p, n)
             \/ VStep /\ UNCHANGED <<gvars, tree, finder>>
             \/ Accessed \/ OpenDir \/ CannotOpen
             \/ \E n \in Top.left : ReadDir(n)
             \/ CannotStat \/ Matched \/ CloseDir \/ UNCHANGED fvars
       PROVE  UNCHANGED gvars
    BY <1>4 DEF Root, Jail, Access, FindCmd, Accessed, OpenDir, CannotOpen,
                ReadDir, CannotStat, Matched, CloseDir, fvars
<1> QED
    BY <1>1, <1>2, <1>3, <1>4 DEF FindNext, Working, Finished

LEMMA GlobInvHolds == FindSpec => []GlobInv
<1>1. FindInit => GlobInv
    BY GlobInvStarts DEF FindInit
<1>2. GlobInv /\ FInv /\ VInv /\ [FindNext]_fvars => GlobInv'
    BY GlobInvKept DEF VInv
<1> QED
    BY <1>1, <1>2, FInvHolds, PTL DEF FindSpec

\* Whatever the text and the pattern, and however many stars it has, "no" is
\* never said of a text that the pattern matches, nor "yes" of one that it
\* does not match and that Taken() does not name.
THEOREM PatternsMean == FindSpec => []GlobMeans
    BY GlobInvHolds, PTL DEF GlobInv

\* Names that are neither "." nor ".." say themselves.
LEMMA PlainNames ==
    ASSUME NEW s \in Seq(Node \ {<<>>, Dot, DotDot})
    PROVE  Meaning(s) = s /\ WithoutHere(s) = s
<1> DEFINE S == Node \ {<<>>, Dot, DotDot}
           T == {n \in Nat : \A t \in Seq(S) :
                   Len(t) = n => Meaning(t) = t /\ WithoutHere(t) = t}
<1>1. 0 \in T
    <2>1. \A t \in Seq(S) : Len(t) = 0 => t = <<>>
        OBVIOUS
    <2> QED
        BY <2>1, MeaningOfNone, HereOfNone
<1>2. ASSUME NEW n \in Nat, n \in T PROVE n + 1 \in T
    <2>1. ASSUME NEW t \in Seq(S), Len(t) = n + 1
          PROVE  Meaning(t) = t /\ WithoutHere(t) = t
        <3>1. t # <<>>
            BY <2>1
        <3> HIDE DEF S
        <3>2. PICK r \in Seq(S), x \in S : t = Append(r, x)
            BY <3>1, SequenceEmptyOrAppend
        <3>3. Len(r) = n
            BY <2>1, <3>2
        <3>4. Meaning(r) = r /\ WithoutHere(r) = r
            BY <1>2, <3>3
        <3>5. r \in Seq(Node) /\ x \in Node /\ x # Dot /\ x # DotDot
            <4> USE DEF S
            <4>1. \A i \in 1 .. Len(r) : r[i] \in Node
                OBVIOUS
            <4> QED
                BY <4>1
        <3>6. Meaning(t) = t
            BY <3>2, <3>4, <3>5, MeaningAppend
        <3>7. WithoutHere(t) = t
            BY <3>2, <3>4, <3>5, HereAppend
        <3> QED
            BY <3>6, <3>7
    <2> QED
        BY <2>1
<1>3. Nat \subseteq T
    <2> HIDE DEF T
    <2> QED
        BY <1>1, <1>2, AllNumbers
<1>4. Len(s) \in Nat /\ s \in Seq(S)
    OBVIOUS
<1> QED
    BY <1>3, <1>4

\* The kernel has at the answer what is at the names that were asked for.
LEMMA AnswerIs ==
    ASSUME VInv, NamesInv, FInv, Finding, answer = "path",
           asked.nodes \in DOMAIN tree
    PROVE  At(path) = asked.nodes
<1> DEFINE a == asked.nodes
<1>1. a \in Seq(Node \ {<<>>, Dot, DotDot})
    BY TreeAssumption DEF FInv, FindTypes
<1>2. Meaning(a) = a /\ WithoutHere(a) = a
    BY <1>1, PlainNames
<1>3. ~HereAndUp
    BY <1>1 DEF HereAndUp, Range
<1>4. WithoutHere(JailNames) = <<>>
    BY HereOfNone DEF FInv, OneDisk, JailNames, Jailed
<1>5. WithoutHere(OnPath) = <<>> \o a
    BY <1>2, <1>3, <1>4 DEF NamesInv, NamesMeant
<1>6. <<>> \o a = a
    BY <1>1
<1> QED
    BY <1>5, <1>6 DEF At, OnPath

-----------------------------------------------------------------------------
\* Of two paths, one on the way to the other.
LEMMA PrefixIs ==
    ASSUME NEW S, NEW s \in Seq(S), NEW t \in Seq(S)
    PROVE  IsPrefix(s, t) <=>
             Len(s) <= Len(t) /\ \A i \in 1 .. Len(s) : s[i] = t[i]
<1>1. SubSeq(s, 1, Len(s)) = s
    OBVIOUS
<1>2. ASSUME Len(s) <= Len(t)
      PROVE  /\ SubSeq(t, 1, Len(s)) \in Seq(S)
             /\ Len(SubSeq(t, 1, Len(s))) = Len(s)
             /\ \A i \in 1 .. Len(s) : SubSeq(t, 1, Len(s))[i] = t[i]
    BY <1>2
<1>3. ASSUME Len(s) <= Len(t), \A i \in 1 .. Len(s) : s[i] = t[i]
      PROVE  s = SubSeq(t, 1, Len(s))
    <2> DEFINE u == SubSeq(t, 1, Len(s))
    <2>1. u \in Seq(S) /\ Len(u) = Len(s) /\ \A i \in 1 .. Len(s) : u[i] = s[i]
        BY <1>2, <1>3
    <2> HIDE DEF u
    <2>2. u = s
        BY <2>1, SeqEqual
    <2> QED
        BY <2>2 DEF u
<1>4. ASSUME Len(s) <= Len(t), s = SubSeq(t, 1, Len(s))
      PROVE  \A i \in 1 .. Len(s) : s[i] = t[i]
    BY <1>2, <1>4
<1> QED
    BY <1>1, <1>3, <1>4 DEF IsPrefix

LEMMA PrefixSelf ==
    ASSUME NEW S, NEW s \in Seq(S)
    PROVE  IsPrefix(s, s)
    BY PrefixIs

\* Behind a path goes one of its names on the way to what is below it.
LEMMA NextOf ==
    ASSUME NEW S, NEW s \in Seq(S), NEW t \in Seq(S), IsStrictPrefix(s, t)
    PROVE  /\ Len(s) + 1 \in 1 .. Len(t) /\ t[Len(s) + 1] \in S
           /\ IsPrefix(Append(s, t[Len(s) + 1]), t)
           /\ SubSeq(t, 1, Len(s)) = s
           /\ SubSeq(t, 1, Len(s) + 1) = Append(s, t[Len(s) + 1])
<1> DEFINE n == Len(s)
<1>1. /\ n \in Nat /\ Len(t) \in Nat /\ n <= Len(t) /\ s # t
      /\ \A i \in 1 .. n : s[i] = t[i]
    BY PrefixIs DEF IsStrictPrefix
<1>2. n # Len(t)
    <2>1. CASE n = Len(t)
        <3>1. s = t
            BY <1>1, <2>1, SeqEqual
        <3> QED
            BY <1>1, <3>1
    <2> QED
        BY <2>1
<1>3. n + 1 \in 1 .. Len(t) /\ n <= Len(t)
    BY <1>1, <1>2
<1>4. t[n + 1] \in S
    BY <1>3
<1> DEFINE a == Append(s, t[n + 1])
           b == SubSeq(t, 1, n + 1)
<1>5. a \in Seq(S) /\ Len(a) = n + 1 /\ \A i \in 1 .. n + 1 : a[i] = t[i]
    BY <1>1, <1>4
<1>6. b \in Seq(S) /\ Len(b) = n + 1 /\ \A i \in 1 .. n + 1 : b[i] = t[i]
    BY <1>3
<1> HIDE DEF a, b
<1>7. IsPrefix(a, t)
    BY <1>3, <1>5, PrefixIs
<1>8. b = a
    BY <1>5, <1>6, SeqEqual
<1>9. SubSeq(t, 1, n) = s
    BY DEF IsStrictPrefix, IsPrefix
<1> QED
    BY <1>3, <1>4, <1>7, <1>8, <1>9 DEF a, b

Dir == goal.path.nodes

\* find goes through names of the tree.
InTree ==
    (Finding /\ Dir \in DOMAIN tree) =>
        /\ asked.nodes \in DOMAIN tree
        /\ \A i \in DOMAIN dirs : \A n \in dirs[i].left :
             Append(dirs[i].path.nodes, n) \in DOMAIN tree

OnlyTaken == \A p \in printed : Taken(Last(p.nodes), goal.name)

\* A path that find has still to come to.
Waits(q) ==
    \/ \E i \in DOMAIN dirs : \E n \in dirs[i].left :
         IsPrefix(Append(dirs[i].path.nodes, n), q)
    \/ at \in {"stat", "match"} /\ IsPrefix(asked.nodes, q)
    \/ at = "open" /\ IsStrictPrefix(asked.nodes, q)

Seen(q) ==
    Matches(Last(q), goal.name) => [goal.path EXCEPT !.nodes = q] \in printed

\* The directory is one, on a disk that there is and whose name is not cut.
Given ==
    /\ Finding /\ Dir \in DOMAIN tree
    /\ goal.path.dev.name \in mounted \ LongName

AllSeen ==
    Given => \A q \in DOMAIN tree :
               IsStrictPrefix(Dir, q) => Waits(q) \/ Seen(q)

SearchInv == InTree /\ OnlyTaken /\ AllSeen

-----------------------------------------------------------------------------
LEMMA TreeIs ==
    ASSUME FindTypes, NEW q \in DOMAIN tree
    PROVE  /\ q \in Seq(Node) /\ Len(q) \in Nat
           /\ q \in Seq(Node \ {<<>>, Dot, DotDot})
           /\ \A n \in 0 .. Len(q) - 1 :
                /\ SubSeq(q, 1, n) \in DOMAIN tree
                /\ tree[SubSeq(q, 1, n)] = "dir"
<1>1. /\ q \in Seq(Node \ {<<>>, Dot, DotDot})
      /\ \A n \in 0 .. Len(q) - 1 :
           SubSeq(q, 1, n) \in DOMAIN tree /\ tree[SubSeq(q, 1, n)] = "dir"
    BY TreeAssumption DEF FindTypes
<1>2. q \in Seq(Node) /\ Len(q) \in Nat
    BY <1>1
<1> QED
    BY <1>1, <1>2

\* Only a directory has something below it, and it has its first name there.
LEMMA BelowDir ==
    ASSUME FindTypes, NEW a \in DOMAIN tree, NEW q \in DOMAIN tree,
           IsStrictPrefix(a, q)
    PROVE  /\ tree[a] = "dir"
           /\ \E n \in Node : IsPrefix(Append(a, n), q)
                               /\ Append(a, n) \in DOMAIN tree
<1>1. /\ a \in Seq(Node) /\ q \in Seq(Node) /\ Len(a) \in Nat /\ Len(q) \in Nat
      /\ \A n \in 0 .. Len(q) - 1 :
           SubSeq(q, 1, n) \in DOMAIN tree /\ tree[SubSeq(q, 1, n)] = "dir"
    BY TreeIs
<1> DEFINE n == q[Len(a) + 1]
<1>2. /\ Len(a) + 1 \in 1 .. Len(q) /\ n \in Node
      /\ IsPrefix(Append(a, n), q)
      /\ SubSeq(q, 1, Len(a)) = a
      /\ SubSeq(q, 1, Len(a) + 1) = Append(a, n)
    BY <1>1, NextOf
<1> HIDE DEF n
<1>3. tree[a] = "dir"
    <2>1. Len(a) \in 0 .. Len(q) - 1
        BY <1>1, <1>2
    <2> QED
        BY <1>1, <1>2, <2>1
<1>4. Append(a, n) \in DOMAIN tree
    <2>1. CASE Len(a) + 1 = Len(q)
        <3>1. SubSeq(q, 1, Len(q)) = q
            BY <1>1
        <3> QED
            BY <1>2, <2>1, <3>1
    <2>2. CASE Len(a) + 1 # Len(q)
        <3>1. Len(a) + 1 \in 0 .. Len(q) - 1
            BY <1>1, <1>2, <2>2
        <3> QED
            BY <1>1, <1>2, <3>1
    <2> QED
        BY <2>1, <2>2
<1> QED
    BY <1>2, <1>3, <1>4

\* The names of a directory.
LEMMA EntriesIs ==
    ASSUME FindTypes, NEW p, NEW n \in Node, At(p) \in Seq(Node)
    PROVE  n \in Entries(p) <=> Append(At(p), n) \in DOMAIN tree
<1> DEFINE a == At(p)
<1>1. ASSUME n \in Entries(p) PROVE Append(a, n) \in DOMAIN tree
    <2>1. PICK q \in DOMAIN tree : q # <<>> /\ Front(q) = a /\ n = Last(q)
        BY <1>1 DEF Entries
    <2>2. q = Append(Front(q), q[Len(q)])
        BY <2>1, TreeIs, FrontAndLast
    <2> QED
        BY <2>1, <2>2 DEF Last
<1>2. ASSUME Append(a, n) \in DOMAIN tree PROVE n \in Entries(p)
    <2> DEFINE q == Append(a, n)
    <2>1. q # <<>> /\ Last(q) = n
        BY DEF Last
    <2>2. Front(q) = a
        BY FrontOfAppend
    <2> HIDE DEF q
    <2>3. q \in {r \in DOMAIN tree \ {<<>>} : Front(r) = a}
        BY <1>2, <2>1, <2>2 DEF q
    <2> QED
        BY <2>1, <2>3 DEF Entries
<1> QED
    BY <1>1, <1>2

\* A find on such a disk is never refused.
LEMMA GivenAnswer ==
    ASSUME VInv, NamesInv, FInv, InTree, Given, place = "idle"
    PROVE  /\ answer = "path" /\ At(path) = asked.nodes
           /\ asked.nodes \in DOMAIN tree
<1>1. /\ asked.dev = goal.path.dev /\ asked.dev # NoDevice
      /\ answer \in {"missing", "path"}
    BY DEF Given, FInv, OneDisk, Finding
<1>2. Used = asked.dev /\ ~Cut
    BY <1>1 DEF Used, Cut, Given
<1>3. answer = "path"
    BY <1>1, <1>2 DEF VInv, OnItsDisk, Given
<1>4. asked.nodes \in DOMAIN tree
    BY DEF InTree, Given
<1> QED
    BY <1>3, <1>4, AnswerIs DEF Given

\* The steps that search.
Search ==
    \/ OpenDir \/ CannotOpen
    \/ \E n \in Top.left : ReadDir(n)
    \/ Stat \/ CannotStat \/ Matched \/ CloseDir

\* The steps that leave the search where it is.
Quiet == UNCHANGED <<at, goal, dirs, printed, tree, mounted, asked>>

LEMMA SearchIs ==
    ASSUME FInv, Search
    PROVE  UNCHANGED <<goal, tree, mounted>> /\ Finding /\ Finding'
<1>1. UNCHANGED <<goal, tree, mounted>>
    BY DEF Search, OpenDir, CannotOpen, ReadDir, Stat, CannotStat, Matched,
           CloseDir, Translate, vvars
<1>2. at \in {"open", "read", "stat", "match"}
    BY DEF Search, OpenDir, CannotOpen, ReadDir, Stat, CannotStat, Matched,
           CloseDir
<1> QED
    BY <1>1, <1>2 DEF FInv, OneDisk, Finding

LEMMA StepIs ==
    ASSUME FInv, [FindNext]_fvars
    PROVE  \/ Search
           \/ \E d \in Disk, s \in Seq(Node), n \in Seq(DOMAIN Lower) :
                FindCmd([dev |-> [prefix |-> "", name |-> d], nodes |-> s], n)
           \/ Quiet /\ (at = "match" =>
                          text' = text /\ pattern' = pattern)
           \/ ~Finding' /\ printed' = {}
<1>1. ASSUME \/ \E d \in Device : Root(d)
             \/ \E j \in Jails : Jail(j)
             \/ \E p \in Path : Access(p)
             \/ Accessed
      PROVE  ~Finding' /\ printed' = {}
    <2>1. UNCHANGED <<goal, printed>> /\ at \in {"prompt", "access"}
        BY <1>1 DEF Root, Jail, Access, Accessed, finder
    <2> QED
        BY <2>1 DEF FInv, OneDisk, Finding
<1>2. CASE VStep /\ UNCHANGED <<gvars, tree, finder>>
    BY <1>2, PathStepKeeps DEF Quiet, gvars, finder
<1>3. CASE GlobStep /\ UNCHANGED <<vvars, tree, finder>>
    BY <1>3, VerdictTyped DEF Quiet, vvars, call, finder, FInv, FindTypes
<1>4. CASE UNCHANGED fvars
    BY <1>4 DEF Quiet, fvars, vvars, call, gvars, finder
<1> QED
    BY <1>1, <1>2, <1>3, <1>4 DEF FindNext, Working, Finished, Search

LEMMA InTreeKept ==
    ASSUME VInv, NamesInv, FInv, InTree, [FindNext]_fvars
    PROVE  InTree'
<1>1. ASSUME NEW d \in Disk, NEW s \in Seq(Node), NEW n,
             FindCmd([dev |-> [prefix |-> "", name |-> d], nodes |-> s], n)
      PROVE  InTree'
    <2> DEFINE p == [dev |-> [prefix |-> "", name |-> d], nodes |-> s]
    <2>1. /\ goal' = [path |-> p, name |-> n] /\ asked' = p
          /\ dirs' = dirs /\ at = "prompt"
        BY <1>1 DEF FindCmd, Translate
    <2> HIDE DEF p
    <2>2. dirs' = <<>> /\ Dir' = p.nodes
        BY <2>1 DEF FInv, OneDisk, Dir
    <2> QED
        BY <2>1, <2>2 DEF InTree
<1>2. CASE Quiet
    BY <1>2 DEF Quiet, InTree, Finding, Dir
<1>3. CASE Search
    <2> SUFFICES ASSUME Dir \in DOMAIN tree
                 PROVE  /\ asked'.nodes \in DOMAIN tree
                        /\ \A i \in DOMAIN dirs' : \A n \in dirs'[i].left :
                             Append(dirs'[i].path.nodes, n) \in DOMAIN tree
        BY <1>3, SearchIs DEF InTree, Dir
    <2>1. /\ asked.nodes \in DOMAIN tree
          /\ \A i \in DOMAIN dirs : \A n \in dirs[i].left :
               Append(dirs[i].path.nodes, n) \in DOMAIN tree
        BY <1>3, SearchIs DEF InTree
    <2>2. CASE OpenDir
        <3> DEFINE x == [path |-> asked, left |-> Entries(path)]
        <3>1. /\ dirs' = Append(dirs, x) /\ asked' = asked /\ answer = "path"
            BY <2>2 DEF OpenDir, vvars, call
        <3>2. At(path) = asked.nodes /\ asked.nodes \in Seq(Node)
            BY <1>3, <2>1, <3>1, AnswerIs, SearchIs, TreeIs DEF FInv
        <3>3. \A n \in x.left : Append(x.path.nodes, n) \in DOMAIN tree
            BY <3>2, EntriesIs, EntriesAreNames DEF FInv
        <3>4. dirs \in Seq([path : Path, left : SUBSET Node])
            BY DEF FInv, FindTypes
        <3> HIDE DEF x
        <3>5. \A i \in DOMAIN dirs' :
                (i \in DOMAIN dirs /\ dirs'[i] = dirs[i]) \/ dirs'[i] = x
            BY <3>1, <3>4
        <3> QED
            BY <2>1, <3>1, <3>3, <3>5
    <2>3. ASSUME NEW n \in Top.left, ReadDir(n)
          PROVE  /\ asked'.nodes \in DOMAIN tree
                 /\ \A i \in DOMAIN dirs' : \A k \in dirs'[i].left :
                      Append(dirs'[i].path.nodes, k) \in DOMAIN tree
        <3> DEFINE x == [Top EXCEPT !.left = @ \ {n}]
                   f == Front(dirs)
        <3>1. /\ dirs' = Append(f, x) /\ asked' = Below(Top.path, n)
              /\ dirs # <<>>
            BY <2>3 DEF ReadDir, Translate, FInv, AtStep
        <3>2. /\ Top \in [path : Path, left : SUBSET Node]
              /\ Len(dirs) \in DOMAIN dirs /\ Top = dirs[Len(dirs)]
              /\ f \in Seq([path : Path, left : SUBSET Node])
              /\ Len(f) = Len(dirs) - 1
              /\ \A i \in 1 .. Len(dirs) - 1 : f[i] = dirs[i]
            BY <3>1, TopIs DEF FInv
        <3>3. asked'.nodes \in DOMAIN tree
            BY <2>1, <3>1, <3>2, BelowIsPath
        <3>4. \A k \in x.left : Append(x.path.nodes, k) \in DOMAIN tree
            BY <2>1, <3>2
        <3> HIDE DEF x, f
        <3>5. \A i \in DOMAIN dirs' :
                (i \in DOMAIN dirs /\ dirs'[i] = dirs[i]) \/ dirs'[i] = x
            BY <3>1, <3>2
        <3> QED
            BY <2>1, <3>3, <3>4, <3>5
    <2>4. CASE CannotOpen \/ Stat \/ CannotStat
        BY <2>1, <2>4 DEF CannotOpen, Stat, CannotStat, vvars, call
    <2>5. CASE Matched
        <3>1. asked' = asked /\ dirs' = dirs
            BY <2>5 DEF Matched, Translate, vvars, call
        <3> QED
            BY <2>1, <3>1
    <2>6. CASE CloseDir
        <3>1. dirs' = Front(dirs) /\ dirs # <<>> /\ asked' = asked
            BY <2>6 DEF CloseDir, FInv, AtStep, vvars, call
        <3>2. \A i \in DOMAIN dirs' : i \in DOMAIN dirs /\ dirs'[i] = dirs[i]
            BY <3>1, TopIs DEF FInv, FindTypes
        <3> QED
            BY <2>1, <3>1, <3>2
    <2> QED
        BY <1>3, <2>2, <2>3, <2>4, <2>5, <2>6 DEF Search
<1>4. CASE ~Finding'
    BY <1>4 DEF InTree
<1> QED
    BY <1>1, <1>2, <1>3, <1>4, StepIs

LEMMA OnlyTakenKept ==
    ASSUME GlobMeans, FInv, OnlyTaken, [FindNext]_fvars
    PROVE  OnlyTaken'
<1>1. ASSUME NEW p, NEW n, FindCmd(p, n) PROVE OnlyTaken'
    BY <1>1 DEF FindCmd, OnlyTaken, FInv, OneDisk
<1>2. CASE Quiet
    BY <1>2 DEF Quiet, OnlyTaken
<1>3. CASE Search /\ ~Matched
    <2>1. printed' = printed /\ goal' = goal
        BY <1>3 DEF Search, OpenDir, CannotOpen, ReadDir, Stat, CannotStat,
                    CloseDir
    <2> QED
        BY <2>1 DEF OnlyTaken
<1>4. CASE Matched
    <2>1. /\ text = Last(asked.nodes) /\ pattern = goal.name /\ goal' = goal
          /\ printed' = IF verdict = "yes" THEN printed \cup {asked}
                                           ELSE printed
        BY <1>4 DEF Matched, FInv, AtStep
    <2>2. verdict = "yes" => Taken(Last(asked.nodes), goal.name)
        BY <2>1 DEF GlobMeans
    <2> QED
        BY <2>1, <2>2 DEF OnlyTaken
<1>5. CASE printed' = {}
    BY <1>5 DEF OnlyTaken
<1> QED
    BY <1>1, <1>2, <1>3, <1>4, <1>5, StepIs

\* What the directories that are read have still to give.
Left(q) ==
    \E i \in DOMAIN dirs : \E n \in dirs[i].left :
      IsPrefix(Append(dirs[i].path.nodes, n), q)

LEMMA AllSeenKept ==
    ASSUME VInv, NamesInv, GlobMeans, FInv, FInv', InTree, AllSeen,
           [FindNext]_fvars
    PROVE  AllSeen'
<1> USE DEF FInv
<1>1. ASSUME NEW d \in Disk, NEW s \in Seq(Node), NEW n,
             FindCmd([dev |-> [prefix |-> "", name |-> d], nodes |-> s], n)
      PROVE  AllSeen'
    BY <1>1 DEF FindCmd, Translate, AllSeen, Waits, Dir
<1>2. CASE Quiet /\ (at = "match" => text' = text /\ pattern' = pattern)
    BY <1>2 DEF Quiet, AllSeen, Given, Finding, Dir, Waits, Seen
<1>3. CASE Search
    <2>1. UNCHANGED <<goal, tree, mounted>>
        BY <1>3, SearchIs
    <2> SUFFICES ASSUME Given', NEW q \in DOMAIN tree',
                        IsStrictPrefix(Dir', q)
                 PROVE  Waits(q)' \/ Seen(q)'
        BY DEF AllSeen, Waits, Seen, IsStrictPrefix, IsPrefix
    <2>0. Given /\ q \in DOMAIN tree /\ IsStrictPrefix(Dir, q)
        BY <2>1, <1>3, SearchIs DEF Given, Dir
    <2>2. Left(q) \/ (Waits(q) /\ ~Left(q)) \/ Seen(q)
        BY <2>0 DEF AllSeen, Waits, Left
    <2>3. ASSUME Seen(q) PROVE Seen(q)'
        <3>1. printed \subseteq printed'
            BY <1>3 DEF Search, OpenDir, CannotOpen, ReadDir, Stat, CannotStat,
                        Matched, CloseDir
        <3> QED
            BY <2>1, <2>3, <3>1 DEF Seen
    <2>4. CASE OpenDir
        <3> DEFINE x == [path |-> asked, left |-> Entries(path)]
        <3>1. /\ dirs' = Append(dirs, x) /\ at = "open" /\ place = "idle"
            BY <2>4 DEF OpenDir
        <3>2. At(path) = asked.nodes /\ asked.nodes \in DOMAIN tree
            BY <3>1, <2>0, GivenAnswer
        <3>3. x.path = asked /\ x.left = Entries(path)
            OBVIOUS
        <3>4. dirs \in Seq([path : Path, left : SUBSET Node])
            BY DEF FindTypes
        <3> HIDE DEF x
        <3>5. /\ \A i \in DOMAIN dirs :
                   i \in DOMAIN dirs' /\ dirs'[i] = dirs[i]
              /\ Len(dirs) + 1 \in DOMAIN dirs' /\ dirs'[Len(dirs) + 1] = x
            BY <3>1, <3>4
        <3>6. Left(q) => Left(q)'
            BY <3>5 DEF Left
        <3>7. ASSUME IsStrictPrefix(asked.nodes, q) PROVE Left(q)'
            <4>1. PICK n \in Node : /\ IsPrefix(Append(asked.nodes, n), q)
                                    /\ Append(asked.nodes, n) \in DOMAIN tree
                BY <3>2, <3>7, <2>0, BelowDir
            <4>2. At(path) \in Seq(Node)
                BY <3>2, TreeIs
            <4>3. n \in Entries(path)
                BY <3>2, <4>1, <4>2, EntriesIs
            <4> QED
                BY <3>3, <3>5, <4>1, <4>3 DEF Left
        <3> QED
            BY <2>2, <2>3, <3>1, <3>6, <3>7 DEF Waits, Left
    <2>5. CASE CannotOpen
        <3>1. /\ at = "open" /\ place = "idle" /\ dirs' = dirs
              /\ ~(answer = "path" /\ IsDir(path))
            BY <2>5 DEF CannotOpen
        <3>2. /\ At(path) = asked.nodes /\ asked.nodes \in DOMAIN tree
              /\ answer = "path"
            BY <3>1, <2>0, GivenAnswer
        <3>3. tree[asked.nodes] # "dir"
            BY <3>1, <3>2 DEF IsDir
        <3>4. ~IsStrictPrefix(asked.nodes, q)
            BY <3>2, <3>3, <2>0, BelowDir
        <3> QED
            BY <2>2, <2>3, <3>1, <3>4 DEF Waits, Left
    <2>6. ASSUME NEW n \in Top.left, ReadDir(n)
          PROVE  Waits(q)' \/ Seen(q)'
        <3> DEFINE x == [Top EXCEPT !.left = @ \ {n}]
                   f == Front(dirs)
        <3>1. /\ dirs' = Append(f, x) /\ asked' = Below(Top.path, n)
              /\ dirs # <<>> /\ at = "read" /\ at' = "stat"
            BY <2>6 DEF ReadDir, Translate, AtStep
        <3>2. /\ Top \in [path : Path, left : SUBSET Node]
              /\ Len(dirs) \in DOMAIN dirs /\ Top = dirs[Len(dirs)]
              /\ f \in Seq([path : Path, left : SUBSET Node])
              /\ Len(f) = Len(dirs) - 1
              /\ \A i \in 1 .. Len(dirs) - 1 : f[i] = dirs[i]
            BY <3>1, TopIs
        <3>3. x.path = Top.path /\ x.left = Top.left \ {n}
            BY <3>2
        <3>4. asked'.nodes = Append(Top.path.nodes, n)
            BY <3>1, <3>2, BelowIsPath
        <3> HIDE DEF x, f
        <3>5. /\ \A i \in DOMAIN dirs :
                   i # Len(dirs) => i \in DOMAIN dirs' /\ dirs'[i] = dirs[i]
              /\ Len(dirs) \in DOMAIN dirs' /\ dirs'[Len(dirs)] = x
            <4>1. dirs \in Seq([path : Path, left : SUBSET Node])
                BY DEF FindTypes
            <4> QED
                BY <3>1, <3>2, <4>1
        <3>6. ASSUME Left(q) PROVE Left(q)' \/ IsPrefix(asked'.nodes, q)
            <4>0. PICK i \in DOMAIN dirs : \E k \in dirs[i].left :
                    IsPrefix(Append(dirs[i].path.nodes, k), q)
                BY <3>6 DEF Left
            <4>1. PICK k \in dirs[i].left :
                    IsPrefix(Append(dirs[i].path.nodes, k), q)
                BY <4>0
            <4>2. CASE i # Len(dirs)
                BY <3>5, <4>1, <4>2 DEF Left
            <4>3. CASE i = Len(dirs) /\ k = n
                BY <3>2, <3>4, <4>1, <4>3
            <4>4. CASE i = Len(dirs) /\ k # n
                <5>1. k \in x.left
                    BY <3>2, <3>3, <4>1, <4>4
                <5> QED
                    BY <3>2, <3>3, <3>5, <4>1, <4>4, <5>1 DEF Left
            <4> QED
                BY <4>2, <4>3, <4>4
        <3> QED
            BY <2>2, <2>3, <3>1, <3>6 DEF Waits, Left
    <2>7. CASE Stat
        <3>1. /\ at = "stat" /\ at' = "match"
              /\ UNCHANGED <<dirs, asked>>
            BY <2>7 DEF Stat, vvars, call
        <3> QED
            BY <2>2, <2>3, <3>1 DEF Waits, Left
    <2>8. ~CannotStat
        BY <2>0, GivenAnswer DEF CannotStat, Exists
    <2>9. CASE Matched
        <3>1. /\ at = "match" /\ place = "idle"
              /\ asked' = asked /\ dirs' = dirs /\ verdict # "none"
              /\ at' = IF IsDir(path) THEN "open" ELSE "read"
              /\ printed' = IF verdict = "yes" THEN printed \cup {asked}
                                               ELSE printed
            BY <2>9 DEF Matched, Translate, vvars, call, AtStep
        <3>2. /\ At(path) = asked.nodes /\ asked.nodes \in DOMAIN tree
            BY <3>1, <2>0, GivenAnswer
        <3>3. ASSUME asked.nodes = q PROVE Seen(q)'
            <4>1. [goal.path EXCEPT !.nodes = q] = asked
                <5>1. asked.dev = goal.path.dev /\ asked.nodes = q
                    BY <2>0, <3>3 DEF OneDisk, Given
                <5>2. asked \in Path /\ goal.path \in Path
                    BY DEF VInv, VTypeOK, FindTypes
                <5> QED
                    BY <5>1, <5>2 DEF Path
            <4>2. Matches(Last(q), goal.name) => verdict = "yes"
                BY <3>1, <3>3 DEF GlobMeans, AtStep, FindTypes
            <4> QED
                BY <2>1, <3>1, <4>1, <4>2 DEF Seen
        <3>4. IsStrictPrefix(asked.nodes, q) => IsDir(path)
            BY <3>2, <2>0, BelowDir DEF IsDir
        <3> QED
            BY <2>2, <2>3, <3>1, <3>3, <3>4 DEF Waits, Left, IsStrictPrefix
    <2>10. CASE CloseDir
        <3>1. /\ dirs' = Front(dirs) /\ dirs # <<>> /\ at = "read"
              /\ Top.left = {}
            BY <2>10 DEF CloseDir, AtStep
        <3>2. /\ Top = dirs[Len(dirs)]
              /\ \A i \in DOMAIN dirs :
                   i # Len(dirs) => i \in DOMAIN dirs' /\ dirs'[i] = dirs[i]
            BY <3>1, TopIs DEF FindTypes
        <3>3. Left(q) => Left(q)'
            BY <3>1, <3>2 DEF Left
        <3> QED
            BY <2>2, <2>3, <3>1, <3>3 DEF Waits, Left
    <2> QED
        BY <1>3, <2>4, <2>5, <2>6, <2>7, <2>8, <2>9, <2>10 DEF Search
<1>4. CASE ~Finding'
    BY <1>4 DEF AllSeen, Given
<1> QED
    BY <1>1, <1>2, <1>3, <1>4, StepIs

LEMMA SearchHolds == FindSpec => [](FInv /\ VInv /\ GlobInv /\ SearchInv)
<1>1. FindInit => SearchInv
    <2>1. FindInit => ~Finding /\ printed = {}
        BY FInvStarts DEF FInv, OneDisk, FindInit, Finding, VInit
    <2> QED
        BY <2>1 DEF SearchInv, InTree, OnlyTaken, AllSeen, Given
<1>2. /\ VInv /\ NamesInv /\ GlobInv /\ FInv /\ FInv' /\ SearchInv
      /\ [FindNext]_fvars
      => SearchInv'
    BY InTreeKept, OnlyTakenKept, AllSeenKept DEF SearchInv, GlobInv
<1>3. FindSpec => []NamesInv
    BY FindUsesPaths, NamesHold, PTL
<1> QED
    BY <1>1, <1>2, <1>3, FInvHolds, GlobInvHolds, PTL DEF FindSpec

\* When find has come to its end, it has printed every path below its
\* directory whose name matches, in any tree and whatever order readdir() gives
\* the names in, and no path whose name is not taken for a match.
THEOREM FindPrintsAll == FindSpec => []FindsAll
<1>1. ASSUME FInv, VInv, GlobInv, SearchInv
      PROVE  FindsAll
    <2> SUFFICES ASSUME at = "done", answer = "path", ~Cut,
                        Dir \in DOMAIN tree, NEW q \in DOMAIN tree,
                        IsStrictPrefix(Dir, q)
                 PROVE  /\ Matches(Last(q), goal.name) =>
                             [goal.path EXCEPT !.nodes = q] \in printed
                        /\ [goal.path EXCEPT !.nodes = q] \in printed =>
                             Taken(Last(q), goal.name)
        BY DEF FindsAll, Dir
    <2> DEFINE p == [goal.path EXCEPT !.nodes = q]
    <2>1. p.nodes = q
        BY <1>1 DEF FInv, FindTypes, Path
    <2> HIDE DEF p
    <2>2. p \in printed => Taken(Last(q), goal.name)
        BY <1>1, <2>1 DEF SearchInv, OnlyTaken
    <2>3. ASSUME Matches(Last(q), goal.name) PROVE p \in printed
        <3>1. CASE Finding
            <4>1. /\ Used = goal.path.dev /\ goal.path.dev.name \in Disk
                  /\ goal.path.dev.name \notin LongName
                BY <1>1, <3>1 DEF FInv, OneDisk, Finding, Used, Cut
            <4>2. goal.path.dev.name \in mounted
                BY <1>1, <4>1, NamesAssumption DEF VInv, OnItsDisk
            <4>3. Waits(q) \/ Seen(q)
                BY <1>1, <3>1, <4>1, <4>2 DEF SearchInv, AllSeen, Given
            <4>4. ~Waits(q)
                BY <1>1 DEF Waits, FInv, AtStep
            <4> QED
                BY <2>3, <4>3, <4>4 DEF Seen, p
        <3>2. CASE ~Finding
            <4>1. goal.name = <<>> /\ Dir = <<>>
                BY <1>1, <3>2 DEF FInv, OneDisk, Dir
            <4>2. /\ q \in Seq(Node \ {<<>>, Dot, DotDot}) /\ Len(q) \in Nat
                  /\ q # <<>>
                BY <1>1, <4>1, TreeIs DEF FInv, IsStrictPrefix
            <4>3. Last(q) \in Seq(Char) /\ Last(q) # <<>>
                BY <4>2 DEF Last, Node
            <4> DEFINE e == <<>>
                       s == Last(q)
            <4>4. e \in Seq({}) /\ Len(e) = 0 /\ goal.name = e
                BY <4>1
            <4> HIDE DEF e, s
            <4>5. /\ s \in Seq(Char) /\ Len(s) \in Nat /\ Len(s) # 0
                  /\ 0 \in 0 .. Len(s) /\ Len(s) \in 0 .. Len(s) /\ 0 \in Nat
                BY <4>3 DEF s
            <4>6. Way(s, e, 0, 0, 0, Len(s))
                BY <2>3, <4>4, <4>5, MatchesIsWay DEF s
            <4> QED
                BY <4>5, <4>6, WayOfNone
        <3> QED
            BY <3>1, <3>2
    <2> QED
        BY <2>2, <2>3 DEF p
<1> QED
    BY <1>1, SearchHolds, PTL
=============================================================================

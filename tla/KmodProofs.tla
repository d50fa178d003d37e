----------------------------- MODULE KmodProofs -----------------------------
(***************************************************************************)
(* The safety properties of Kmod, for any modules, dependencies and files. *)
(* The invariant says of each frame what its loops have done so far; the   *)
(* frames are chained by the dependency each one waits for.                *)
(***************************************************************************)
EXTENDS Kmod, SequenceTheorems, TLAPS

(***************************************************************************)
(* What a frame f has achieved, when k is the kernel, L the modules that   *)
(* can be loaded, r and d the two directories and b says if d is there.    *)
(***************************************************************************)
DirOf(f, r, d) == IF f.dir = "rootfs" THEN r ELSE d

Good(f, k, L, r, d, b) ==
    /\ f.cur = NoModule => f.deps = <<>>
    /\ f.cur # NoModule =>
         /\ Range(f.deps) \subseteq Needs(f.cur)
         /\ DirOf(f, r, d)[f.cur] = "good" =>
              Needs(f.cur) \subseteq k \cup Range(f.deps)
    /\ f.dir = "boot" => b
    /\ f.mod # NoModule =>
         /\ f.left \subseteq {f.mod}
         /\ f.cur \in {NoModule, f.mod}
         /\ f.any = 1 => f.mod \in k
    /\ f.mod \in L =>
         /\ DirOf(f, r, d)[f.mod] = "good" =>
              f.mod \in f.left \cup {f.cur} \/ f.any = 1
         /\ f.dir = "boot" => r[f.mod] # "good"
    /\ f.mod = NoModule =>
         \A m \in L : r[m] = "good" =>
            m \in k \/ (f.dir = "rootfs" /\ m \in f.left \cup {f.cur})

\* Frame g was opened for the next dependency of frame f.
Link(f, g) ==
    /\ f.cur # NoModule
    /\ f.deps # <<>>
    /\ g.mod = Head(f.deps)

FramesGood ==
    \A i \in 1 .. Len(stack) :
        Good(stack[i], kernel, Loadable, rootfs, bootDir, boot)

Chained ==
    \A i \in 1 .. Len(stack) - 1 : Link(stack[i], stack[i + 1])

AnswerFits ==
    (stack # <<>> /\ ret # "none") =>
        /\ Top.cur # NoModule
        /\ Top.deps # <<>>
        /\ ret = "yes" => Head(Top.deps) \in kernel
        /\ ret = "no" => Head(Top.deps) \notin Loadable

Phases ==
    /\ stack # <<>> => phase \in {"initramfs", "remaining"}
    /\ stack # <<>> => stack[1].mod = NoModule
    /\ phase = "initramfs" => ~boot
    /\ phase \in {"extract", "remaining"} => boot
    /\ phase = "extract" => ret = "none"
    /\ (stack = <<>> /\ phase # "extract") =>
         \A m \in Loadable : rootfs[m] = "good" => m \in kernel

\* What is being extracted is not there yet.
Writing ==
    /\ \A h \in left : \E t \in Archive : h \in tars[t]
    /\ out # NoFile =>
         /\ phase = "extract" /\ rootfs[out[1]] = "absent"
         /\ \E t \in Archive : out \in tars[t]

KInv ==
    /\ KTypeOK
    /\ Writing
    /\ DepsLoaded
    /\ FramesGood
    /\ Chained
    /\ AnswerFits
    /\ Phases

-----------------------------------------------------------------------------
(***************************************************************************)
(* Sequences, and the set of the modules that can be loaded.               *)
(***************************************************************************)
\* All but the last element of a stack.
LEMMA FrontOfStack ==
    ASSUME NEW F, NEW s \in Seq(F), s # <<>>
    PROVE  /\ Len(s) \in Nat /\ Len(s) >= 1
           /\ Front(s) \in Seq(F) /\ Len(Front(s)) = Len(s) - 1
           /\ \A i \in 1 .. Len(s) - 1 : Front(s)[i] = s[i]
<1>1. Len(s) \in Nat /\ Len(s) >= 1
  OBVIOUS
<1>2. \A i \in 1 .. Len(s) - 1 : s[i] \in F
  OBVIOUS
<1>3. /\ SubSeq(s, 1, Len(s) - 1) \in Seq(F)
      /\ Len(SubSeq(s, 1, Len(s) - 1)) =
           IF 1 <= Len(s) - 1 THEN Len(s) - 1 - 1 + 1 ELSE 0
      /\ \A i \in 1 .. Len(s) - 1 - 1 + 1 :
           SubSeq(s, 1, Len(s) - 1)[i] = s[1 + i - 1]
  BY <1>1, <1>2, SubSeqProperties, 1 \in Int, Len(s) - 1 \in Int
<1>4. Len(SubSeq(s, 1, Len(s) - 1)) = Len(s) - 1
  <2>1. ASSUME NEW n \in Nat, n >= 1,
               NEW l, l = IF 1 <= n - 1 THEN n - 1 - 1 + 1 ELSE 0
        PROVE  l = n - 1
    BY <2>1, SMT
  <2>2. QED
    BY <1>1, <1>3, <2>1
<1>5. ASSUME NEW i \in 1 .. Len(s) - 1
      PROVE  SubSeq(s, 1, Len(s) - 1)[i] = s[i]
  <2>1. i \in 1 .. Len(s) - 1 - 1 + 1 /\ 1 + i - 1 = i
    BY <1>1
  <2>2. QED
    BY <1>3, <2>1
<1>6. Front(s) = SubSeq(s, 1, Len(s) - 1)
  BY DEF Front
<1>7. QED
  BY <1>1, <1>3, <1>4, <1>5, <1>6

\* Pushing an element leaves the others in place.
LEMMA PushTop ==
    ASSUME NEW F, NEW s \in Seq(F), NEW g \in F, NEW t, t = Append(s, g)
    PROVE  /\ t \in Seq(F) /\ Len(t) = Len(s) + 1 /\ t # <<>>
           /\ Last(t) = g /\ t[Len(t)] = g
           /\ \A i \in 1 .. Len(s) : t[i] = s[i]
  BY DEF Last

\* Popping an element leaves the others in place.
LEMMA PopTop ==
    ASSUME NEW F, NEW s \in Seq(F), s # <<>>, NEW t, t = Front(s)
    PROVE  /\ t \in Seq(F) /\ Len(t) = Len(s) - 1
           /\ t # <<>> => Len(s) > 1 /\ Last(t) = s[Len(s) - 1]
           /\ t = <<>> => Len(s) = 1
           /\ \A i \in 1 .. Len(s) - 1 : t[i] = s[i]
<1>1. /\ Len(s) \in Nat /\ Len(s) >= 1
      /\ t \in Seq(F) /\ Len(t) = Len(s) - 1
      /\ \A i \in 1 .. Len(s) - 1 : t[i] = s[i]
  BY FrontOfStack
<1>2. t = <<>> <=> Len(s) = 1
  BY <1>1
<1>3. t # <<>> => Last(t) = s[Len(s) - 1]
  BY <1>1, <1>2 DEF Last
<1>4. QED
  BY <1>1, <1>2, <1>3

\* The head and the tail of a sequence make up its elements.
LEMMA RangeOfTail ==
    ASSUME NEW F, NEW s \in Seq(F), s # <<>>
    PROVE  /\ Head(s) \in Range(s) /\ Head(s) \in F
           /\ Tail(s) \in Seq(F)
           /\ Range(Tail(s)) \subseteq Range(s)
           /\ Range(s) \subseteq {Head(s)} \cup Range(Tail(s))
<1>1. Head(s) = s[1] /\ 1 \in 1 .. Len(s)
  OBVIOUS
<1>2. \A i \in 1 .. Len(Tail(s)) :
         Tail(s)[i] = s[i + 1] /\ i + 1 \in 1 .. Len(s)
  OBVIOUS
<1>3. \A i \in 2 .. Len(s) :
         i - 1 \in 1 .. Len(Tail(s)) /\ Tail(s)[i - 1] = s[i]
  OBVIOUS
<1>4. Range(Tail(s)) \subseteq Range(s)
  BY <1>2 DEF Range
<1>5. Range(s) \subseteq {Head(s)} \cup Range(Tail(s))
  <2>1. SUFFICES ASSUME NEW i \in DOMAIN s
                 PROVE  s[i] \in {Head(s)} \cup Range(Tail(s))
    BY DEF Range
  <2>2. CASE i = 1
    BY <1>1, <2>2
  <2>3. CASE i \in 2 .. Len(s)
    <3>1. i - 1 \in DOMAIN Tail(s) /\ Tail(s)[i - 1] = s[i]
      BY <1>3, <2>3
    <3>2. QED
      BY <3>1 DEF Range
  <2>4. QED
    BY <2>1, <2>2, <2>3
<1>6. QED
  BY <1>1, <1>4, <1>5 DEF Range

\* What can be loaded as a whole is closed: its members' needs are in it.
LEMMA LoadableClosed ==
    \A m \in Loadable :
        m \in Module /\ Usable(m) /\ Needs(m) \subseteq Loadable
  BY DEF Loadable, Closed

\* What a frame has achieved is not undone by a kernel that grows.
LEMMA GoodStays ==
    ASSUME NEW f \in Frame, NEW k, NEW kk, k \subseteq kk,
           NEW L, NEW r, NEW d, NEW b, Good(f, k, L, r, d, b)
    PROVE  Good(f, kk, L, r, d, b)
  BY DEF Good

\* A frame that was just opened for a module.
LEMMA OpenIsFrame ==
    ASSUME KTypeOK, NEW f \in Module \cup {NoModule},
           NEW dir \in {"rootfs", "boot"}
    PROVE  Open(f, dir) \in Frame
  BY DEF Open, Frame, Entries, KTypeOK

LEMMA OpenIsGood ==
    ASSUME KTypeOK, NEW f \in Module \cup {NoModule},
           NEW dir \in {"rootfs", "boot"},
           dir = "boot" => boot,
           (dir = "boot" /\ f \in Loadable) => rootfs[f] # "good",
           (dir = "boot" /\ f = NoModule) =>
             \A m \in Loadable : rootfs[m] = "good" => m \in kernel
    PROVE  Good(Open(f, dir), kernel, Loadable, rootfs, bootDir, boot)
<1>1. \A m \in Loadable : m \in Module
  BY LoadableClosed
<1>2. f = NoModule =>
        \A m \in Module : rootfs[m] = "good" => m \in Entries("rootfs", f)
  BY DEF Entries, Content
<1>3. f \in Module =>
        (Content(dir)[f] = "good" => f \in Entries(dir, f))
        /\ Entries(dir, f) \subseteq {f}
  BY NoModuleAssumption DEF Entries
<1>4. QED
  BY <1>1, <1>2, <1>3, NoModuleAssumption
     DEF Good, Open, DirOf, Content

-----------------------------------------------------------------------------
(***************************************************************************)
(* The three things that happen to the stack.                              *)
(***************************************************************************)
\* What can be loaded depends on the files only.
LEMMA SameLoadable ==
    ASSUME UNCHANGED files
    PROVE  Loadable' = Loadable
  BY DEF files, tarvars, Loadable, Closed, Usable

\* The frame at the top is a frame.
LEMMA TopIsFrame ==
    ASSUME KTypeOK, stack # <<>>
    PROVE  /\ Top \in Frame /\ Top = stack[Len(stack)]
           /\ Len(stack) \in Nat /\ Len(stack) >= 1
  BY DEF KTypeOK, Top, Last

\* The frame at the top is good.
LEMMA TopIsGood ==
    ASSUME KTypeOK, FramesGood, stack # <<>>
    PROVE  Good(Top, kernel, Loadable, rootfs, bootDir, boot)
  BY TopIsFrame DEF FramesGood

\* The frames of the stack are good for a kernel that has grown.
LEMMA FramesStay ==
    ASSUME KTypeOK, FramesGood, UNCHANGED files, kernel \subseteq kernel',
           NEW i \in 1 .. Len(stack)
    PROVE  /\ stack[i] \in Frame
           /\ Good(stack[i], kernel', Loadable', rootfs', bootDir', boot')
<1>1. stack[i] \in Frame
  BY DEF KTypeOK
<1>2. Good(stack[i], kernel, Loadable, rootfs, bootDir, boot)
  BY DEF FramesGood
<1>3. Good(stack[i], kernel', Loadable, rootfs, bootDir, boot)
  BY <1>1, <1>2, GoodStays
<1>4. QED
  BY <1>1, <1>3, SameLoadable DEF files, tarvars

\* The frame at the top goes on.
LEMMA Replaced ==
    ASSUME KTypeOK, FramesGood, Chained, stack # <<>>, UNCHANGED files,
           kernel \subseteq kernel', NEW g \in Frame, SetTop(g),
           g.mod = Top.mod,
           Good(g, kernel', Loadable, rootfs, bootDir, boot)
    PROVE  /\ stack' \in Seq(Frame) /\ stack' # <<>> /\ Top' = g
           /\ stack'[1].mod = stack[1].mod
           /\ FramesGood' /\ Chained'
<1>1. /\ stack' \in Seq(Frame) /\ Len(stack') = Len(stack)
      /\ stack' # <<>> /\ Last(stack') = g /\ stack'[Len(stack)] = g
      /\ \A i \in 1 .. Len(stack) - 1 : stack'[i] = stack[i]
  <2>1. stack \in Seq(Frame)
    BY DEF KTypeOK
  <2>2. stack' = Append(Front(stack), g)
    BY DEF SetTop
  <2>3. /\ Len(stack) \in Nat /\ Len(stack) >= 1
        /\ Front(stack) \in Seq(Frame)
        /\ Len(Front(stack)) = Len(stack) - 1
        /\ \A i \in 1 .. Len(stack) - 1 : Front(stack)[i] = stack[i]
    BY <2>1, FrontOfStack
  <2>4. stack' \in Seq(Frame) /\ Len(stack') = Len(stack)
    BY <2>2, <2>3
  <2>5. stack' # <<>> /\ stack'[Len(stack)] = g
    BY <2>2, <2>3
  <2>6. \A i \in 1 .. Len(stack) - 1 : stack'[i] = stack[i]
    BY <2>2, <2>3
  <2>7. Last(stack') = g
    BY <2>4, <2>5 DEF Last
  <2>8. QED
    BY <2>4, <2>5, <2>6, <2>7
<1>2. Top = stack[Len(stack)] /\ Len(stack) \in Nat /\ Len(stack) >= 1
  BY TopIsFrame
<1>3. FramesGood'
  <2>1. SUFFICES ASSUME NEW i \in 1 .. Len(stack)
                 PROVE  Good(stack'[i], kernel', Loadable', rootfs', bootDir',
                             boot')
    BY <1>1 DEF FramesGood
  <2>2. CASE i = Len(stack)
    BY <1>1, <2>2, SameLoadable DEF files, tarvars
  <2>3. CASE i \in 1 .. Len(stack) - 1
    BY <1>1, <2>3, FramesStay
  <2>4. QED
    BY <1>2, <2>2, <2>3
<1>4. Chained'
  <2>1. SUFFICES ASSUME NEW i \in 1 .. Len(stack) - 1
                 PROVE  Link(stack'[i], stack'[i + 1])
    BY <1>1 DEF Chained
  <2>2. Link(stack[i], stack[i + 1]) /\ stack'[i] = stack[i]
    BY <1>1 DEF Chained
  <2>3. stack'[i + 1].mod = stack[i + 1].mod
    <3>1. CASE i + 1 = Len(stack)
      BY <1>1, <1>2, <3>1
    <3>2. CASE i + 1 \in 1 .. Len(stack) - 1
      BY <1>1, <3>2
    <3>3. QED
      BY <1>2, <3>1, <3>2
  <2>4. QED
    BY <2>2, <2>3 DEF Link
<1>5. stack'[1].mod = stack[1].mod
  <2>1. CASE Len(stack) = 1
    <3>1. stack'[1] = g /\ Top = stack[1]
      BY <1>1, <1>2, <2>1
    <3>2. QED
      BY <3>1
  <2>2. CASE Len(stack) # 1
    <3>1. Len(stack) \in Nat /\ Len(stack) >= 1 /\ Len(stack) # 1
      BY <1>2, <2>2
    <3>2. \A n \in Nat : n >= 1 /\ n # 1 => 1 \in 1 .. n - 1
      OBVIOUS
    <3>3. 1 \in 1 .. Len(stack) - 1
      BY <3>1, <3>2
    <3>4. QED
      BY <1>1, <3>3
  <2>3. QED
    BY <2>1, <2>2
<1>6. QED
  BY <1>1, <1>3, <1>4, <1>5 DEF Top

\* A frame is opened for the next dependency.
LEMMA Pushed ==
    ASSUME KTypeOK, FramesGood, Chained, stack # <<>>, UNCHANGED files,
           UNCHANGED kernel, NEW g \in Frame, stack' = Append(stack, g),
           Link(Top, g),
           Good(g, kernel, Loadable, rootfs, bootDir, boot)
    PROVE  /\ stack' \in Seq(Frame) /\ stack' # <<>>
           /\ stack'[1].mod = stack[1].mod
           /\ FramesGood' /\ Chained'
<1>1. /\ stack' \in Seq(Frame) /\ Len(stack') = Len(stack) + 1
      /\ stack' # <<>> /\ stack'[Len(stack')] = g
      /\ \A i \in 1 .. Len(stack) : stack'[i] = stack[i]
  BY PushTop DEF KTypeOK
<1>2. Top = stack[Len(stack)] /\ Len(stack) \in Nat /\ Len(stack) >= 1
  BY TopIsFrame
<1>3. FramesGood'
  <2>1. SUFFICES ASSUME NEW i \in 1 .. Len(stack) + 1
                 PROVE  Good(stack'[i], kernel', Loadable', rootfs', bootDir',
                             boot')
    BY <1>1 DEF FramesGood
  <2>2. CASE i = Len(stack) + 1
    BY <1>1, <2>2, SameLoadable DEF files, tarvars
  <2>3. CASE i \in 1 .. Len(stack)
    BY <1>1, <2>3, FramesStay
  <2>4. QED
    BY <1>2, <2>2, <2>3
<1>4. Chained'
  <2>1. SUFFICES ASSUME NEW i \in 1 .. Len(stack)
                 PROVE  Link(stack'[i], stack'[i + 1])
    BY <1>1, <1>2 DEF Chained
  <2>2. CASE i = Len(stack)
    BY <1>1, <1>2, <2>2
  <2>3. CASE i \in 1 .. Len(stack) - 1
    <3>1. Link(stack[i], stack[i + 1])
      BY <2>3 DEF Chained
    <3>2. i + 1 \in 1 .. Len(stack)
      BY <2>3, <1>2
    <3>3. QED
      BY <1>1, <3>1, <3>2
  <2>4. QED
    BY <1>2, <2>2, <2>3
<1>5. QED
  BY <1>1, <1>2, <1>3, <1>4

\* load_kmod() returns to the modprobe() that waits for it, or to main().
LEMMA Popped ==
    ASSUME KTypeOK, FramesGood, Chained, stack # <<>>, UNCHANGED files,
           UNCHANGED kernel, stack' = Front(stack)
    PROVE  /\ stack' \in Seq(Frame)
           /\ stack' # <<>> =>
                stack'[1].mod = stack[1].mod /\ Link(Top', Top)
           /\ stack' = <<>> => Top = stack[1]
           /\ FramesGood' /\ Chained'
<1>1. /\ stack' \in Seq(Frame) /\ Len(stack') = Len(stack) - 1
      /\ stack' # <<>> =>
           Len(stack) > 1 /\ Last(stack') = stack[Len(stack) - 1]
      /\ stack' = <<>> => Len(stack) = 1
      /\ \A i \in 1 .. Len(stack) - 1 : stack'[i] = stack[i]
  BY PopTop DEF KTypeOK
<1>2. Top = stack[Len(stack)] /\ Len(stack) \in Nat /\ Len(stack) >= 1
  BY TopIsFrame
<1>3. FramesGood'
  <2>1. SUFFICES ASSUME NEW i \in 1 .. Len(stack) - 1
                 PROVE  Good(stack'[i], kernel', Loadable', rootfs', bootDir',
                             boot')
    BY <1>1 DEF FramesGood
  <2>2. i \in 1 .. Len(stack)
    BY <1>2
  <2>3. QED
    BY <1>1, <2>2, FramesStay
<1>4. Chained'
  <2>1. SUFFICES ASSUME NEW i \in 1 .. Len(stack) - 1 - 1
                 PROVE  Link(stack'[i], stack'[i + 1])
    BY <1>1 DEF Chained
  <2>2. i \in 1 .. Len(stack) - 1 /\ i + 1 \in 1 .. Len(stack) - 1
    BY <1>2
  <2>3. QED
    BY <1>1, <2>2 DEF Chained
<1>5. ASSUME stack' # <<>>
      PROVE  stack'[1].mod = stack[1].mod /\ Link(Top', Top)
  <2>1. /\ 1 \in 1 .. Len(stack) - 1
        /\ Len(stack) - 1 \in 1 .. Len(stack) - 1
        /\ Len(stack) - 1 + 1 = Len(stack)
    BY <1>1, <1>2, <1>5
  <2>2. Link(stack[Len(stack) - 1], stack[Len(stack)])
    BY <2>1 DEF Chained
  <2>3. Top' = stack[Len(stack) - 1]
    BY <1>1, <1>5 DEF Top
  <2>4. QED
    BY <1>1, <1>2, <2>1, <2>2, <2>3
<1>6. QED
  BY <1>1, <1>2, <1>3, <1>4, <1>5

-----------------------------------------------------------------------------
(***************************************************************************)
(* Every step preserves the invariant.                                     *)
(***************************************************************************)
\* What is the same for every step that leaves a call of load_kmod() open.
LEMMA Within ==
    ASSUME KInv, stack # <<>>, UNCHANGED <<phase, files>>,
           stack' \in Seq(Frame), stack' # <<>>,
           stack'[1].mod = stack[1].mod, FramesGood', Chained', AnswerFits',
           DepsLoaded', kernel' \subseteq Module,
           ret' \in {"none", "yes", "no"}
    PROVE  KInv'
<1>1. KTypeOK'
  BY DEF KInv, KTypeOK, AnswerFits, files, tarvars
<1>2. Phases' /\ Writing'
  BY DEF KInv, Phases, Writing, files, tarvars
<1>3. QED
  BY <1>1, <1>2 DEF KInv

\* No answer is waited for in front of a directory.
LEMMA NoAnswer ==
    ASSUME KInv, Reading \/ Loading
    PROVE  ret = "none"
  BY DEF KInv, AnswerFits, Reading, Loading

LEMMA ReadEntryStep ==
    ASSUME KInv, NEW m \in Module, ReadEntry(m)
    PROVE  KInv'
<1>0. PICK e \in {Depends[m]} \cup IF Works(Top.dir, m) THEN {} ELSE {<<>>} :
        SetTop([Top EXCEPT !.left = @ \ {m}, !.cur = m, !.deps = e])
  BY DEF ReadEntry
<1> DEFINE g == [Top EXCEPT !.left = @ \ {m}, !.cur = m, !.deps = e]
<1>1. /\ KTypeOK /\ FramesGood /\ Chained /\ stack # <<>> /\ SetTop(g)
      /\ UNCHANGED files /\ kernel' = kernel /\ ret' = "none" /\ ret = "none"
      /\ UNCHANGED phase /\ Top.cur = NoModule /\ m \in Top.left
  BY <1>0, NoAnswer DEF KInv, ReadEntry, Reading
<1>2. Top \in Frame /\ Good(Top, kernel, Loadable, rootfs, bootDir, boot)
  BY <1>1, TopIsFrame, TopIsGood
<1>3. /\ g \in Frame
      /\ g.mod = Top.mod /\ g.dir = Top.dir /\ g.any = Top.any
      /\ g.left = Top.left \ {m} /\ g.cur = m /\ g.deps = e
  <2>1. e \in Seq(Module)
    BY <1>0, DependsAssumption, EmptySeq
  <2>2. QED
    BY <1>2, <2>1 DEF Frame
<1>4. Good(g, kernel', Loadable, rootfs, bootDir, boot)
  <2>1. /\ Range(g.deps) \subseteq Needs(g.cur)
        /\ DirOf(g, rootfs, bootDir)[g.cur] = "good" =>
             Needs(g.cur) \subseteq kernel \cup Range(g.deps)
    <3>1. CASE e = Depends[m]
      BY <1>3, <3>1 DEF Needs
    <3>2. CASE e # Depends[m]
      <4>1. e = <<>> /\ ~Works(Top.dir, m)
        BY <1>0, <3>2
      <4>2. Range(e) = {}
        BY <4>1 DEF Range
      <4>3. QED
        BY <1>3, <4>1, <4>2 DEF Works, Content, DirOf
    <3>3. QED
      BY <3>1, <3>2
  <2>2. Top.left \cup {Top.cur} \subseteq g.left \cup {g.cur, NoModule}
    BY <1>1, <1>3
  <2>3. \A n \in Loadable : n # NoModule
    BY LoadableClosed, NoModuleAssumption
  <2>4. QED
    BY <1>1, <1>2, <1>3, <2>1, <2>2, <2>3, NoModuleAssumption
       DEF Good, DirOf
<1>5. /\ stack' \in Seq(Frame) /\ stack' # <<>>
      /\ stack'[1].mod = stack[1].mod /\ FramesGood' /\ Chained'
  BY <1>1, <1>3, <1>4, Replaced
<1>6. QED
  BY <1>1, <1>5, Within DEF KInv, KTypeOK, AnswerFits, DepsLoaded

\* The file that is passed by is one that init_module() would not take.
LEMMA PassEntryStep ==
    ASSUME KInv, NEW m \in Module, PassEntry(m)
    PROVE  KInv'
<1> DEFINE g == [Top EXCEPT !.left = @ \ {m}]
<1>1. /\ KTypeOK /\ FramesGood /\ Chained /\ stack # <<>> /\ SetTop(g)
      /\ UNCHANGED files /\ kernel' = kernel /\ ret' = "none" /\ ret = "none"
      /\ UNCHANGED phase /\ Top.cur = NoModule /\ m \in Top.left
      /\ ~Works(Top.dir, m)
  BY NoAnswer DEF KInv, PassEntry, Reading
<1>2. Top \in Frame /\ Good(Top, kernel, Loadable, rootfs, bootDir, boot)
  BY <1>1, TopIsFrame, TopIsGood
<1>3. /\ g \in Frame
      /\ g.mod = Top.mod /\ g.dir = Top.dir /\ g.any = Top.any
      /\ g.left = Top.left \ {m} /\ g.cur = Top.cur /\ g.deps = Top.deps
  BY <1>2 DEF Frame
<1>4. Good(g, kernel', Loadable, rootfs, bootDir, boot)
  <2>1. DirOf(Top, rootfs, bootDir)[m] # "good"
    BY <1>1 DEF Works, Content, DirOf
  <2>2. QED
    BY <1>1, <1>2, <1>3, <2>1 DEF Good, DirOf
<1>5. /\ stack' \in Seq(Frame) /\ stack' # <<>>
      /\ stack'[1].mod = stack[1].mod /\ FramesGood' /\ Chained'
  BY <1>1, <1>3, <1>4, Replaced
<1>6. QED
  BY <1>1, <1>5, Within DEF KInv, KTypeOK, AnswerFits, DepsLoaded

LEMMA LoadDepStep ==
    ASSUME KInv, LoadDep
    PROVE  KInv'
<1> DEFINE g == Open(Head(Top.deps), "rootfs")
<1>1. /\ KTypeOK /\ FramesGood /\ Chained /\ stack # <<>>
      /\ stack' = Append(stack, g)
      /\ UNCHANGED files /\ UNCHANGED kernel /\ ret' = "none"
      /\ UNCHANGED phase /\ Top.cur # NoModule /\ Top.deps # <<>>
  BY DEF KInv, LoadDep, Loading
<1>2. Top \in Frame
  BY <1>1, TopIsFrame
<1>3. Top.deps \in Seq(Module) /\ Head(Top.deps) \in Module
  BY <1>1, <1>2, RangeOfTail DEF Frame
<1>4. g \in Frame
  BY <1>1, <1>3, OpenIsFrame
<1>5. Good(g, kernel, Loadable, rootfs, bootDir, boot)
  BY <1>1, <1>3, OpenIsGood
<1>6. Link(Top, g)
  BY <1>1 DEF Link, Open
<1>7. /\ stack' \in Seq(Frame) /\ stack' # <<>>
      /\ stack'[1].mod = stack[1].mod /\ FramesGood' /\ Chained'
  BY <1>1, <1>4, <1>5, <1>6, Pushed
<1>8. QED
  BY <1>1, <1>7, Within DEF KInv, KTypeOK, AnswerFits, DepsLoaded

LEMMA DepLoadedStep ==
    ASSUME KInv, DepLoaded
    PROVE  KInv'
<1> DEFINE g == [Top EXCEPT !.deps = Tail(@)]
<1>1. /\ KTypeOK /\ FramesGood /\ Chained /\ stack # <<>> /\ SetTop(g)
      /\ UNCHANGED files /\ kernel' = kernel /\ ret' = "none"
      /\ UNCHANGED phase /\ Top.cur # NoModule /\ Top.deps # <<>>
      /\ Head(Top.deps) \in kernel
  BY DEF KInv, DepLoaded, DepAnswered, AnswerFits
<1>2. Top \in Frame /\ Good(Top, kernel, Loadable, rootfs, bootDir, boot)
  BY <1>1, TopIsFrame, TopIsGood
<1>3. /\ Tail(Top.deps) \in Seq(Module)
      /\ Range(Tail(Top.deps)) \subseteq Range(Top.deps)
      /\ Range(Top.deps) \subseteq kernel \cup Range(Tail(Top.deps))
  <2>1. Top.deps \in Seq(Module)
    BY <1>2 DEF Frame
  <2>2. QED
    BY <1>1, <2>1, RangeOfTail
<1>4. /\ g \in Frame
      /\ g.mod = Top.mod /\ g.dir = Top.dir /\ g.any = Top.any
      /\ g.left = Top.left /\ g.cur = Top.cur /\ g.deps = Tail(Top.deps)
  BY <1>2, <1>3 DEF Frame
<1>5. Good(g, kernel', Loadable, rootfs, bootDir, boot)
  BY <1>1, <1>2, <1>3, <1>4 DEF Good, DirOf
<1>6. /\ stack' \in Seq(Frame) /\ stack' # <<>>
      /\ stack'[1].mod = stack[1].mod /\ FramesGood' /\ Chained'
  BY <1>1, <1>4, <1>5, Replaced
<1>7. QED
  BY <1>1, <1>6, Within DEF KInv, KTypeOK, AnswerFits, DepsLoaded

\* modprobe() returns: what Done() needs to keep the invariant.
LEMMA DoneStep ==
    ASSUME KInv, stack # <<>>, NEW r \in {0, 1}, Done(r),
           UNCHANGED <<phase, files>>, ret' = "none",
           kernel \subseteq kernel', kernel' \subseteq Module, DepsLoaded',
           Top.cur # NoModule,
           r = 1 => Top.cur \in kernel',
           (r = 0 /\ Top.cur \in Loadable) =>
             DirOf(Top, rootfs, bootDir)[Top.cur] # "good"
    PROVE  KInv'
<1> DEFINE g == [Top EXCEPT !.any = IF r = 1 THEN 1 ELSE @,
                            !.cur = NoModule, !.deps = <<>>]
<1>1. /\ KTypeOK /\ FramesGood /\ Chained /\ SetTop(g) /\ UNCHANGED files
  BY DEF KInv, Done
<1>2. Top \in Frame /\ Good(Top, kernel, Loadable, rootfs, bootDir, boot)
  BY <1>1, TopIsFrame, TopIsGood
<1>3. /\ g \in Frame
      /\ g.mod = Top.mod /\ g.dir = Top.dir
      /\ g.any = 1 => Top.any = 1 \/ r = 1
      /\ Top.any = 1 \/ r = 1 => g.any = 1
      /\ g.left = Top.left /\ g.cur = NoModule /\ g.deps = <<>>
  <2>1. g.mod = Top.mod /\ g.dir = Top.dir /\ g.left = Top.left
    BY <1>2 DEF Frame
  <2>2. g.cur = NoModule /\ g.deps = <<>>
    BY <1>2 DEF Frame
  <2>3. g.any = IF r = 1 THEN 1 ELSE Top.any
    BY <1>2 DEF Frame
  <2>4. g \in Frame
    <3>1. \A a \in {0, 1} :
            [Top EXCEPT !.any = a, !.cur = NoModule, !.deps = <<>>] \in Frame
      <4>1. \A q \in Seq(Module) : \A a \in {0, 1} :
              [Top EXCEPT !.any = a, !.cur = NoModule, !.deps = q] \in Frame
        BY <1>2 DEF Frame
      <4>2. QED
        BY <4>1, EmptySeq
    <3>2. (IF r = 1 THEN 1 ELSE Top.any) \in {0, 1}
      BY <1>2 DEF Frame
    <3>3. QED
      BY <3>1, <3>2
  <2>5. QED
    BY <2>1, <2>2, <2>3, <2>4
<1>4. Good(g, kernel', Loadable, rootfs, bootDir, boot)
  <2>1. Good(Top, kernel', Loadable, rootfs, bootDir, boot)
    BY <1>2, GoodStays
  <2>2. Top.dir \in {"rootfs", "boot"}
    BY <1>2 DEF Frame
  <2>3. g.mod # NoModule =>
          /\ g.left \subseteq {g.mod} /\ g.cur \in {NoModule, g.mod}
          /\ g.any = 1 => g.mod \in kernel'
    BY <1>3, <2>1 DEF Good
  <2>4. g.mod \in Loadable =>
          /\ DirOf(g, rootfs, bootDir)[g.mod] = "good" =>
               g.mod \in g.left \cup {g.cur} \/ g.any = 1
          /\ g.dir = "boot" => rootfs[g.mod] # "good"
    BY <1>3, <2>1, LoadableClosed, NoModuleAssumption DEF Good, DirOf
  <2>5. g.mod = NoModule =>
          \A m \in Loadable : rootfs[m] = "good" =>
             m \in kernel' \/ (g.dir = "rootfs" /\ m \in g.left \cup {g.cur})
    BY <1>3, <2>1, <2>2 DEF Good, DirOf
  <2>6. g.dir = "boot" => boot
    BY <1>3, <2>1 DEF Good
  <2>7. QED
    BY <1>3, <2>3, <2>4, <2>5, <2>6 DEF Good
<1>5. /\ stack' \in Seq(Frame) /\ stack' # <<>>
      /\ stack'[1].mod = stack[1].mod /\ FramesGood' /\ Chained'
  BY <1>1, <1>3, <1>4, Replaced
<1>6. QED
  BY <1>5, Within DEF AnswerFits

LEMMA DepMissingStep ==
    ASSUME KInv, DepMissing
    PROVE  KInv'
<1>1. /\ stack # <<>> /\ Done(0) /\ UNCHANGED <<phase, files>>
      /\ ret' = "none" /\ kernel' = kernel /\ Top.cur # NoModule
      /\ Top.deps # <<>> /\ Head(Top.deps) \notin Loadable /\ KTypeOK
  BY DEF KInv, DepMissing, DepAnswered, AnswerFits
<1>2. Top \in Frame /\ Good(Top, kernel, Loadable, rootfs, bootDir, boot)
  BY <1>1, TopIsFrame, TopIsGood DEF KInv
<1>3. Head(Top.deps) \in Needs(Top.cur)
  <2>1. Top.deps \in Seq(Module)
    BY <1>2 DEF Frame
  <2>2. Head(Top.deps) \in Range(Top.deps)
    BY <1>1, <2>1, RangeOfTail
  <2>3. QED
    BY <1>1, <1>2, <2>2 DEF Good
<1>4. Top.cur \notin Loadable
  BY <1>1, <1>3, LoadableClosed
<1>5. DepsLoaded' /\ kernel' \subseteq Module
  BY <1>1 DEF KInv, DepsLoaded, KTypeOK
<1>6. QED
  BY <1>1, <1>4, <1>5, DoneStep

LEMMA InsertStep ==
    ASSUME KInv, Insert
    PROVE  KInv'
<1>1. /\ stack # <<>> /\ Done(1) /\ UNCHANGED <<phase, files>>
      /\ ret' = "none" /\ kernel' = kernel \cup {Top.cur}
      /\ Top.cur # NoModule /\ Top.deps = <<>> /\ KTypeOK
  BY DEF KInv, Insert, Loading
<1>2. Top \in Frame /\ Good(Top, kernel, Loadable, rootfs, bootDir, boot)
  BY <1>1, TopIsFrame, TopIsGood DEF KInv
<1>3. Needs(Top.cur) \subseteq kernel
  <2>1. Range(Top.deps) = {}
    BY <1>1 DEF Range
  <2>2. DirOf(Top, rootfs, bootDir)[Top.cur] = "good"
    BY DEF Insert, Works, Content, DirOf
  <2>3. QED
    BY <1>1, <1>2, <2>1, <2>2 DEF Good
<1>4. kernel' \subseteq Module
  BY <1>1, <1>2 DEF KTypeOK, Frame
<1>5. DepsLoaded'
  BY <1>1, <1>3 DEF KInv, DepsLoaded
<1>6. QED
  BY <1>1, <1>4, <1>5, DoneStep

LEMMA InsertFailsStep ==
    ASSUME KInv, InsertFails
    PROVE  KInv'
<1>1. /\ stack # <<>> /\ Done(0) /\ UNCHANGED <<phase, files>>
      /\ ret' = "none" /\ kernel' = kernel /\ Top.cur # NoModule
      /\ DirOf(Top, rootfs, bootDir)[Top.cur] # "good"
  BY DEF KInv, InsertFails, Loading, Works, Content, DirOf
<1>2. DepsLoaded' /\ kernel' \subseteq Module
  BY <1>1 DEF KInv, DepsLoaded, KTypeOK
<1>3. QED
  BY <1>1, <1>2, DoneStep

LEMMA TryBootDiskStep ==
    ASSUME KInv, TryBootDisk
    PROVE  KInv'
<1> DEFINE g == Open(Top.mod, "boot")
<1>1. /\ KTypeOK /\ FramesGood /\ Chained /\ stack # <<>> /\ SetTop(g)
      /\ UNCHANGED files /\ kernel' = kernel /\ ret' = "none" /\ ret = "none"
      /\ UNCHANGED phase /\ Top.cur = NoModule /\ Top.left = {}
      /\ Top.any = 0 /\ Top.dir = "rootfs" /\ boot
  BY NoAnswer DEF KInv, TryBootDisk, EndOfDir, Reading
<1>2. Top \in Frame /\ Good(Top, kernel, Loadable, rootfs, bootDir, boot)
  BY <1>1, TopIsFrame, TopIsGood
<1>3. Top.mod \in Module \cup {NoModule}
  BY <1>2 DEF Frame
<1>4. g \in Frame /\ g.mod = Top.mod
  BY <1>1, <1>3, OpenIsFrame DEF Open
<1>5. \A m \in Loadable : m \in Module /\ m # NoModule
  BY LoadableClosed, NoModuleAssumption
<1>6. Top.mod \in Loadable => rootfs[Top.mod] # "good"
  BY <1>1, <1>2, <1>5 DEF Good, DirOf
<1>7. Top.mod = NoModule =>
        \A m \in Loadable : rootfs[m] = "good" => m \in kernel
  BY <1>1, <1>2, <1>5 DEF Good
<1>8. Good(g, kernel', Loadable, rootfs, bootDir, boot)
  BY <1>1, <1>3, <1>6, <1>7, OpenIsGood
<1>9. /\ stack' \in Seq(Frame) /\ stack' # <<>>
      /\ stack'[1].mod = stack[1].mod /\ FramesGood' /\ Chained'
  BY <1>1, <1>4, <1>8, Replaced
<1>10. QED
  BY <1>1, <1>9, Within DEF KInv, KTypeOK, AnswerFits, DepsLoaded

\* load_kmod() returns: what its answer needs to keep the invariant.
LEMMA ReturnStep ==
    ASSUME KInv, EndOfDir, stack' = Front(stack),
           UNCHANGED <<phase, kernel, files>>, ret' \in {"yes", "no"},
           (ret' = "yes" /\ Top.mod # NoModule) => Top.mod \in kernel,
           ret' = "no" => Top.mod \notin Loadable
    PROVE  KInv'
<1>1. /\ KTypeOK /\ FramesGood /\ Chained /\ stack # <<>>
      /\ UNCHANGED files /\ UNCHANGED kernel
      /\ Top.cur = NoModule /\ Top.left = {}
  BY DEF KInv, EndOfDir, Reading
<1>2. /\ stack' \in Seq(Frame)
      /\ stack' # <<>> => stack'[1].mod = stack[1].mod /\ Link(Top', Top)
      /\ stack' = <<>> => Top = stack[1]
      /\ FramesGood' /\ Chained'
  BY <1>1, Popped
<1>3. Good(Top, kernel, Loadable, rootfs, bootDir, boot)
  BY <1>1, TopIsGood
<1>4. AnswerFits'
  <2>1. SUFFICES ASSUME stack' # <<>>
                 PROVE  /\ Top'.cur # NoModule /\ Top'.deps # <<>>
                        /\ ret' = "yes" => Head(Top'.deps) \in kernel'
                        /\ ret' = "no" => Head(Top'.deps) \notin Loadable'
    BY DEF AnswerFits
  <2>2. /\ Top'.cur # NoModule /\ Top'.deps # <<>>
        /\ Top.mod = Head(Top'.deps)
    BY <1>2, <2>1 DEF Link
  <2>3. Head(Top'.deps) \in Module
    <3>1. Top' \in Frame
      BY <1>2, <2>1 DEF Top, Last
    <3>2. Top'.deps \in Seq(Module)
      BY <3>1 DEF Frame
    <3>3. QED
      BY <2>2, <3>2, RangeOfTail
  <2>4. Top.mod # NoModule
    BY <2>2, <2>3, NoModuleAssumption
  <2>5. QED
    BY <1>1, <2>2, <2>4, SameLoadable
<1>5. Phases'
  <2>1. stack' = <<>> =>
          \A m \in Loadable : rootfs[m] = "good" => m \in kernel
    BY <1>1, <1>2, <1>3, LoadableClosed, NoModuleAssumption
       DEF KInv, Phases, Good
  <2>2. Loadable' = Loadable
    BY <1>1, SameLoadable
  <2>3. QED
    BY <1>1, <1>2, <2>1, <2>2 DEF KInv, Phases, files, tarvars
<1>6. KTypeOK' /\ DepsLoaded' /\ Writing'
  BY <1>1, <1>2, <1>4
     DEF KInv, KTypeOK, DepsLoaded, AnswerFits, Writing, files, tarvars
<1>7. QED
  BY <1>2, <1>4, <1>5, <1>6 DEF KInv

LEMMA ReturnYesStep ==
    ASSUME KInv, ReturnYes
    PROVE  KInv'
<1>1. /\ EndOfDir /\ stack # <<>> /\ stack' = Front(stack) /\ Top.any = 1
      /\ UNCHANGED <<phase, kernel, files>> /\ ret' = "yes"
  BY DEF ReturnYes, EndOfDir, Reading
<1>2. Good(Top, kernel, Loadable, rootfs, bootDir, boot)
  BY <1>1, TopIsGood DEF KInv
<1>3. Top.mod # NoModule => Top.mod \in kernel
  BY <1>1, <1>2 DEF Good
<1>4. QED
  BY <1>1, <1>3, ReturnStep

LEMMA ReturnNoStep ==
    ASSUME KInv, ReturnNo
    PROVE  KInv'
<1>1. /\ EndOfDir /\ stack # <<>> /\ stack' = Front(stack) /\ Top.any = 0
      /\ Top.left = {} /\ Top.cur = NoModule
      /\ Top.dir = "boot" \/ ~boot
      /\ UNCHANGED <<phase, kernel, files>> /\ ret' = "no"
  BY DEF ReturnNo, EndOfDir, Reading
<1>2. /\ Top \in Frame
      /\ Good(Top, kernel, Loadable, rootfs, bootDir, boot)
  BY <1>1, TopIsFrame, TopIsGood DEF KInv
<1>3. Top.mod \notin Loadable
  <2>1. SUFFICES ASSUME Top.mod \in Loadable
                 PROVE  FALSE
    OBVIOUS
  <2>2. Usable(Top.mod) /\ Top.mod # NoModule
    BY <2>1, LoadableClosed, NoModuleAssumption
  <2>3. DirOf(Top, rootfs, bootDir)[Top.mod] # "good"
    BY <1>1, <1>2, <2>1, <2>2 DEF Good
  <2>4. CASE Top.dir = "boot"
    BY <1>2, <2>1, <2>2, <2>3, <2>4 DEF Good, DirOf, Usable
  <2>5. CASE Top.dir = "rootfs"
    BY <1>1, <2>2, <2>3, <2>5 DEF DirOf, Usable
  <2>6. QED
    BY <1>2, <2>4, <2>5 DEF Frame
<1>4. QED
  BY <1>1, <1>3, ReturnStep

LEMMA FindBootDiskStep ==
    ASSUME KInv, FindBootDisk
    PROVE  KInv'
<1>1. /\ KTypeOK /\ phase = "initramfs" /\ stack = <<>> /\ stack' = <<>>
      /\ boot' \in BOOLEAN /\ boot = FALSE /\ ret' = "none"
      /\ phase' = IF boot' THEN "extract" ELSE "done"
      /\ unread' \subseteq Archive
      /\ out = NoFile
      /\ UNCHANGED <<kernel, rootfs, tars, left, out, bootDir>>
  BY DEF KInv, KTypeOK, Phases, Writing, FindBootDisk
<1>2. KTypeOK' /\ Writing'
  BY <1>1 DEF KInv, KTypeOK, Writing
<1>3. DepsLoaded'
  BY <1>1 DEF KInv, DepsLoaded
<1>4. FramesGood' /\ Chained' /\ AnswerFits'
  BY <1>1 DEF FramesGood, Chained, AnswerFits
<1>5. Phases'
  <2>1. CASE boot'
    BY <1>1, <2>1 DEF Phases
  <2>2. CASE ~boot'
    <3>1. Loadable' = Loadable
      BY <1>1, <2>2 DEF Loadable, Closed, Usable
    <3>2. \A m \in Loadable : rootfs[m] = "good" => m \in kernel
      BY <1>1 DEF KInv, Phases
    <3>3. QED
      BY <1>1, <2>2, <3>1, <3>2 DEF Phases
  <2>3. QED
    BY <2>1, <2>2
<1>6. QED
  BY <1>2, <1>3, <1>4, <1>5 DEF KInv

\* A header that has been taken is a file of an archive.
LEMMA HeaderTaken ==
    ASSUME KTypeOK, Writing, NEW h \in Header, TarHeader(h)
    PROVE  /\ UNCHANGED <<rootfs, tars, unread>> /\ left' \subseteq left
           /\ out' # NoFile =>
                /\ out' = h /\ h \in File /\ rootfs[h[1]] = "absent"
                /\ \E t \in Archive : h \in tars[t]
<1>1. /\ h \in left /\ left' = left \ {h}
      /\ out' = IF h[2] # "link" /\ rootfs[h[1]] = "absent" THEN h ELSE NoFile
      /\ UNCHANGED <<rootfs, tars, unread>>
  BY DEF TarHeader
<1>2. h[2] # "link" => h \in File
  BY DEF Header, File
<1>3. QED
  BY <1>1, <1>2 DEF Writing

\* A file that has a name is the one that was being written.
LEMMA TarStepChange ==
    ASSUME KTypeOK, Writing, phase = "extract", TarStep
    PROVE  /\ rootfs' \in Directory /\ UNCHANGED tars
           /\ unread' \subseteq Archive /\ left' \subseteq Header
           /\ \A h \in left' : \E t \in Archive : h \in tars[t]
           /\ out' \in File \cup {NoFile}
           /\ out' # NoFile =>
                /\ rootfs'[out'[1]] = "absent"
                /\ \E t \in Archive : out' \in tars[t]
           /\ \A m \in Module :
                rootfs'[m] # rootfs[m] =>
                   /\ rootfs[m] = "absent"
                   /\ \/ \E t \in Archive : <<m, rootfs'[m]>> \in tars[t]
                      \/ TarCut
<1>1. /\ rootfs \in Directory /\ tars \in [Archive -> SUBSET Header]
      /\ unread \subseteq Archive /\ left \subseteq Header
      /\ \A h \in left : \E t \in Archive : h \in tars[t]
      /\ out \in File \cup {NoFile}
      /\ out # NoFile =>
           rootfs[out[1]] = "absent" /\ \E t \in Archive : out \in tars[t]
  BY DEF KTypeOK, Writing
<1>2. out # NoFile =>
        out[1] \in Module /\ out[2] \in {"good", "bad"} /\ out = <<out[1], out[2]>>
  BY <1>1 DEF File
<1>3. CASE \E h \in Header : TarHeader(h)
  BY <1>1, <1>3, HeaderTaken
<1>4. CASE TarRename
  <2>1. /\ out # NoFile /\ out' = NoFile /\ UNCHANGED <<tars, unread, left>>
        /\ rootfs' = [rootfs EXCEPT ![out[1]] = out[2]]
    BY <1>4 DEF TarRename
  <2>2. /\ rootfs' \in Directory
        /\ \A m \in Module : rootfs'[m] # rootfs[m] =>
             m = out[1] /\ rootfs'[m] = out[2]
    BY <1>1, <1>2, <2>1 DEF Directory
  <2>3. QED
    BY <1>1, <1>2, <2>1, <2>2
<1>5. CASE TarCut
  <2>1. /\ out # NoFile /\ out' = NoFile /\ UNCHANGED <<tars, unread, left>>
        /\ rootfs' = [rootfs EXCEPT ![out[1]] = "bad"]
    BY <1>5 DEF TarCut
  <2>2. QED
    BY <1>1, <1>2, <1>5, <2>1 DEF Directory
<1>6. CASE TarFail
  BY <1>1, <1>6 DEF TarFail
<1>7. CASE \E t \in Archive : TarOpen(t)
  BY <1>1, <1>7 DEF TarOpen
<1>8. QED
  BY <1>3, <1>4, <1>5, <1>6, <1>7 DEF TarStep

LEMMA ExtractStep ==
    ASSUME KInv, Extract
    PROVE  KInv'
<1>1. /\ KTypeOK /\ Writing /\ phase = "extract" /\ TarStep
      /\ stack = <<>> /\ ret = "none" /\ boot
      /\ UNCHANGED <<phase, stack, ret, kernel, bootDir, boot>>
  BY DEF KInv, Phases, Extract
<1>2. /\ rootfs' \in Directory /\ UNCHANGED tars
      /\ unread' \subseteq Archive /\ left' \subseteq Header
      /\ \A h \in left' : \E t \in Archive : h \in tars[t]
      /\ out' \in File \cup {NoFile}
      /\ out' # NoFile =>
           /\ rootfs'[out'[1]] = "absent"
           /\ \E t \in Archive : out' \in tars[t]
  BY <1>1, TarStepChange
<1>3. KTypeOK' /\ Writing'
  BY <1>1, <1>2 DEF KTypeOK, Writing
<1>4. FramesGood' /\ Chained' /\ AnswerFits'
  BY <1>1 DEF FramesGood, Chained, AnswerFits
<1>5. DepsLoaded' /\ Phases'
  BY <1>1 DEF KInv, DepsLoaded, Phases
<1>6. QED
  BY <1>3, <1>4, <1>5 DEF KInv

LEMMA ExtractedStep ==
    ASSUME KInv, Extracted
    PROVE  KInv'
<1> DEFINE g == Open(NoModule, "rootfs")
<1>1. /\ KTypeOK /\ Writing /\ phase' = "remaining" /\ stack' = <<g>>
      /\ boot /\ ret = "none" /\ out = NoFile
      /\ UNCHANGED <<ret, kernel, bootDir, boot, rootfs, tars, unread, left,
                     out>>
  BY DEF KInv, Phases, Extracted, TarEnds, files, tarvars
<1>2. Loadable' = Loadable
  BY <1>1 DEF Loadable, Closed, Usable
<1>3. g \in Frame /\ g.mod = NoModule
  BY <1>1, OpenIsFrame DEF Open
<1>4. Good(g, kernel, Loadable, rootfs, bootDir, boot)
  BY <1>1, OpenIsGood
<1>5. /\ stack' \in Seq(Frame) /\ Len(stack') = 1 /\ stack' # <<>>
      /\ stack'[1] = g /\ Top' = g
  BY <1>1, <1>3 DEF Top, Last
<1>6. KTypeOK' /\ Writing'
  BY <1>1, <1>5 DEF KTypeOK, Writing
<1>7. FramesGood' /\ Chained'
  <2>1. \A i \in 1 .. Len(stack') : i = 1
    BY <1>5
  <2>2. \A i \in 1 .. Len(stack') - 1 : FALSE
    BY <1>5
  <2>3. FramesGood'
    BY <1>1, <1>2, <1>4, <1>5, <2>1 DEF FramesGood
  <2>4. Chained'
    BY <2>2 DEF Chained
  <2>5. QED
    BY <2>3, <2>4
<1>8. QED
  BY <1>1, <1>3, <1>5, <1>6, <1>7
     DEF KInv, DepsLoaded, AnswerFits, Phases

LEMMA KInitInv == KInit => KInv
<1> SUFFICES ASSUME KInit
             PROVE  KInv
  OBVIOUS
<1> DEFINE g == Open(NoModule, "rootfs")
<1>1. /\ rootfs \in Directory /\ tars \in [Archive -> SUBSET Header]
      /\ bootDir \in Directory
      /\ unread = {} /\ left = {} /\ out = NoFile
      /\ stack = <<g>> /\ ret = "none" /\ kernel = {} /\ boot = FALSE
      /\ phase = "initramfs"
  BY FilesAssumption DEF KInit
<1>2. g \in Frame
  BY EmptySeq DEF Frame, Open, Entries
<1>3. KTypeOK
  <2>1. stack \in Seq(Frame)
    BY <1>1, <1>2
  <2>2. phase \in {"initramfs", "extract", "remaining", "done"}
    BY <1>1
  <2>3. QED
    BY <1>1, <2>1, <2>2 DEF KTypeOK
<1>4. Good(g, kernel, Loadable, rootfs, bootDir, boot)
  BY <1>3, OpenIsGood
<1>5. /\ Len(stack) = 1 /\ stack # <<>>
      /\ stack[1] = g /\ g.mod = NoModule
  BY <1>1, <1>2 DEF Open
<1>6. FramesGood
  <2>1. \A i \in 1 .. Len(stack) : i = 1
    BY <1>5
  <2>2. QED
    BY <1>4, <1>5, <2>1 DEF FramesGood
<1>7. Chained
  <2>1. \A i \in 1 .. Len(stack) - 1 : FALSE
    BY <1>5
  <2>2. QED
    BY <2>1 DEF Chained
<1>8. DepsLoaded /\ AnswerFits /\ Phases /\ Writing
  BY <1>1, <1>5 DEF DepsLoaded, AnswerFits, Phases, Writing
<1>9. QED
  BY <1>3, <1>6, <1>7, <1>8 DEF KInv

LEMMA KNextInv ==
    ASSUME KInv, [KNext]_kvars
    PROVE  KInv'
<1>1. CASE \E m \in Module : ReadEntry(m) \/ PassEntry(m)
  BY <1>1, ReadEntryStep, PassEntryStep
<1>2. CASE LoadDep
  BY <1>2, LoadDepStep
<1>3. CASE DepLoaded
  BY <1>3, DepLoadedStep
<1>4. CASE DepMissing
  BY <1>4, DepMissingStep
<1>5. CASE Insert
  BY <1>5, InsertStep
<1>6. CASE InsertFails
  BY <1>6, InsertFailsStep
<1>7. CASE ReturnYes
  BY <1>7, ReturnYesStep
<1>8. CASE TryBootDisk
  BY <1>8, TryBootDiskStep
<1>9. CASE ReturnNo
  BY <1>9, ReturnNoStep
<1>10. CASE FindBootDisk
  BY <1>10, FindBootDiskStep
<1>11. CASE Extract
  BY <1>11, ExtractStep
<1>12. CASE LoadedRemaining
  <2>1. /\ UNCHANGED files /\ phase = "remaining" /\ phase' = "done"
        /\ stack = <<>> /\ stack' = <<>> /\ kernel' = kernel
        /\ ret' = "none"
    BY <1>12 DEF LoadedRemaining
  <2>2. Loadable' = Loadable
    BY <2>1, SameLoadable
  <2>3. /\ KTypeOK' /\ DepsLoaded' /\ AnswerFits' /\ Phases'
        /\ Writing'
    BY <2>1, <2>2
       DEF KInv, KTypeOK, DepsLoaded, AnswerFits, Phases, Writing, files,
           tarvars
  <2>4. FramesGood' /\ Chained'
    BY <2>1 DEF FramesGood, Chained
  <2>5. QED
    BY <2>3, <2>4 DEF KInv
<1>13. CASE UNCHANGED kvars
  <2>1. UNCHANGED <<phase, stack, ret, kernel>> /\ UNCHANGED files
    BY <1>13 DEF kvars
  <2>2. Loadable' = Loadable /\ Top' = Top
    BY <2>1, SameLoadable DEF Top
  <2>3. /\ KTypeOK' /\ DepsLoaded' /\ AnswerFits' /\ Phases'
        /\ Writing'
    BY <2>1, <2>2
       DEF KInv, KTypeOK, DepsLoaded, AnswerFits, Phases, Writing, files,
           tarvars
  <2>4. FramesGood' /\ Chained'
    BY <2>1, <2>2 DEF KInv, FramesGood, Chained, files, tarvars
  <2>5. QED
    BY <2>3, <2>4 DEF KInv
<1>14. CASE Extracted
  BY <1>14, ExtractedStep
<1>15. QED
  BY <1>1, <1>2, <1>3, <1>4, <1>5, <1>6, <1>7, <1>8, <1>9, <1>10, <1>11,
     <1>12, <1>13, <1>14 DEF KNext, KStep, KDone

THEOREM KmodInvariant == KSpec => []KInv
  BY KInitInv, KNextInv, PTL DEF KSpec

-----------------------------------------------------------------------------
(***************************************************************************)
(* The theorems.                                                           *)
(***************************************************************************)
\* The variables of the loading of modules have their types.
THEOREM KmodTypeCorrect == KSpec => []KTypeOK
<1>1. KInv => KTypeOK
  BY DEF KInv
<1>2. QED
  BY <1>1, KmodInvariant, PTL

\* A module goes into the kernel after everything it depends on.
THEOREM DependenciesFirst == KSpec => []DepsLoaded
<1>1. KInv => DepsLoaded
  BY DEF KInv
<1>2. QED
  BY <1>1, KmodInvariant, PTL

\* load_kmod() answers 1 for loaded modules only, and 0 only for modules that
\* cannot be loaded.
THEOREM AnswersRight == KSpec => []AnswerIsRight
<1>1. KInv => AnswerIsRight
  BY DEF KInv, KTypeOK, AnswerFits, AnswerIsRight
<1>2. QED
  BY <1>1, KmodInvariant, PTL

\* At the end, each module of the initramfs directory that can be loaded is in
\* the kernel.
THEOREM EverythingLoaded == KSpec => []LoadsAll
<1>1. KInv => LoadsAll
  BY DEF KInv, Phases, LoadsAll
<1>2. QED
  BY <1>1, KmodInvariant, PTL

\* The archives of the boot disk replace no module and cut none.
THEOREM ModulesKept == KSpec => ModulesStay
<1>1. ASSUME KInv, [KNext]_kvars
      PROVE  [\A m \in Module :
                rootfs'[m] # rootfs[m] =>
                   /\ rootfs[m] = "absent"
                   /\ \/ \E t \in Archive : <<m, rootfs'[m]>> \in tars[t]
                      \/ TarCut]_kvars
  <2>1. CASE Extract
    BY <1>1, <2>1, TarStepChange DEF KInv, Extract
  <2>2. CASE ~Extract
    <3>1. UNCHANGED rootfs
      BY <1>1, <2>2
         DEF KNext, KStep, ReadEntry, PassEntry, LoadDep, DepLoaded, DepMissing, Insert,
             InsertFails, ReturnYes, TryBootDisk, ReturnNo, Extracted,
             LoadedRemaining, FindBootDisk, KDone, kvars, files, tarvars
    <3>2. QED
      BY <3>1
  <2>3. QED
    BY <2>1, <2>2
<1>2. QED
  BY <1>1, KmodInvariant, PTL DEF KSpec, ModulesStay

\* A stack in which a module is being loaded twice would be a circle of
\* dependencies: each module between the two needs another one of them.
THEOREM NoReentrance == KSpec => []NoReentry
<1>1. KInv => NoReentry
  <2>1. SUFFICES ASSUME KInv
                 PROVE  NoReentry
    OBVIOUS
  <2>2. /\ stack \in Seq(Frame) /\ Len(stack) \in Nat
        /\ DOMAIN stack = 1 .. Len(stack)
        /\ \A k \in 1 .. Len(stack) : stack[k] \in Frame
    BY <2>1 DEF KInv, KTypeOK
  <2>3. \A k \in 1 .. Len(stack) - 1 :
          /\ stack[k].cur # NoModule
          /\ stack[k + 1].mod \in Needs(stack[k].cur)
    <3>1. SUFFICES ASSUME NEW k \in 1 .. Len(stack) - 1
                   PROVE  /\ stack[k].cur # NoModule
                          /\ stack[k + 1].mod \in Needs(stack[k].cur)
      OBVIOUS
    <3>2. k \in 1 .. Len(stack)
      BY <2>2
    <3>3. Link(stack[k], stack[k + 1])
      BY <2>1 DEF KInv, Chained
    <3>4. Good(stack[k], kernel, Loadable, rootfs, bootDir, boot)
      BY <2>1, <3>2 DEF KInv, FramesGood
    <3>5. stack[k].deps \in Seq(Module)
      BY <2>2, <3>2 DEF Frame
    <3>6. Head(stack[k].deps) \in Range(stack[k].deps)
      BY <3>3, <3>5, RangeOfTail DEF Link
    <3>7. QED
      BY <3>3, <3>4, <3>6 DEF Link, Good
  <2>4. \A k \in 2 .. Len(stack) :
          stack[k].cur # NoModule => stack[k].cur = stack[k].mod
    <3>1. SUFFICES ASSUME NEW k \in 2 .. Len(stack)
                   PROVE  stack[k].cur # NoModule =>
                            stack[k].cur = stack[k].mod
      OBVIOUS
    <3>2. k \in 1 .. Len(stack) /\ k - 1 \in 1 .. Len(stack) - 1
          /\ k - 1 + 1 = k
      BY <2>2
    <3>3. stack[k].mod \in Needs(stack[k - 1].cur)
      BY <2>3, <3>2
    <3>4. stack[k - 1].cur \in Module
      <4>1. k - 1 \in 1 .. Len(stack)
        BY <2>2
      <4>2. QED
        BY <2>2, <2>3, <3>2, <4>1 DEF Frame
    <3>5. stack[k].mod \in Module
      <4>1. \A q \in Seq(Module) : Range(q) \subseteq Module
        BY DEF Range
      <4>2. QED
        BY <3>3, <3>4, <4>1, DependsAssumption DEF Needs
    <3>6. Good(stack[k], kernel, Loadable, rootfs, bootDir, boot)
      BY <2>1, <3>2 DEF KInv, FramesGood
    <3>7. QED
      BY <3>5, <3>6, NoModuleAssumption DEF Good
  <2>5. SUFFICES ASSUME NEW i \in 1 .. Len(stack), NEW j \in 1 .. Len(stack),
                        i < j, stack[i].cur # NoModule,
                        stack[i].cur = stack[j].cur
                 PROVE  FALSE
    BY <2>2 DEF NoReentry
  <2> DEFINE S == {stack[k].cur : k \in i .. j - 1}
  <2>6. \A k \in i .. j - 1 :
          /\ k \in 1 .. Len(stack) - 1 /\ k + 1 \in 2 .. Len(stack)
          /\ k + 1 = j \/ k + 1 \in i .. j - 1
    BY <2>2, <2>5
  <2>7. i \in i .. j - 1
    BY <2>2, <2>5
  <2>8. \A k \in i .. j - 1 : stack[k].cur \in Module
    <3>1. SUFFICES ASSUME NEW k \in i .. j - 1
                   PROVE  stack[k].cur \in Module
      OBVIOUS
    <3>2. k \in 1 .. Len(stack) /\ stack[k].cur # NoModule
      BY <2>2, <2>3, <2>6
    <3>3. QED
      BY <2>2, <3>2 DEF Frame
  <2>9. S \in (SUBSET Module) \ {{}}
    BY <2>7, <2>8
  <2>10. \A k \in i .. j - 1 : Needs(stack[k].cur) \cap S # {}
    <3>1. SUFFICES ASSUME NEW k \in i .. j - 1
                   PROVE  Needs(stack[k].cur) \cap S # {}
      OBVIOUS
    <3>2. stack[k + 1].mod \in Needs(stack[k].cur)
      BY <2>3, <2>6
    <3>3. CASE k + 1 = j
      <4>1. stack[j].mod = stack[i].cur
        BY <2>4, <2>5, <2>6, <3>3
      <4>2. QED
        BY <2>7, <3>2, <3>3, <4>1
    <3>4. CASE k + 1 \in i .. j - 1
      <4>1. stack[k + 1].cur # NoModule
        BY <2>3, <2>6, <3>4
      <4>2. stack[k + 1].mod = stack[k + 1].cur
        BY <2>4, <2>6, <4>1
      <4>3. QED
        BY <3>2, <3>4, <4>2
    <3>5. QED
      BY <2>6, <3>3, <3>4
  <2>11. PICK m \in S : Needs(m) \cap S = {}
    BY <2>9, AcyclicAssumption
  <2>12. PICK k \in i .. j - 1 : m = stack[k].cur
    BY <2>11
  <2>13. QED
    BY <2>10, <2>11, <2>12
<1>2. QED
  BY <1>1, KmodInvariant, PTL
=============================================================================

----------------------------- MODULE MainProofs -----------------------------
(***************************************************************************)
(* The proofs about main(): Startup, which finds the root device and the   *)
(* target that is booted without a question, for any command line, titles  *)
(* and numbers; and Menu, for any number of targets, any height of the     *)
(* screen and any timeout.                                                 *)
(***************************************************************************)
EXTENDS Startup, Menu, TLAPS

(***************************************************************************)
(* Startup.                                                                *)
(***************************************************************************)
Asked == IF cmdline["root"] = None THEN Default ELSE cmdline["root"]

\* What the buffer may hold when it was last written for the word w.
Holds(w) == val = w \/ (Reopening /\ val = cmdline["debug_tty"])

StartTypeOK ==
    /\ place \in {"root", "wait", "found", "conf", "grub", "option",
                  "supplied", "search", "menu"}
    /\ cmdline \in Cmdline
    /\ noboot \in BOOLEAN
    /\ log \in {"open", "closed", "late"}
    /\ targets \in Seq(Titles)

\* Until it is copied, the name of the device is where device points to.
Rooting ==
    /\ place = "root" => root = None /\ boot_disk = None
    /\ place \in {"wait", "found"} =>
         /\ root = None
         /\ \/ cmdline["root"] = None /\ device = Default
            \/ cmdline["root"] # None /\ device = "val"
                 /\ Holds(cmdline["root"])

\* Until the loop over the targets, at most one of index and title is set.
Choosing ==
    /\ place # "menu" => picked = 0
    /\ place \in {"root", "wait", "found", "conf", "grub", "option"} =>
         boot_index = -1 /\ boot_arg = None
    /\ place \in {"supplied", "search"} =>
         IF cmdline["boot_index"] # None
           THEN boot_index = Atoi[cmdline["boot_index"]] /\ boot_arg = None
           ELSE /\ boot_index = -1 /\ boot_arg = "val"
                /\ cmdline["boot_target"] # None
                /\ Holds(cmdline["boot_target"])

SInv == StartTypeOK /\ Rooting /\ Choosing /\ RootIsAsked /\ BootsAsked

-----------------------------------------------------------------------------
\* A command line gives words, and words have numbers.
LEMMA Words ==
    ASSUME NEW c \in Cmdline, NEW n \in Option, c[n] # None
    PROVE  c[n] \in DOMAIN Atoi /\ Atoi[c[n]] \in Int
BY OptionsAssumption

\* The log that was open stays open, and every other stays one to be opened.
LEMMA LogStays ==
    ASSUME StartTypeOK, [StartNext]_svars
    PROVE  cmdline' = cmdline /\ (log' = "open" <=> log = "open")
<1> USE DEF StartTypeOK
<1>1. CASE Debug
    BY <1>1 DEF Debug, Opens
<1>2. CASE Supplied
    BY <1>2 DEF Supplied, Opens
<1>3. CASE UNCHANGED svars
    BY <1>3 DEF svars
<1> QED
    BY <1>1, <1>2, <1>3 DEF StartNext, GetRoot, NoBoot, Wait, SetRoot,
        Configure, Grub, BootIndex, BootTarget, Search, InMenu, svars

\* Variables have their types.
LEMMA TypesKept ==
    ASSUME StartTypeOK, [StartNext]_svars
    PROVE  StartTypeOK'
<1> USE DEF StartTypeOK
<1>1. CASE Configure
    <2>1. targets' \in Lists \cup {<<>>} \/ targets' = targets
        BY <1>1 DEF Configure, conf
    <2>2. targets' \in Seq(Titles)
        BY <2>1, ListsAssumption, <<>> \in Seq(Titles)
    <2> QED
        BY <1>1, <2>2 DEF Configure
<1>2. CASE Grub
    <2>1. ASSUME NEW l \in Lists \cup {<<>>}
          PROVE  targets \o l \in Seq(Titles)
        <3>1. l \in Seq(Titles)
            BY ListsAssumption, <<>> \in Seq(Titles)
        <3> QED
            BY <3>1
    <2>2. targets' \in Seq(Titles)
        BY <1>2, <2>1 DEF Grub
    <2> QED
        BY <1>2, <2>2 DEF Grub
<1>3. CASE Debug
    BY <1>3 DEF Debug, Opens, conf
<1>4. CASE Supplied
    BY <1>4 DEF Supplied, Opens, conf
<1>5. CASE UNCHANGED svars
    BY <1>5 DEF svars, conf
<1>6. CASE GetRoot \/ NoBoot \/ Wait \/ SetRoot
    BY <1>6 DEF GetRoot, NoBoot, Wait, SetRoot, conf
<1>7. CASE BootIndex \/ BootTarget \/ Search \/ InMenu
    BY <1>7 DEF BootIndex, BootTarget, Search, InMenu, svars, conf
<1> QED
    BY <1>1, <1>2, <1>3, <1>4, <1>5, <1>6, <1>7 DEF StartNext

\* The name of the device is kept from where it is asked for to where it is
\* copied.
LEMMA RootingKept ==
    ASSUME StartTypeOK, Rooting, RootIsAsked, [StartNext]_svars
    PROVE  Rooting' /\ RootIsAsked'
<1>1. cmdline' = cmdline /\ (Reopening' <=> Reopening)
    BY LogStays DEF Reopening
<1>2. CASE GetRoot
    BY <1>1, <1>2 DEF GetRoot, Get, Rooting, RootIsAsked, Holds, vfs,
        StartTypeOK
<1>3. CASE NoBoot
    BY <1>1, <1>3 DEF NoBoot, Rooting, RootIsAsked
<1>4. CASE Debug
    <2>1. Opens /\ UNCHANGED <<place, device, boot_disk, root, noboot>>
        BY <1>4 DEF Debug, vfs
    <2>2. ASSUME cmdline["root"] # None, Holds(cmdline["root"])
          PROVE  Holds(cmdline["root"])'
        BY <1>1, <2>1, <2>2 DEF Holds, Opens, Get, Reopening
    <2> QED
        BY <1>1, <2>1, <2>2 DEF Rooting, RootIsAsked
<1>5. CASE Wait
    <2>1. UNCHANGED <<val, device, root, noboot>> /\ place' = "found"
        BY <1>5 DEF Wait, vfs
    <2>2. boot_disk' \in {None, Asked}
            \/ (Reopening /\ cmdline["root"] # None
                  /\ boot_disk' = cmdline["debug_tty"])
        BY <1>5, PointersAssumption
        DEF Wait, Text, Rooting, Holds, Asked
    <2> QED
        BY <1>1, <1>5, <2>1, <2>2
        DEF Wait, Rooting, RootIsAsked, Holds, Asked
<1>6. CASE SetRoot
    <2>1. root' = Asked
            \/ (Reopening /\ cmdline["root"] # None
                  /\ root' = cmdline["debug_tty"])
        BY <1>6, PointersAssumption
        DEF SetRoot, Text, Rooting, Holds, Asked
    <2> QED
        BY <1>1, <1>6, <2>1 DEF SetRoot, Rooting, RootIsAsked, Asked
<1>7. CASE \/ Configure \/ Grub \/ BootIndex \/ BootTarget
           \/ Supplied \/ Search
    BY <1>1, <1>7 DEF Configure, Grub, BootIndex, BootTarget, Supplied,
        Search, Rooting, RootIsAsked, vfs
<1>8. CASE InMenu \/ UNCHANGED svars
    BY <1>1, <1>8 DEF InMenu, svars, vfs, Rooting, RootIsAsked, Holds
<1> QED
    BY <1>2, <1>3, <1>4, <1>5, <1>6, <1>7, <1>8 DEF StartNext

\* Of index and title the index goes first, and neither is lost on the way to
\* the loop, except as Holds() says.
LEMMA ChoosingKept ==
    ASSUME StartTypeOK, Choosing, [StartNext]_svars
    PROVE  Choosing'
<1>1. cmdline' = cmdline /\ (Reopening' <=> Reopening)
    BY LogStays DEF Reopening
<1>2. CASE GetRoot \/ NoBoot \/ Wait \/ SetRoot \/ Configure \/ Grub
    BY <1>1, <1>2 DEF GetRoot, NoBoot, Wait, SetRoot, Configure, Grub,
        Choosing, choice
<1>3. CASE Debug
    BY <1>1, <1>3 DEF Debug, Choosing, choice
<1>4. CASE BootIndex
    <2>1. boot_index' = Atoi[cmdline["boot_index"]]
        BY <1>4 DEF BootIndex, Get
    <2> QED
        BY <1>1, <1>4, <2>1 DEF BootIndex, Choosing
<1>5. CASE BootTarget
    BY <1>1, <1>5, PointersAssumption
    DEF BootTarget, Choosing, Given, Get, Holds
<1>6. CASE Supplied
    <2>1. UNCHANGED choice /\ place = "supplied" /\ place' = "search"
        BY <1>6 DEF Supplied
    <2>2. ASSUME Holds(cmdline["boot_target"])
          PROVE  Holds(cmdline["boot_target"])'
        BY <1>1, <1>6, <2>2 DEF Supplied, Holds, Opens, Get, Reopening
    <2> QED
        BY <1>1, <2>1, <2>2 DEF Choosing, choice
<1>7. CASE Search
    BY <1>1, <1>7 DEF Search, Choosing
<1>8. CASE InMenu \/ UNCHANGED svars
    BY <1>1, <1>8 DEF InMenu, svars, choice, Choosing, Holds
<1> QED
    BY <1>2, <1>3, <1>4, <1>5, <1>6, <1>7, <1>8 DEF StartNext

\* The loop finds what was asked for.
LEMMA BootsKept ==
    ASSUME StartTypeOK, Choosing, BootsAsked, [StartNext]_svars
    PROVE  BootsAsked'
<1> DEFINE index == cmdline["boot_index"]
           title == cmdline["boot_target"]
<1>1. cmdline' = cmdline /\ (Reopening' <=> Reopening)
    BY LogStays DEF Reopening
<1>2. DOMAIN targets \subseteq Nat \ {0}
        /\ \A i \in DOMAIN targets : targets[i] # None
    BY OptionsAssumption DEF StartTypeOK
<1>3. CASE \/ GetRoot \/ NoBoot \/ Wait \/ SetRoot
           \/ Configure \/ Grub \/ Supplied
    BY <1>3 DEF GetRoot, NoBoot, Wait, SetRoot, Configure, Grub, Supplied,
        BootsAsked
<1>4. CASE Debug
    BY <1>4 DEF Debug, BootsAsked
<1>5. CASE BootIndex
    <2>1. index # None /\ boot_index' = Atoi[index] /\ targets' = targets
        BY <1>5 DEF BootIndex, Get, conf
    <2>2. picked' = 0
        BY <1>5 DEF BootIndex, Choosing
    <2>3. index \in DOMAIN Atoi /\ Atoi[index] \in Int
        BY <2>1, Words DEF StartTypeOK, Option
    <2>4. SUFFICES ASSUME place' = "menu"
                   PROVE  {i \in DOMAIN targets : i - 1 = Atoi[index]} = {}
        BY <1>1, <2>1, <2>2 DEF BootsAsked
    <2>5. ~(Atoi[index] >= 0)
        BY <1>5, <2>1, <2>4 DEF BootIndex
    <2> QED
        BY <1>2, <2>3, <2>5
<1>6. CASE BootTarget
    <2>1. index = None /\ targets' = targets /\ picked' = 0
        BY <1>6 DEF BootTarget, Choosing, conf
    <2>2. place' = "menu" => title = None
        BY <1>6, PointersAssumption DEF BootTarget, Given
    <2> QED
        BY <1>1, <1>2, <2>1, <2>2 DEF BootsAsked
<1>7. CASE Search
    <2> DEFINE found == {i \in DOMAIN targets : IsWanted(i)}
    <2>1. /\ place = "search" /\ picked = 0
          /\ UNCHANGED <<val, targets, boot_index, boot_arg>>
        BY <1>7 DEF Search, Choosing, conf
    <2>2. IF found = {} THEN picked' = 0
          ELSE picked' \in found /\ \A j \in found : picked' <= j
        BY <1>7, <2>1 DEF Search
    <2>3. CASE index # None
        <3>1. found = {i \in DOMAIN targets : i - 1 = Atoi[index]}
            BY <2>1, <2>3 DEF Choosing, IsWanted
        <3> QED
            BY <1>1, <2>1, <2>2, <2>3, <3>1 DEF BootsAsked
    <2>4. CASE index = None /\ ~Reopening
        <3>1. boot_index = -1 /\ boot_arg = "val" /\ val = title
            BY <2>1, <2>4 DEF Choosing, Holds
        <3>2. found = {i \in DOMAIN targets : targets[i] = title}
            BY <1>2, <3>1, PointersAssumption DEF IsWanted, Text
        <3> QED
            BY <1>1, <2>1, <2>2, <2>4, <3>2 DEF BootsAsked
    <2>5. CASE index = None /\ Reopening
        BY <1>1, <2>5 DEF BootsAsked
    <2> QED
        BY <2>3, <2>4, <2>5
<1>8. CASE InMenu \/ UNCHANGED svars
    <2>1. UNCHANGED <<place, targets, picked>>
        BY <1>8 DEF InMenu, svars, conf, choice
    <2> QED
        BY <1>1, <2>1 DEF BootsAsked
<1> QED
    BY <1>3, <1>4, <1>5, <1>6, <1>7, <1>8 DEF StartNext

-----------------------------------------------------------------------------
LEMMA SInvStarts == StartInit => SInv
<1> SUFFICES ASSUME StartInit PROVE SInv
    OBVIOUS
<1>1. StartTypeOK
    BY <<>> \in Seq(Titles) DEF StartInit, StartTypeOK
<1>2. Rooting /\ Choosing
    BY DEF StartInit, Rooting, Choosing
<1>3. RootIsAsked /\ BootsAsked
    BY PointersAssumption DEF StartInit, RootIsAsked, BootsAsked
<1> QED
    BY <1>1, <1>2, <1>3 DEF SInv

LEMMA SInvHolds == StartSpec => []SInv
<1>1. SInv /\ [StartNext]_svars => SInv'
    BY TypesKept, RootingKept, ChoosingKept, BootsKept DEF SInv
<1> QED
    BY <1>1, SInvStarts, PTL DEF StartSpec

\* Whatever debug() does to the buffer while main() waits for its disk, the
\* disk and the root device are the ones that root= names, or the default,
\* unless debug_tty= is to be opened late.
THEOREM RootAsAsked == StartSpec => []RootIsAsked
BY SInvHolds, PTL DEF SInv

\* The target that main() boots is the one of boot_index=, or else the first
\* one that has the title of boot_target=, with the same exception for the
\* title.
THEOREM BootsAsAsked == StartSpec => []BootsAsked
BY SInvHolds, PTL DEF SInv

-----------------------------------------------------------------------------
(***************************************************************************)
(* Menu.                                                                   *)
(***************************************************************************)
\* The target that Seek goes to.
Selected == IF default = 0 THEN 1 ELSE default

\* The countdown runs only while the selection is where Seek left it.
Counting ==
    /\ at = "seek" => target <= Selected /\ ~fired
    /\ (at # "seek" /\ timeout >= 0) => target = Selected
    /\ at = "count" => timeout >= 0
    /\ at = "poll" => timeout > 0
    /\ (at = "booted" /\ fired) => timeout >= 0

MInv ==
    /\ MTypeOK
    /\ WindowFollows
    /\ ShownIsSelected
    /\ OneCountdown
    /\ Counting

-----------------------------------------------------------------------------
\* Going down keeps the window around the target.
LEMMA DownKeeps ==
    ASSUME MTypeOK, WindowFollows, target < N, Down
    PROVE  /\ start' \in 1 .. N /\ target' \in 1 .. N
           /\ row' \in First .. LastRow
           /\ WindowFollows' /\ target' = target + 1
<1>1. /\ start \in 1 .. N /\ target \in 1 .. N /\ row \in 6 .. Rows - 2
      /\ target = start + row - 6 /\ target < N
      /\ row = Rows - 2 => target = N
  BY DEF MTypeOK, WindowFollows, First, LastRow
<1>2. CASE row + 3 = Rows /\ target + 1 < N
  <2>1. target' = target + 1 /\ row' = row /\ start' = start + 1
    BY <1>2 DEF Down
  <2>2. /\ start + 1 \in 1 .. N /\ target + 1 \in 1 .. N
        /\ target + 1 = (start + 1) + row - 6
        /\ row # 6 /\ row # Rows - 2
    BY <1>1, <1>2, TargetsAssumption, RowsAssumption
  <2> QED
    BY <1>1, <2>1, <2>2 DEF WindowFollows, First, LastRow
<1>3. CASE ~(row + 3 = Rows /\ target + 1 < N)
  <2>1. target' = target + 1 /\ row' = row + 1 /\ start' = start
    BY <1>3 DEF Down
  <2>2. /\ target + 1 \in 1 .. N /\ row + 1 \in 6 .. Rows - 2
        /\ target + 1 = start + (row + 1) - 6
        /\ row + 1 # 6
        /\ row + 1 = Rows - 2 => target + 1 = N
    BY <1>1, <1>3, TargetsAssumption, RowsAssumption
  <2> QED
    BY <1>1, <2>1, <2>2 DEF WindowFollows, First, LastRow
<1>4. QED
  BY <1>2, <1>3

\* So does going up.
LEMMA UpKeeps ==
    ASSUME MTypeOK, WindowFollows, row > First, Up
    PROVE  /\ start' \in 1 .. N /\ target' \in 1 .. N
           /\ row' \in First .. LastRow
           /\ WindowFollows'
<1>1. CASE row = First + 1 /\ start > 1
  BY <1>1, TargetsAssumption, RowsAssumption
     DEF MTypeOK, WindowFollows, Up, First, LastRow
<1>2. CASE ~(row = First + 1 /\ start > 1)
  <2>1. /\ start \in 1 .. N /\ target \in 1 .. N /\ row \in 6 .. Rows - 2
        /\ target = start + row - 6 /\ row > 6
        /\ ~(row = 7 /\ start > 1)
    BY <1>2 DEF MTypeOK, WindowFollows, First, LastRow
  <2>2. target' = target - 1 /\ row' = row - 1 /\ start' = start
    BY <1>2 DEF Up
  <2>3. /\ target - 1 \in 1 .. N /\ row - 1 \in 6 .. Rows - 2
        /\ target - 1 = start + (row - 1) - 6
        /\ row - 1 = 6 => start = 1
        /\ row - 1 # Rows - 2
    BY <2>1, TargetsAssumption, RowsAssumption
  <2> QED
    BY <2>1, <2>2, <2>3 DEF WindowFollows, First, LastRow
<1>3. QED
  BY <1>1, <1>2

\* The first line is on the screen.
LEMMA FirstInWindow == First \in First .. LastRow /\ First < LastRow
  BY RowsAssumption DEF First, LastRow

LEMMA MInitInv == MInit => MInv
<1> SUFFICES ASSUME MInit
             PROVE  MInv
  OBVIOUS
<1>1. MTypeOK
  <2>1. start \in 1 .. N /\ target \in 1 .. N /\ row \in First .. LastRow
    BY FirstInWindow, TargetsAssumption DEF MInit
  <2>2. shown \in Int \X Int /\ timeout \in Int
    BY TimeoutsAssumption DEF MInit
  <2>3. QED
    BY <2>1, <2>2 DEF MInit, MTypeOK
<1>2. WindowFollows
  BY FirstInWindow DEF MInit, WindowFollows, First, LastRow
<1>3. ShownIsSelected /\ OneCountdown /\ Counting
  BY TargetsAssumption
     DEF MInit, ShownIsSelected, OneCountdown, Counting, Selected
<1>4. QED
  BY <1>1, <1>2, <1>3 DEF MInv

-----------------------------------------------------------------------------
(***************************************************************************)
(* The steps.                                                              *)
(***************************************************************************)
LEMMA SeekStep ==
    ASSUME MInv, Seek
    PROVE  MInv'
<1>1. /\ MTypeOK /\ WindowFollows /\ at = "seek"
      /\ UNCHANGED <<shown, default, timeout, alert, keyVars, fired>>
      /\ target <= Selected /\ ~fired
  BY DEF MInv, Seek, Counting
<1>2. CASE default > target
  <2>1. Down /\ at' = at
    BY <1>2 DEF Seek
  <2>2. /\ start' \in 1 .. N /\ target' \in 1 .. N
        /\ row' \in First .. LastRow
        /\ WindowFollows' /\ target' = target + 1
    BY <1>1, <1>2, <2>1, TargetsAssumption, DownKeeps DEF MTypeOK
  <2>3. MTypeOK'
    BY <1>1, <2>1, <2>2 DEF MTypeOK, keyVars
  <2>4. ShownIsSelected' /\ OneCountdown'
    BY <1>1, <2>1 DEF ShownIsSelected, OneCountdown
  <2>5. Counting'
    BY <1>1, <1>2, <2>1, <2>2 DEF Counting, Selected, MTypeOK
  <2>6. QED
    BY <2>2, <2>3, <2>4, <2>5 DEF MInv
<1>3. CASE ~(default > target)
  <2>1. at' = "clear" /\ UNCHANGED window
    BY <1>3 DEF Seek
  <2>2. MTypeOK'
    BY <1>1, <2>1 DEF MTypeOK, keyVars, window
  <2>3. WindowFollows'
    BY <1>1, <2>1 DEF WindowFollows, window
  <2>4. ShownIsSelected' /\ OneCountdown'
    BY <1>1, <2>1 DEF ShownIsSelected, OneCountdown
  <2>5. target = Selected
    BY <1>1, <1>3 DEF Selected, MTypeOK
  <2>6. Counting'
    BY <1>1, <2>1, <2>5 DEF Counting, Selected, window
  <2>7. QED
    BY <2>2, <2>3, <2>4, <2>6 DEF MInv
<1>4. QED
  BY <1>2, <1>3

\* A step that leaves the window, the countdown and the default alone.
LEMMA SameWindow ==
    ASSUME MInv, at # "seek", UNCHANGED <<window, default>>,
           at' \in {"clear", "count", "poll", "prompt", "keys", "booted",
                    "off", "stuck"},
           shown' \in Int \X Int, timeout' \in Int, alert' \in BOOLEAN,
           fired' \in BOOLEAN,
           at' \in {"count", "poll", "prompt", "keys"} =>
             shown' = <<start', row'>>,
           OneCountdown',
           timeout' >= 0 => timeout >= 0,
           at' = "count" => timeout' >= 0,
           at' = "poll" => timeout' > 0,
           (at' = "booted" /\ fired') => timeout' >= 0
    PROVE  MInv'
<1>1. MTypeOK'
  BY DEF MInv, MTypeOK, window
<1>2. WindowFollows'
  BY DEF MInv, WindowFollows, window
<1>3. ShownIsSelected'
  BY DEF ShownIsSelected
<1>4. Counting'
  BY DEF MInv, Counting, Selected, window
<1>5. QED
  BY <1>1, <1>2, <1>3, <1>4 DEF MInv

LEMMA AnyKeyStep ==
    ASSUME MInv, AnyKey
    PROVE  MInv'
<1>1. /\ at = "clear" /\ alert' = FALSE
      /\ UNCHANGED <<at, window, shown, default, timeout, fired>>
      /\ MTypeOK
  BY DEF MInv, AnyKey, MTypeOK
<1>2. QED
  BY <1>1, SameWindow DEF MInv, MTypeOK, OneCountdown

LEMMA DisplayStep ==
    ASSUME MInv, Display
    PROVE  MInv'
<1>1. /\ at = "clear" /\ UNCHANGED <<window, default, timeout, alert, fired>>
      /\ at' = IF timeout >= 0 THEN "count" ELSE "prompt"
      /\ MTypeOK
      /\ shown' = <<start', row'>>
  BY DEF MInv, Display, Draw, Erase, MTypeOK
<1>2. shown' \in Int \X Int
  BY <1>1 DEF window, MTypeOK
<1>3. QED
  BY <1>1, <1>2, SameWindow DEF MInv, MTypeOK, OneCountdown

LEMMA CountStep ==
    ASSUME MInv, Count
    PROVE  MInv'
<1>1. /\ at = "count" /\ at' = "poll" /\ timeout # 0
      /\ UNCHANGED <<window, shown, default, timeout, alert, fired>>
      /\ MTypeOK
      /\ timeout > 0
  BY DEF MInv, Count, Erase, MTypeOK, Counting
<1>2. QED
  BY <1>1, SameWindow
     DEF MInv, MTypeOK, ShownIsSelected, OneCountdown, window

LEMMA PollKeyStep ==
    ASSUME MInv, PollKey
    PROVE  MInv'
<1>1. /\ at = "poll" /\ at' = "prompt" /\ timeout' = -1
      /\ UNCHANGED <<window, shown, default, alert, keyVars, fired>>
      /\ MTypeOK /\ timeout > 0
  BY DEF MInv, PollKey, Counting
<1>2. QED
  BY <1>1, SameWindow
     DEF MInv, MTypeOK, ShownIsSelected, OneCountdown, keyVars, window

LEMMA PollTimeoutStep ==
    ASSUME MInv, PollTimeout
    PROVE  MInv'
<1>1. /\ at = "poll" /\ at' = "count" /\ timeout' = timeout - 1
      /\ UNCHANGED <<window, shown, default, alert, keyVars, fired>>
      /\ MTypeOK /\ timeout > 0 /\ timeout \in Int
  BY DEF MInv, MTypeOK, PollTimeout, Counting
<1>2. timeout' \in Int /\ timeout' >= 0
  BY <1>1
<1>3. OneCountdown'
  BY <1>1 DEF MInv, OneCountdown
<1>4. QED
  BY <1>1, <1>2, <1>3, SameWindow
     DEF MInv, MTypeOK, ShownIsSelected, keyVars, window

LEMMA FireStep ==
    ASSUME MInv, Fire
    PROVE  MInv'
<1>1. /\ at = "count" /\ timeout = 0 /\ at' \in {"clear", "booted"}
      /\ UNCHANGED <<window, shown, default>>
      /\ fired' = TRUE /\ alert' \in BOOLEAN
      /\ timeout' = IF at' = "clear" THEN -1 ELSE timeout
      /\ MTypeOK
  BY DEF MInv, Fire, Erase, MTypeOK
<1>2. QED
  BY <1>1, SameWindow DEF MInv, MTypeOK, OneCountdown

LEMMA PromptStep ==
    ASSUME MInv, Prompt
    PROVE  MInv'
<1>1. /\ at = "prompt" /\ at' = "keys"
      /\ UNCHANGED <<window, shown, default, timeout, alert, fired>>
      /\ MTypeOK
  BY DEF MInv, Prompt, Erase, MTypeOK
<1>2. QED
  BY <1>1, SameWindow
     DEF MInv, MTypeOK, ShownIsSelected, OneCountdown, window

LEMMA KeyMoveStep ==
    ASSUME MInv, KeyMove
    PROVE  MInv'
<1>1. /\ at = "keys" /\ at' = "keys"
      /\ UNCHANGED <<default, timeout, alert, fired>>
      /\ MTypeOK /\ WindowFollows
      /\ shown' = <<start', row'>>
  BY DEF MInv, KeyMove, Takes
<1>2. /\ start' \in 1 .. N /\ target' \in 1 .. N
      /\ row' \in First .. LastRow
      /\ WindowFollows'
  BY <1>1, DownKeeps, UpKeeps DEF KeyMove, Moves
<1>3. MTypeOK'
  <2>1. shown' \in Int \X Int
    BY <1>1, <1>2, RowsAssumption DEF First, LastRow
  <2>2. QED
    BY <1>1, <1>2, <2>1 DEF MTypeOK
<1>4. timeout < 0
  BY <1>1 DEF MInv, OneCountdown
<1>5. ShownIsSelected' /\ OneCountdown' /\ Counting'
  BY <1>1, <1>4 DEF ShownIsSelected, OneCountdown, Counting, MTypeOK
<1>6. QED
  BY <1>2, <1>3, <1>5 DEF MInv

LEMMA KeyIdleStep ==
    ASSUME MInv, KeyIdle
    PROVE  MInv'
<1>1. /\ at = "keys"
      /\ UNCHANGED <<at, window, shown, alert, fired>>
      /\ UNCHANGED <<default, timeout>>
      /\ MTypeOK
  BY DEF MInv, KeyIdle, MTypeOK
<1>2. QED
  BY <1>1, SameWindow
     DEF MInv, MTypeOK, ShownIsSelected, OneCountdown, window

\* Enter, D and C lead away from the list.
LEMMA KeyLeaveStep ==
    ASSUME MInv, KeyEnter \/ KeyDisks \/ KeyShell
    PROVE  MInv'
<1>1. /\ at = "keys" /\ at' \in {"clear", "booted", "off", "stuck"}
      /\ UNCHANGED <<window, shown>> /\ alert' \in BOOLEAN
      /\ UNCHANGED <<default, timeout>>
      /\ fired' \in {FALSE, fired} /\ (at' = "booted" => fired' = FALSE)
      /\ MTypeOK
  BY DEF MInv, KeyEnter, KeyDisks, KeyShell, Takes
<1>2. timeout < 0
  BY <1>1 DEF MInv, OneCountdown
<1>3. OneCountdown'
  BY <1>1, <1>2 DEF OneCountdown
<1>4. fired' \in BOOLEAN
  BY <1>1 DEF MTypeOK
<1>5. QED
  BY <1>1, <1>2, <1>3, <1>4, SameWindow DEF MTypeOK

\* A key that is dropped, a key that is typed, and a console_erase() that hangs
\* touch nothing but the queues and the place.
LEMMA QuietStep ==
    ASSUME MInv, Unknown \/ Type \/ Hang
    PROVE  MInv'
<1>1. /\ UNCHANGED <<window, shown, default, timeout, alert, fired>>
      /\ at' \in {at, "stuck"} /\ at # "booted" /\ MTypeOK
  BY DEF MInv, Unknown, Type, Hang
<1>2. MTypeOK'
  BY <1>1 DEF MTypeOK, window
<1>3. WindowFollows' /\ ShownIsSelected' /\ OneCountdown'
  BY <1>1 DEF MInv, WindowFollows, ShownIsSelected, OneCountdown, window
<1>4. Counting'
  <2>1. at = "seek" => at' = at
    BY DEF Unknown, Type, Hang
  <2> QED
    BY <1>1, <2>1 DEF MInv, Counting, Selected, window
<1>5. QED
  BY <1>2, <1>3, <1>4 DEF MInv

THEOREM MenuInvariant == MSpec => []MInv
<1>1. MInv /\ [MNext]_mvars => MInv'
  <2>1. SUFFICES ASSUME MInv, [MNext]_mvars
                 PROVE  MInv'
    OBVIOUS
  <2>2. CASE Process
    BY <2>1, <2>2, SeekStep, AnyKeyStep, DisplayStep, CountStep, PollKeyStep,
       PollTimeoutStep, FireStep, PromptStep, KeyMoveStep, KeyIdleStep,
       KeyLeaveStep, QuietStep DEF Process
  <2>3. CASE Type
    BY <2>1, <2>3, QuietStep
  <2>4. CASE UNCHANGED mvars
    BY <2>1, <2>4
       DEF MInv, MTypeOK, WindowFollows, ShownIsSelected, OneCountdown,
           Counting, Selected, mvars, window, keyVars
  <2>5. QED
    BY <2>1, <2>2, <2>3, <2>4 DEF MNext, MStopped
<1>2. QED
  BY MInitInv, <1>1, PTL DEF MSpec

-----------------------------------------------------------------------------
(***************************************************************************)
(* The theorems.                                                           *)
(***************************************************************************)
\* The variables of the menu have their types.
THEOREM MenuTypeCorrect == MSpec => []MTypeOK
<1>1. MInv => MTypeOK
  BY DEF MInv
<1>2. QED
  BY <1>1, MenuInvariant, PTL

\* The window follows the selection, and what is selected is what is shown.
THEOREM MenuShowsSelection == MSpec => []SelectionShown
<1>1. MInv => SelectionShown
  BY DEF MInv, SelectionShown
<1>2. QED
  BY <1>1, MenuInvariant, PTL

\* The countdown boots the default target, and never starts again.
THEOREM MenuCountsOnce == MSpec => []CountsOnce
<1>1. MInv => CountsOnce
  BY DEF MInv, MTypeOK, Counting, CountdownBootsDefault, Selected, CountsOnce
<1>2. QED
  BY <1>1, MenuInvariant, PTL
=============================================================================

----------------------------- MODULE DiskProofs -----------------------------
(***************************************************************************)
(* The safety properties of the disk table, proved for any devices, media, *)
(* IDs and timeouts; and boot_target(), a client of the table, of which    *)
(* they therefore hold, and which boots the target passed to it as long as *)
(* the kernel log child does not end.                                      *)
(***************************************************************************)
EXTENDS BootTarget, TLAPS

-----------------------------------------------------------------------------
(***************************************************************************)
(* The list.                                                               *)
(***************************************************************************)
\* What list_del() leaves of the list: every other node, in order.
LEMMA RemoveIsSeq ==
    ASSUME NEW S, NEW s \in Seq(S), NEW n \in 1 .. Len(s)
    PROVE  /\ Remove(s, n) \in Seq(S)
           /\ DOMAIN Remove(s, n) = 1 .. Len(s) - 1
           /\ \A m \in 1 .. Len(s) - 1 :
                Remove(s, n)[m] = IF m < n THEN s[m] ELSE s[m + 1]
<1>1. DOMAIN Remove(s, n) = 1 .. Len(s) - 1
  BY DEF Remove
<1>2. \A m \in 1 .. Len(s) - 1 :
         /\ Remove(s, n)[m] = IF m < n THEN s[m] ELSE s[m + 1]
         /\ Remove(s, n)[m] \in S
  BY DEF Remove
<1>3. Remove(s, n) \in [1 .. Len(s) - 1 -> S]
  BY <1>2 DEF Remove
<1>4. Len(s) - 1 \in Nat
  OBVIOUS
<1>5. Remove(s, n) \in Seq(S)
  BY <1>3, <1>4
<1> QED
  BY <1>1, <1>2, <1>5

\* Adding a node at the end adds its name and keeps the others where they are.
LEMMA AppendNames ==
    ASSUME NEW s \in Seq(Disk), NEW d \in Disk
    PROVE  /\ Append(s, d) \in Seq(Disk)
           /\ Names(Append(s, d)) = Names(s) \cup {d.name}
           /\ DOMAIN Append(s, d) = 1 .. Len(s) + 1
           /\ \A n \in DOMAIN s : Append(s, d)[n] = s[n]
           /\ Append(s, d)[Len(s) + 1] = d
<1>1. /\ Append(s, d) \in Seq(Disk)
      /\ DOMAIN Append(s, d) = 1 .. Len(s) + 1
      /\ DOMAIN s = 1 .. Len(s)
      /\ \A n \in DOMAIN s : Append(s, d)[n] = s[n]
      /\ Append(s, d)[Len(s) + 1] = d
      /\ Len(s) \in Nat
  OBVIOUS
<1>2. Names(Append(s, d)) \subseteq Names(s) \cup {d.name}
  <2>1. ASSUME NEW n \in 1 .. Len(s) + 1
        PROVE  Append(s, d)[n].name \in Names(s) \cup {d.name}
    <3>1. CASE n \in DOMAIN s
      BY <1>1, <3>1 DEF Names
    <3>2. CASE n = Len(s) + 1
      BY <1>1, <3>2
    <3> QED
      BY <1>1, <3>1, <3>2
  <2> QED
    BY <1>1, <2>1 DEF Names
<1>3. Names(s) \cup {d.name} \subseteq Names(Append(s, d))
  <2>1. \A n \in DOMAIN s : n \in DOMAIN Append(s, d)
    BY <1>1
  <2>2. Len(s) + 1 \in DOMAIN Append(s, d)
    BY <1>1
  <2> QED
    BY <1>1, <2>1, <2>2 DEF Names
<1> QED
  BY <1>1, <1>2, <1>3

\* Removing a node of a list without duplicates removes its name, no other.
LEMMA RemoveNames ==
    ASSUME NEW s \in Seq(Disk), NEW n \in 1 .. Len(s),
           \A a, b \in DOMAIN s : s[a].name = s[b].name => a = b
    PROVE  /\ Names(Remove(s, n)) = Names(s) \ {s[n].name}
           /\ \A a, b \in DOMAIN Remove(s, n) :
                Remove(s, n)[a].name = Remove(s, n)[b].name => a = b
<1> DEFINE r == Remove(s, n)
<1>1. /\ DOMAIN s = 1 .. Len(s)
      /\ Len(s) \in Nat
  OBVIOUS
<1>2. /\ DOMAIN r = 1 .. Len(s) - 1
      /\ \A m \in 1 .. Len(s) - 1 : r[m] = IF m < n THEN s[m] ELSE s[m + 1]
  BY RemoveIsSeq
<1> HIDE DEF r
<1>3. ASSUME NEW m \in DOMAIN r
      PROVE  r[m].name \in Names(s) \ {s[n].name}
  <2>1. CASE m < n
    BY <1>1, <1>2, <2>1 DEF Names
  <2>2. CASE ~(m < n)
    BY <1>1, <1>2, <2>2 DEF Names
  <2> QED
    BY <2>1, <2>2
<1>4. ASSUME NEW m \in DOMAIN s, m # n
      PROVE  s[m].name \in Names(r)
  <2>1. CASE m < n
    <3>1. m \in DOMAIN r /\ r[m] = s[m]
      BY <1>1, <1>2, <2>1
    <3> QED
      BY <3>1 DEF Names
  <2>2. CASE ~(m < n)
    <3>1. m - 1 \in DOMAIN r /\ r[m - 1] = s[m]
      BY <1>1, <1>2, <1>4, <2>2
    <3> QED
      BY <3>1 DEF Names
  <2> QED
    BY <2>1, <2>2
<1>5. Names(r) = Names(s) \ {s[n].name}
  <2>1. Names(r) \subseteq Names(s) \ {s[n].name}
    BY <1>3 DEF Names
  <2>2. Names(s) \ {s[n].name} \subseteq Names(r)
    BY <1>4 DEF Names
  <2> QED
    BY <2>1, <2>2
<1>6. ASSUME NEW a \in DOMAIN r, NEW b \in DOMAIN r, r[a].name = r[b].name
      PROVE  a = b
  <2> DEFINE up(m) == IF m < n THEN m ELSE m + 1
  <2>1. \A m \in DOMAIN r : up(m) \in DOMAIN s /\ r[m] = s[up(m)]
    BY <1>1, <1>2
  <2>2. up(a) = up(b)
    BY <1>6, <2>1
  <2> QED
    BY <1>1, <1>2, <2>2
<1> QED
  BY <1>5, <1>6 DEF r

-----------------------------------------------------------------------------
(***************************************************************************)
(* The queues of keys.                                                     *)
(***************************************************************************)
LEMMA PartsAreKeys ==
    \A k \in Keystroke :
        RestKeys(k) \in Seq(Keystroke) /\ LeadKey(k) \in Keystroke
<1> SUFFICES ASSUME NEW k \in Keystroke
             PROVE  RestKeys(k) \in Seq(Keystroke) /\ LeadKey(k) \in Keystroke
  OBVIOUS
<1>1. LeadKey(k) \in Keystroke
  BY DEF LeadKey, Keystroke
<1>2. RestKeys(k) \in {<<"other", "disks">>, <<"other", "shell">>,
                       <<"other", "other">>, <<"other", "other", "other">>,
                       <<>>}
  BY DEF RestKeys, Keystroke, LongKey
<1>3. \A a, b \in Keystroke : <<a, b>> \in Seq(Keystroke)
  OBVIOUS
<1>4. \A a, b, c \in Keystroke : <<a, b, c>> \in Seq(Keystroke)
  OBVIOUS
<1>5. /\ "other" \in Keystroke /\ "disks" \in Keystroke
      /\ "shell" \in Keystroke
  BY DEF Keystroke
<1>6. /\ <<"other", "disks">> \in Seq(Keystroke)
      /\ <<"other", "shell">> \in Seq(Keystroke)
      /\ <<"other", "other">> \in Seq(Keystroke)
  BY <1>3, <1>5, Zenon
<1>7. <<"other", "other", "other">> \in Seq(Keystroke)
  BY <1>4, <1>5, Zenon
<1>8. <<>> \in Seq(Keystroke)
  OBVIOUS
<1>9. RestKeys(k) \in Seq(Keystroke)
  BY <1>2, <1>6, <1>7, <1>8, Zenon
<1> QED
  BY <1>1, <1>9

LEMMA OneKey ==
    ASSUME NEW S, NEW s \in Seq(S), Len(s) = 1
    PROVE  s = <<s[1]>>
  OBVIOUS

LEMMA TailKeys ==
    ASSUME NEW S, NEW s \in Seq(S), Len(s) # 0
    PROVE  Tail(s) \in Seq(S) /\ Len(Tail(s)) = Len(s) - 1
  OBVIOUS

LEMMA TwoAtLeast ==
    ASSUME NEW S, NEW s \in Seq(S), Len(s) # 0, Len(s) # 1
    PROVE  /\ s[2] \in S
           /\ Tail(s) \in Seq(S)
           /\ Tail(Tail(s)) \in Seq(S)
<1>1. PICK n \in Nat : n = Len(s)
  OBVIOUS
<1>2. n # 0
  BY <1>1
<1>3. n > 1
  BY <1>1, <1>2
<1>4. s[2] \in S
  BY <1>1, <1>3
<1>5. Tail(s) \in Seq(S) /\ Len(Tail(s)) = n - 1
  BY <1>1, TailKeys
<1>6. Len(Tail(s)) # 0
  BY <1>3, <1>5
<1> QED
  BY <1>4, <1>5, <1>6, TailKeys

LEMMA ConcatKeys ==
    \A a, b \in Seq(Keystroke) : a \o b \in Seq(Keystroke)
  OBVIOUS

\* What console_getchar() leaves in the queues is keys.
LEMMA RemainingKeys ==
    ASSUME KeysOK, HasKey
    PROVE  /\ Remaining.buf \in Seq(Keystroke)
           /\ Remaining.tty \in Seq(Keystroke)
<1>1. /\ tty \in Seq(Keystroke) /\ getc_buf \in Seq(Keystroke)
      /\ Queued \in Seq(Keystroke)
  BY ConcatKeys DEF KeysOK, Queued
<1>2. /\ Queued # <<>> /\ Queued # <<"esc">>
      /\ NextKey = Queued[1]
      /\ CutHome => tty # <<>>
  BY <1>1 DEF HasKey, NextKey
<1>3. CutHome => NextKey # "esc"
  BY <1>1 DEF CutHome, NextKey, Queued
<1>4. CASE NextKey = "esc" /\ Len(getc_buf) > 1
  <2>1. Remaining = [buf |-> RestKeys(getc_buf[2])
                               \o SubSeq(getc_buf, 3, Len(getc_buf))
                               \o <<LeadKey(getc_buf[2])>>,
                     tty |-> tty]
    BY <1>1, <1>3, <1>4 DEF Remaining
  <2>2. getc_buf[2] \in Keystroke
    BY <1>1, <1>4
  <2>3. SubSeq(getc_buf, 3, Len(getc_buf)) \in Seq(Keystroke)
    BY <1>1, <1>4
  <2>4. /\ RestKeys(getc_buf[2]) \in Seq(Keystroke)
        /\ <<LeadKey(getc_buf[2])>> \in Seq(Keystroke)
    BY <2>2, PartsAreKeys
  <2> QED
    BY <1>1, <2>1, <2>3, <2>4, ConcatKeys
<1>5. CASE NextKey = "esc" /\ ~(Len(getc_buf) > 1)
  <2>1. Len(getc_buf) <= 1
    BY <1>1, <1>5
  <2>2. /\ Queued[2] \in Keystroke /\ Tail(Queued) \in Seq(Keystroke)
        /\ Tail(Tail(Queued)) \in Seq(Keystroke)
    <3>1. Len(Queued) \in Nat /\ Len(Queued) # 0
      BY <1>1, <1>2
    <3>2. Len(Queued) # 1
      BY <1>1, <1>2, <1>5, OneKey
    <3> QED
      BY <1>1, <3>1, <3>2, TwoAtLeast
  <2>3. CASE Queued[2] \in LongKey
    <3>1. Remaining = [buf |-> <<>>, tty |-> Tail(Queued)]
      BY <1>3, <1>5, <2>1, <2>3 DEF Remaining
    <3> QED
      BY <2>2, <3>1
  <2>4. CASE Queued[2] \notin LongKey
    <3>1. Remaining = [buf |-> <<Queued[2]>>, tty |-> Tail(Tail(Queued))]
      BY <1>3, <1>5, <2>1, <2>4 DEF Remaining
    <3> QED
      BY <2>2, <3>1
  <2> QED
    BY <2>3, <2>4
<1>6. CASE NextKey # "esc" /\ CutHome
  <2>0. getc_buf # <<>>
    BY <1>6 DEF CutHome
  <2>1. Remaining = [buf |-> <<"other">> \o Tail(getc_buf),
                     tty |-> RestKeys(Head(tty)) \o Tail(tty)]
    BY <1>6, <2>0 DEF Remaining
  <2>2. /\ Head(tty) \in Keystroke /\ Tail(tty) \in Seq(Keystroke)
        /\ Tail(getc_buf) \in Seq(Keystroke)
    BY <1>1, <1>2, <1>6 DEF CutHome
  <2>3. <<"other">> \in Seq(Keystroke)
    BY DEF Keystroke
  <2>4. RestKeys(Head(tty)) \in Seq(Keystroke)
    BY <2>2, PartsAreKeys
  <2> QED
    BY <2>1, <2>2, <2>3, <2>4, ConcatKeys
<1>7. CASE NextKey # "esc" /\ ~CutHome
  <2>1. CASE getc_buf # <<>>
    <3>1. Remaining = [buf |-> Tail(getc_buf), tty |-> tty]
      BY <1>7, <2>1 DEF Remaining
    <3> QED
      BY <1>1, <2>1, <3>1
  <2>2. CASE getc_buf = <<>>
    <3>1. Remaining = [buf |-> <<>>, tty |-> Tail(tty)]
      BY <1>7, <2>2 DEF Remaining
    <3>2. tty # <<>>
      BY <1>1, <1>2, <2>2 DEF Queued
    <3> QED
      BY <1>1, <3>1, <3>2
  <2> QED
    BY <2>1, <2>2
<1> QED
  BY <1>4, <1>5, <1>6, <1>7

\* Typing, reading and erasing keep them so.
LEMMA KeysStep ==
    ASSUME KeysOK,
           \/ Press \/ DropDead \/ Erase \/ UNCHANGED keyVars
           \/ \E k \in Keystroke : GetChar(k)
    PROVE  KeysOK'
<1>1. CASE Press
  BY <1>1, PressedAssumption DEF Press, KeysOK
<1>2. CASE DropDead
  <2>1. \A q \in Seq(Keystroke) : q # <<>> => Tail(q) \in Seq(Keystroke)
    OBVIOUS
  <2> QED
    BY <1>2, <2>1 DEF DropDead, KeysOK
<1>3. CASE Erase
  BY <1>3, ConcatKeys DEF Erase, KeysOK
<1>4. CASE UNCHANGED keyVars
  BY <1>4 DEF keyVars, KeysOK
<1>5. ASSUME NEW k \in Keystroke, GetChar(k)
      PROVE  KeysOK'
  BY <1>5, RemainingKeys DEF GetChar, KeysOK
<1> QED
  BY <1>1, <1>2, <1>3, <1>4, <1>5

-----------------------------------------------------------------------------
(***************************************************************************)
(* The inductive invariant.                                                *)
(***************************************************************************)
\* The disk being mounted is one get_disks() returned for this very ID; its
\* device enters the list once, after the kernel took it.
FoundOK ==
    /\ pc \in {"mount", "add", "lookup"} =>
          /\ found \in Disk
          /\ id.key \in found.tags \/ id.key = found.name
    /\ pc = "add" =>
          /\ found.name \notin Names(mounts)
          /\ found.name \in kmnt \cup busy
    /\ pc = "lookup" => found.name \in Names(mounts)

\* unmount_all() has tried the nodes before its cursor, and each refused; the
\* node at the cursor is deleted when the kernel has let go of it.
WalkOK ==
    /\ ShuttingDown =>
          \A n \in DOMAIN mounts : n < cursor => mounts[n].name \in refused
    /\ pc = "reboot" => cursor \notin DOMAIN mounts
    /\ pc \in {"del", "hang"} =>
          cursor \in DOMAIN mounts /\ mounts[cursor].name \notin kmnt
    /\ pc = "hang" => cursor > 2

\* Nothing comes back from the reboot that SIGINT asks for.
NoReturn ==
    cmd = "restart" => pc \in {"umount", "del", "hang", "reboot", "off"}

ListOK == UniqueNames /\ KernelListed /\ ListedMounted /\ OneMissed

IInv == TypeOK /\ ListOK /\ FoundOK /\ WalkOK /\ NoReturn

LEMMA InitIInv == Init => IInv
<1> SUFFICES ASSUME Init PROVE IInv
  OBVIOUS
<1>1. TypeOK
  BY DEF Init, TypeOK, KeysOK, Forever, NoDisk
<1>2. ListOK
  BY DEF Init, ListOK, UniqueNames, KernelListed, ListedMounted, OneMissed,
         Names
<1>3. FoundOK /\ WalkOK /\ NoReturn
  BY DEF Init, FoundOK, WalkOK, NoReturn, ShuttingDown
<1> QED
  BY <1>1, <1>2, <1>3 DEF IInv

\* The device between kernel and list is one of the devices.
LEMMA BetweenOne ==
    ASSUME IInv
    PROVE  Between = {} \/ \E d \in Dev : Between = {d}
<1>1. CASE pc = "add"
  BY <1>1 DEF Between, IInv, FoundOK, Disk
<1>2. CASE pc \in {"del", "hang"}
  <2>1. mounts[cursor] \in Disk
    BY <1>2 DEF IInv, TypeOK, WalkOK
  <2> QED
    BY <1>2, <2>1 DEF Between, Disk
<1>3. CASE pc \notin {"add", "del", "hang"}
  BY <1>3 DEF Between
<1> QED
  BY <1>1, <1>2, <1>3

\* Every action keeps the types.
LEMMA TypeStep ==
    ASSUME IInv, [Next]_vars
    PROVE  TypeOK'
<1> USE DEF IInv, TypeOK
<1>0. ASSUME UNCHANGED keyVars
      PROVE  KeysOK'
  BY <1>0, KeysStep
<1>1. ASSUME NEW d \in Dev, Swap(d)
      PROVE  TypeOK'
  BY <1>0, <1>1 DEF Swap, listVars, callVars, offVars
<1>2. CASE PressKey
  BY <1>2, KeysStep DEF PressKey, envVars, listVars, callVars, offVars
<1>3. ASSUME NEW i \in Id, NEW t \in Timeout, Call(i, t)
      PROVE  TypeOK'
  BY <1>0, <1>3, TimeoutAssumption DEF Call, CallHit, CallMiss, Return,
       envVars, listVars, callVars, offVars
<1>4. CASE ScanHit
  <2>1. Found /\ (Erase \/ UNCHANGED keyVars)
    BY <1>4 DEF ScanHit
  <2>2. PICK n \in DOMAIN DevSeq : found' = Probe(DevSeq[n])
    BY <2>1 DEF Found
  <2>3. Probe(DevSeq[n]) \in Disk
    BY DevAssumption, MediaAssumption DEF Probe, Disk, Dev
  <2> QED
    BY <2>1, <2>2, <2>3, KeysStep DEF Found, envVars, listVars, offVars
<1>5. CASE ScanMiss
  BY <1>5, KeysStep DEF ScanMiss, Return, callVars, envVars, listVars, offVars
<1>6. CASE PollQuiet
  BY <1>0, <1>6 DEF PollQuiet, Forever, envVars, listVars, offVars
<1>7. CASE RescanMiss \/ PollKey \/ EraseHangs
  BY <1>0, <1>7 DEF RescanMiss, PollKey, Polled, EraseHangs, envVars, listVars,
       callVars, offVars
<1>8. CASE TakeKey
  BY <1>8, KeysStep DEF TakeKey, envVars, listVars, callVars, offVars
<1>9. CASE GiveUp
  BY <1>9, KeysStep DEF GiveUp, Return, envVars, listVars, offVars
<1>10. CASE AlreadyMounted
  BY <1>0, <1>10 DEF AlreadyMounted, SkipMount, envVars, listVars, callVars,
       offVars
<1>11. ASSUME NEW isBusy \in BOOLEAN, MountOk(isBusy)
       PROVE  TypeOK'
  <2>1. found.name \in Dev
    BY <1>11 DEF MountOk, FoundOK, Disk
  <2> QED
    BY <1>0, <1>11, <2>1 DEF MountOk, envVars, callVars, offVars
<1>12. CASE ListAdd
  <2>1. mounts' \in Seq(Disk)
    BY <1>12, AppendNames DEF ListAdd, FoundOK
  <2> QED
    BY <1>0, <1>12, <2>1 DEF ListAdd, envVars, callVars, offVars
<1>13. CASE MountFails
  BY <1>0, <1>13 DEF MountFails, Return, envVars, listVars, offVars
<1>14. CASE Lookup
  BY <1>0, <1>14 DEF Lookup, Return, callVars, envVars, listVars, offVars
<1>15. CASE CallReboot \/ Sigint
  <2>1. Between \subseteq Dev
    BY BetweenOne
  <2> QED
    BY <1>0, <1>15, <2>1 DEF CallReboot, Sigint, StartReboot, NoId, envVars,
         listVars
<1>16. CASE UmountOk
  BY <1>0, <1>16 DEF UmountOk, envVars, callVars, offVars
<1>17. CASE ListDel
  <2>1. cursor \in 1 .. Len(mounts)
    BY <1>17 DEF ListDel, Deletes, WalkOK
  <2>2. mounts' \in Seq(Disk) /\ pc' \in {"umount", "hang"}
    BY <1>17, <2>1, RemoveIsSeq DEF ListDel, Deletes
  <2> QED
    BY <1>0, <1>17, <2>2 DEF ListDel, Deletes, envVars, callVars
<1>18. CASE UmountFails
  <2>1. mounts[cursor] \in Disk
    BY <1>18 DEF UmountFails, Refused
  <2>2. mounts[cursor].name \in Dev
    BY <2>1 DEF Disk
  <2> QED
    BY <1>0, <1>18, <2>2 DEF UmountFails, Refused, envVars, listVars, callVars
<1>19. CASE UmountDone \/ Reboot \/ RebootFails
  BY <1>0, <1>19 DEF UmountDone, Reboot, RebootFails, RebootFailsWith, envVars,
       listVars, callVars, offVars
<1>20. CASE Stopped \/ UNCHANGED vars
  BY <1>0, <1>20 DEF Stopped, vars, keyVars
<1> QED
  BY <1>1, <1>2, <1>3, <1>4, <1>5, <1>6, <1>7, <1>8, <1>9, <1>10, <1>11,
     <1>12, <1>13, <1>14, <1>15, <1>16, <1>17, <1>18, <1>19, <1>20
     DEF Next, Program, Serve, Unmount, UnmountAll, Environment

\* The steps of mount_by_id() other than those that mount.
Quiet ==
    \/ ScanHit \/ ScanMiss \/ PollQuiet \/ RescanMiss \/ PollKey \/ TakeKey
    \/ GiveUp \/ EraseHangs \/ AlreadyMounted \/ MountFails \/ Lookup
    \/ \E i \in Id, t \in Timeout : Call(i, t)

LEMMA QuietSteps ==
    ASSUME Quiet
    PROVE  /\ UNCHANGED <<envVars, listVars, offVars>>
           /\ pc \in {"idle", "scan", "wait", "rescan", "key", "aborted",
                      "mount", "lookup"}
           /\ pc' \in {"idle", "scan", "wait", "rescan", "key", "aborted",
                       "mount", "lookup", "stuck", "crash"}
<1>1. CASE ScanHit \/ ScanMiss \/ PollQuiet
  BY <1>1 DEF ScanHit, Found, ScanMiss, PollQuiet, Return
<1>2. CASE RescanMiss \/ PollKey \/ TakeKey
  BY <1>2 DEF RescanMiss, PollKey, Polled, TakeKey
<1>3. CASE GiveUp \/ EraseHangs \/ AlreadyMounted \/ MountFails \/ Lookup
  BY <1>3 DEF GiveUp, EraseHangs, AlreadyMounted, SkipMount, MountFails,
              Lookup, Return
<1>4. CASE \E i \in Id, t \in Timeout : Call(i, t)
  BY <1>4 DEF Call, CallHit, CallMiss, Return
<1> QED
  BY <1>1, <1>2, <1>3, <1>4 DEF Quiet

\* The steps of others.
Outside == PressKey \/ (\E d \in Dev : Swap(d)) \/ Stopped \/ UNCHANGED vars

LEMMA OutsideSteps ==
    ASSUME Outside
    PROVE  UNCHANGED <<listVars, pc, callVars, offVars>>
  BY DEF Outside, PressKey, Swap, Stopped, vars, listVars, callVars, offVars

\* Every step is one of these, or one that changes the list or the kernel, or
\* one of unmount_all().
LEMMA Steps ==
    ASSUME [Next]_vars
    PROVE  \/ Quiet \/ Outside
           \/ \E isBusy \in BOOLEAN : MountOk(isBusy)
           \/ ListAdd \/ CallReboot \/ Sigint \/ UmountOk \/ ListDel
           \/ UmountFails \/ UmountDone \/ Reboot \/ RebootFails
  BY DEF Next, Program, Serve, Unmount, UnmountAll, Environment, Quiet,
         Outside

\* The steps that change neither the list, nor the kernel's mounts, nor what is
\* between the two, keep ListOK.
LEMMA ListFrame ==
    ASSUME ListOK, UNCHANGED <<listVars, missed, Between>>,
           missed # {} => cmd' = cmd
    PROVE  ListOK'
<1>1. UniqueNames'
  BY DEF ListOK, UniqueNames, listVars
<1>2. KernelListed' /\ ListedMounted'
  BY DEF ListOK, KernelListed, ListedMounted, Names, listVars
<1>3. OneMissed'
  BY DEF ListOK, OneMissed
<1> QED
  BY <1>1, <1>2, <1>3 DEF ListOK

\* A device is in the kernel or busy before it enters the list, and out of the
\* kernel before it leaves it; SIGINT in between makes it the one missed.
LEMMA ListStep ==
    ASSUME IInv, [Next]_vars
    PROVE  ListOK'
<1> USE DEF IInv
<1>1. ASSUME NEW isBusy \in BOOLEAN, MountOk(isBusy)
      PROVE  ListOK'
  <2>1. /\ Between = {} /\ Between' = {found.name}
        /\ UNCHANGED <<mounts, cmd, missed>>
        /\ found.name \notin Names(mounts)
    BY <1>1 DEF MountOk, Between, callVars, offVars
  <2>2. UniqueNames' /\ OneMissed'
    BY <2>1 DEF ListOK, UniqueNames, OneMissed
  <2>3. KernelListed'
    BY <1>1, <2>1 DEF MountOk, ListOK, KernelListed, Names
  <2>4. ListedMounted'
    <3>1. CASE isBusy
      BY <1>1, <2>1, <3>1 DEF MountOk, ListOK, ListedMounted, Names
    <3>2. CASE ~isBusy
      BY <1>1, <2>1, <3>2 DEF MountOk, ListOK, ListedMounted, Names
    <3> QED
      BY <3>1, <3>2
  <2> QED
    BY <2>2, <2>3, <2>4 DEF ListOK
<1>2. CASE ListAdd
  <2>1. /\ found \in Disk
        /\ mounts \in Seq(Disk)
        /\ mounts' = Append(mounts, found)
        /\ found.name \notin Names(mounts)
        /\ found.name \in kmnt \cup busy
        /\ UNCHANGED <<kmnt, busy, cmd, missed>>
        /\ Between = {found.name} /\ Between' = {}
    BY <1>2 DEF ListAdd, FoundOK, TypeOK, Between, offVars
  <2>2. /\ Names(mounts') = Names(mounts) \cup {found.name}
        /\ DOMAIN mounts' = 1 .. Len(mounts) + 1
        /\ \A n \in DOMAIN mounts : mounts'[n] = mounts[n]
        /\ mounts'[Len(mounts) + 1] = found
    BY <2>1, AppendNames
  <2>3. UniqueNames'
    <3>1. DOMAIN mounts = 1 .. Len(mounts) /\ Len(mounts) \in Nat
      BY <2>1
    <3>2. SUFFICES ASSUME NEW m \in DOMAIN mounts', NEW n \in DOMAIN mounts',
                          mounts'[m].name = mounts'[n].name
                   PROVE  m = n
      BY DEF UniqueNames
    <3>3. CASE m \in DOMAIN mounts /\ n \in DOMAIN mounts
      BY <2>2, <3>2, <3>3 DEF ListOK, UniqueNames
    <3>4. CASE m \in DOMAIN mounts /\ n = Len(mounts) + 1
      BY <2>1, <2>2, <3>2, <3>4 DEF Names
    <3>5. CASE n \in DOMAIN mounts /\ m = Len(mounts) + 1
      BY <2>1, <2>2, <3>2, <3>5 DEF Names
    <3> QED
      BY <2>2, <3>1, <3>3, <3>4, <3>5
  <2>4. KernelListed' /\ ListedMounted'
    BY <2>1, <2>2 DEF ListOK, KernelListed, ListedMounted, Names
  <2>5. OneMissed'
    BY <2>1 DEF ListOK, OneMissed
  <2> QED
    BY <2>3, <2>4, <2>5 DEF ListOK
<1>3. CASE UmountOk
  <2>1. /\ kmnt' = kmnt \ {mounts[cursor].name}
        /\ Between = {} /\ Between' = {mounts[cursor].name}
        /\ UNCHANGED <<mounts, busy, cmd, missed>>
    BY <1>3 DEF UmountOk, Between, offVars
  <2> QED
    BY <2>1 DEF ListOK, UniqueNames, KernelListed, ListedMounted, OneMissed,
         Names
<1>4. CASE ListDel
  <2> DEFINE d == mounts[cursor].name
  <2>1. /\ mounts \in Seq(Disk)
        /\ cursor \in 1 .. Len(mounts)
        /\ d \notin kmnt
        /\ Between = {d}
        /\ UNCHANGED <<kmnt, busy, cmd, missed>>
    BY <1>4 DEF ListDel, Deletes, WalkOK, TypeOK, Between
  <2>2. CASE ListDelEnds(cursor)
    <3>1. mounts' = Remove(mounts, cursor) /\ Between' = {}
      BY <1>4, <2>2 DEF ListDel, Deletes, Between
    <3>2. /\ Names(mounts') = Names(mounts) \ {d}
          /\ UniqueNames'
      BY <2>1, <3>1, RemoveNames DEF ListOK, UniqueNames
    <3>3. KernelListed' /\ ListedMounted' /\ OneMissed'
      BY <2>1, <3>1, <3>2
         DEF ListOK, KernelListed, ListedMounted, OneMissed, Names
    <3> QED
      BY <3>2, <3>3 DEF ListOK
  <2>3. CASE ~ListDelEnds(cursor)
    <3>1. UNCHANGED <<listVars, Between>>
      BY <1>4, <2>1, <2>3 DEF ListDel, Deletes, Between, listVars
    <3> QED
      BY <2>1, <3>1, ListFrame
  <2> QED
    BY <2>2, <2>3
<1>5. CASE CallReboot \/ Sigint
  <2>1. /\ UNCHANGED <<mounts, kmnt, busy>>
        /\ missed' = Between /\ Between' = {}
        /\ cmd # "restart"
    BY <1>5 DEF CallReboot, Sigint, StartReboot, NoReturn, listVars, Between
  <2>2. missed = {}
    BY <2>1 DEF ListOK, OneMissed
  <2>3. UniqueNames' /\ KernelListed' /\ ListedMounted'
    BY <2>1, <2>2 DEF ListOK, UniqueNames, KernelListed, ListedMounted, Names
  <2>4. missed' # {} => cmd' = "restart"
    BY <1>5, <2>1 DEF CallReboot, Sigint, StartReboot, Between
  <2>5. OneMissed'
    BY <2>1, <2>4, BetweenOne DEF OneMissed
  <2> QED
    BY <2>3, <2>5 DEF ListOK
<1>6. CASE UmountFails \/ UmountDone \/ Reboot \/ RebootFails
  <2>1. /\ UNCHANGED <<listVars, missed>>
        /\ cmd # "restart" \/ cmd' = cmd
        /\ Between = {} /\ Between' = {}
    BY <1>6 DEF UmountFails, Refused, UmountDone, Reboot, RebootFails,
         RebootFailsWith, offVars, listVars, Between
  <2> QED
    BY <2>1, ListFrame DEF ListOK, OneMissed
<1>7. CASE Quiet
  <2>1. /\ UNCHANGED <<listVars, missed, cmd>>
        /\ Between = {} /\ Between' = {}
    BY <1>7, QuietSteps DEF offVars, Between
  <2> QED
    BY <2>1, ListFrame
<1>8. CASE Outside
  <2>1. UNCHANGED <<listVars, pc, callVars, offVars>>
    BY <1>8, OutsideSteps
  <2>2. UNCHANGED <<missed, cmd, Between>>
    BY <2>1 DEF Between, listVars, callVars, offVars
  <2> QED
    BY <2>1, <2>2, ListFrame
<1> QED
  BY <1>1, <1>2, <1>3, <1>4, <1>5, <1>6, <1>7, <1>8, Steps

LEMMA FoundStep ==
    ASSUME IInv, [Next]_vars
    PROVE  FoundOK'
<1> USE DEF IInv
<1>1. CASE ScanHit
  <2>1. Found
    BY <1>1 DEF ScanHit
  <2>2. PICK n \in DOMAIN DevSeq : n \in Hits(id) /\ found' = Probe(DevSeq[n])
    BY <2>1 DEF Found, IsFirst
  <2>3. Probe(DevSeq[n]) \in Disk
    BY DevAssumption, MediaAssumption DEF Probe, Disk, Dev
  <2>4. [id EXCEPT !.prefix = FALSE].key = id.key
    <3>1. CASE id = NoId
      BY <3>1 DEF NoId
    <3>2. CASE id \in Id
      <4>1. id \in [prefix : BOOLEAN, key : Key]
        BY <3>2, IdAssumption
      <4> QED
        BY <4>1
    <3> QED
      BY <3>1, <3>2 DEF TypeOK
  <2>5. id.key \in found'.tags \/ id.key = found'.name
    BY <2>2, <2>4 DEF Hits, Compare
  <2> QED
    BY <2>1, <2>2, <2>3, <2>5 DEF Found, FoundOK
<1>2. CASE AlreadyMounted
  BY <1>2 DEF AlreadyMounted, SkipMount, FoundOK, listVars, callVars
<1>3. ASSUME NEW isBusy \in BOOLEAN, MountOk(isBusy)
      PROVE  FoundOK'
  <2>1. /\ UNCHANGED <<mounts, id, found>> /\ pc' = "add" /\ pc = "mount"
        /\ found.name \notin Names(mounts)
        /\ found.name \in kmnt' \cup busy'
    BY <1>3 DEF MountOk, callVars
  <2> QED
    BY <2>1 DEF FoundOK, Names
<1>4. CASE ListAdd
  <2>1. found.name \in Names(mounts')
    BY <1>4, AppendNames DEF ListAdd, FoundOK, TypeOK
  <2> QED
    BY <1>4, <2>1 DEF ListAdd, FoundOK, callVars, Names
<1>5. CASE Outside
  <2>1. UNCHANGED <<mounts, kmnt, busy, pc, id, found>>
    BY <1>5, OutsideSteps DEF listVars, callVars
  <2> QED
    BY <2>1 DEF FoundOK, Names
<1>6. CASE \/ ScanMiss \/ PollQuiet \/ RescanMiss \/ PollKey \/ TakeKey
           \/ GiveUp \/ EraseHangs \/ MountFails \/ Lookup
           \/ \E i \in Id, t \in Timeout : Call(i, t)
  <2>1. pc' \notin {"mount", "add", "lookup"}
    BY <1>6 DEF ScanMiss, Return, PollQuiet, RescanMiss, PollKey, Polled,
         TakeKey, GiveUp, EraseHangs, MountFails, Lookup, Call, CallHit,
         CallMiss
  <2> QED
    BY <2>1 DEF FoundOK
<1>7. CASE \/ CallReboot \/ Sigint \/ UmountOk \/ ListDel \/ UmountFails
           \/ UmountDone \/ Reboot \/ RebootFails
  <2>1. pc' \notin {"mount", "add", "lookup"}
    BY <1>7 DEF CallReboot, Sigint, StartReboot, UmountOk, ListDel, Deletes,
         UmountFails, Refused, UmountDone, Reboot, RebootFails,
         RebootFailsWith
  <2> QED
    BY <2>1 DEF FoundOK
<1> QED
  BY <1>1, <1>2, <1>3, <1>4, <1>5, <1>6, <1>7, Steps DEF Quiet

LEMMA WalkStep ==
    ASSUME IInv, [Next]_vars
    PROVE  WalkOK'
<1> USE DEF IInv
<1>1. CASE CallReboot \/ Sigint
  <2>1. /\ mounts \in Seq(Disk)
        /\ UNCHANGED mounts
        /\ cursor' = 1 /\ pc' = "umount"
    BY <1>1 DEF CallReboot, Sigint, StartReboot, TypeOK,
         listVars
  <2>2. \A n \in DOMAIN mounts : ~(n < 1)
    BY <2>1
  <2> QED
    BY <2>1, <2>2 DEF WalkOK
<1>2. CASE UmountOk
  <2>1. /\ UNCHANGED <<mounts, cursor, refused>>
        /\ pc = "umount" /\ pc' = "del"
        /\ cursor \in DOMAIN mounts
        /\ kmnt' = kmnt \ {mounts[cursor].name}
    BY <1>2 DEF UmountOk, offVars
  <2> QED
    BY <2>1 DEF WalkOK, ShuttingDown
<1>3. CASE ListDel
  <2>1. /\ mounts \in Seq(Disk)
        /\ cursor \in 1 .. Len(mounts)
        /\ UNCHANGED <<cursor, refused, kmnt>>
        /\ pc = "del"
    BY <1>3 DEF ListDel, Deletes, WalkOK, TypeOK
  <2>2. CASE ListDelEnds(cursor)
    <3>1. mounts' = Remove(mounts, cursor) /\ pc' = "umount"
      BY <1>3, <2>2 DEF ListDel, Deletes
    <3>2. /\ DOMAIN mounts' = 1 .. Len(mounts) - 1
          /\ \A n \in DOMAIN mounts' : n < cursor => mounts'[n] = mounts[n]
      BY <2>1, <3>1, RemoveIsSeq
    <3>3. DOMAIN mounts' \subseteq DOMAIN mounts
      BY <2>1, <3>2
    <3> QED
      BY <2>1, <3>1, <3>2, <3>3 DEF WalkOK, ShuttingDown
  <2>3. CASE ~ListDelEnds(cursor)
    <3>1. mounts' = mounts /\ pc' = "hang" /\ cursor > 2
      BY <1>3, <2>1, <2>3 DEF ListDel, Deletes, ListDelEnds
    <3> QED
      BY <2>1, <3>1 DEF WalkOK, ShuttingDown
  <2> QED
    BY <2>2, <2>3
<1>4. CASE UmountFails
  <2>1. /\ mounts \in Seq(Disk)
        /\ cursor \in 1 .. Len(mounts)
        /\ UNCHANGED <<mounts, pc>>
        /\ cursor' = cursor + 1
        /\ refused' = refused \cup {mounts[cursor].name}
        /\ pc = "umount"
    BY <1>4 DEF UmountFails, Refused, TypeOK, listVars
  <2>2. ASSUME NEW n \in DOMAIN mounts, n < cursor + 1
        PROVE  mounts[n].name \in refused'
    <3>1. n < cursor \/ n = cursor
      BY <2>1, <2>2
    <3> QED
      BY <2>1, <3>1 DEF WalkOK, ShuttingDown
  <2> QED
    BY <2>1, <2>2 DEF WalkOK
<1>5. CASE UmountDone
  BY <1>5 DEF UmountDone, WalkOK, ShuttingDown, listVars, offVars
<1>6. CASE Reboot \/ RebootFails
  BY <1>6 DEF Reboot, RebootFails, RebootFailsWith, WalkOK, ShuttingDown
<1>7. CASE Outside
  <2>1. UNCHANGED <<mounts, kmnt, pc, cursor, refused>>
    BY <1>7, OutsideSteps DEF offVars, listVars
  <2> QED
    BY <2>1 DEF WalkOK, ShuttingDown
<1>8. CASE Quiet \/ ListAdd \/ \E isBusy \in BOOLEAN : MountOk(isBusy)
  <2>1. pc' \notin {"umount", "del", "hang", "reboot"}
    BY <1>8, QuietSteps DEF MountOk, ListAdd
  <2> QED
    BY <2>1 DEF WalkOK, ShuttingDown
<1> QED
  BY <1>1, <1>2, <1>3, <1>4, <1>5, <1>6, <1>7, <1>8, Steps

LEMMA NoReturnStep ==
    ASSUME NoReturn, [Next]_vars
    PROVE  NoReturn'
<1>1. CASE CallReboot \/ Sigint
  BY <1>1 DEF CallReboot, Sigint, StartReboot, NoReturn
<1>2. CASE UmountOk \/ ListDel \/ UmountFails \/ UmountDone
  BY <1>2 DEF UmountOk, ListDel, Deletes, UmountFails, Refused, UmountDone,
       NoReturn, offVars
<1>3. CASE Reboot \/ RebootFails
  BY <1>3 DEF Reboot, RebootFails, RebootFailsWith, NoReturn, offVars
<1>4. CASE Quiet
  BY <1>4, QuietSteps DEF NoReturn, offVars
<1>5. CASE Outside
  BY <1>5, OutsideSteps DEF NoReturn, offVars
<1>6. CASE ListAdd \/ \E isBusy \in BOOLEAN : MountOk(isBusy)
  BY <1>6 DEF MountOk, ListAdd, NoReturn, offVars
<1> QED
  BY <1>1, <1>2, <1>3, <1>4, <1>5, <1>6, Steps

LEMMA StepIInv == IInv /\ [Next]_vars => IInv'
<1> SUFFICES ASSUME IInv, [Next]_vars PROVE IInv'
  OBVIOUS
<1>1. TypeOK'
  BY TypeStep
<1>2. ListOK' /\ FoundOK' /\ WalkOK'
  BY ListStep, FoundStep, WalkStep
<1>3. NoReturn'
  BY NoReturnStep DEF IInv
<1> QED
  BY <1>1, <1>2, <1>3 DEF IInv

LEMMA IInvHolds == Spec => []IInv
  BY InitIInv, StepIInv, PTL DEF Spec

-----------------------------------------------------------------------------
(***************************************************************************)
(* The theorems.                                                           *)
(***************************************************************************)
\* Every variable keeps its type.
THEOREM TypeCorrect == Spec => []TypeOK
  BY IInvHolds, PTL DEF IInv

\* The list of disk.c never holds a device twice, and it and the kernel agree
\* but for the device being moved between them and the one SIGINT left there.
THEOREM ListMatchesKernel == Spec => []TableMatchesKernel
<1>1. IInv => TableMatchesKernel
  BY DEF IInv, ListOK, TableMatchesKernel
<1> QED
  BY <1>1, IInvHolds, PTL

\* mount_by_id()'s last search misses only for an ID with a file system type,
\* or for a device whose tags changed since it was mounted.
THEOREM LookupMisses == Spec => []LookupMissesOnlyOnSwap
<1>1. IInv => LookupMissesOnlyOnSwap
  <2> SUFFICES ASSUME IInv, pc = "lookup", Listed(mounts, id) = {}, ~id.prefix
               PROVE  \E n \in DOMAIN mounts :
                        /\ mounts[n].name = found.name
                        /\ mounts[n].tags # found.tags
    BY DEF LookupMissesOnlyOnSwap
  <2>1. PICK n \in DOMAIN mounts : mounts[n].name = found.name
    BY DEF IInv, FoundOK, Names
  <2>2. ~Compare(mounts[n], id)
    BY <2>1 DEF Listed
  <2>3. id.key \in found.tags \/ id.key = found.name
    BY DEF IInv, FoundOK
  <2>4. mounts[n].tags # found.tags
    BY <2>1, <2>2, <2>3 DEF Compare
  <2> QED
    BY <2>1, <2>4
<1> QED
  BY <1>1, IInvHolds, PTL

\* Nothing is still mounted when the machine reboots but what could not be
\* unmounted, and the one device SIGINT kept out of the list.
THEOREM RebootLeaves == Spec => []RebootLeavesOnlyRefused
<1>1. IInv => RebootLeavesOnlyRefused
  <2> SUFFICES ASSUME IInv, pc = "reboot", NEW d \in kmnt, d \notin missed
               PROVE  d \in refused
    BY DEF RebootLeavesOnlyRefused
  <2>1. mounts \in Seq(Disk) /\ cursor \in Nat \ {0}
    BY DEF IInv, TypeOK
  <2>2. PICK n \in DOMAIN mounts : mounts[n].name = d
    BY DEF IInv, ListOK, KernelListed, Between, Names
  <2>3. n < cursor
    BY <2>1 DEF IInv, WalkOK
  <2> QED
    BY <2>2, <2>3 DEF IInv, WalkOK, ShuttingDown
<1> QED
  BY <1>1, IInvHolds, PTL

\* unmount_all() never hangs in list_del() unless two umount() failed before.
THEOREM HangNeeds == Spec => []HangNeedsTwoRefusals
<1>1. IInv => HangNeedsTwoRefusals
  <2> SUFFICES ASSUME IInv, pc = "hang"
               PROVE  \E a, b \in refused : a # b
    BY DEF HangNeedsTwoRefusals
  <2>1. /\ mounts \in Seq(Disk)
        /\ cursor \in 1 .. Len(mounts)
        /\ cursor > 2
    BY DEF IInv, TypeOK, WalkOK
  <2>2. mounts[1].name \in refused /\ mounts[2].name \in refused
    BY <2>1 DEF IInv, WalkOK, ShuttingDown
  <2>3. mounts[1].name # mounts[2].name
    BY <2>1 DEF IInv, ListOK, UniqueNames
  <2> QED
    BY <2>2, <2>3
<1> QED
  BY <1>1, IInvHolds, PTL

\* Outside unmount_all() every node of the list stays what and where it is.
LEMMA KeepsNodes ==
    ASSUME IInv, [Next]_vars, ~ShuttingDown
    PROVE  \A n \in DOMAIN mounts :
              n \in DOMAIN mounts' /\ mounts'[n] = mounts[n]
<1>1. CASE ListAdd
  <2>1. found \in Disk /\ mounts \in Seq(Disk)
    BY <1>1 DEF IInv, TypeOK, FoundOK, ListAdd
  <2>2. DOMAIN mounts \subseteq 1 .. Len(mounts) + 1
    BY <2>1
  <2> QED
    BY <1>1, <2>1, <2>2, AppendNames DEF ListAdd
<1>2. CASE UNCHANGED mounts
  BY <1>2
<1>3. ASSUME ~ListAdd
      PROVE  UNCHANGED mounts
  <2>1. CASE Quiet \/ Outside
    BY <2>1, QuietSteps, OutsideSteps DEF listVars
  <2>2. CASE \/ UmountOk \/ ListDel \/ UmountFails \/ UmountDone \/ Reboot
             \/ RebootFails
    BY <2>2 DEF ShuttingDown, UmountOk, ListDel, Deletes, UmountFails, Refused,
         UmountDone, Reboot, RebootFails, RebootFailsWith
  <2>3. CASE \/ CallReboot \/ Sigint
             \/ \E isBusy \in BOOLEAN : MountOk(isBusy)
    BY <2>3 DEF CallReboot, Sigint, StartReboot, MountOk, listVars
  <2> QED
    BY <1>3, <2>1, <2>2, <2>3, Steps
<1> QED
  BY <1>1, <1>2, <1>3

-----------------------------------------------------------------------------
(***************************************************************************)
(* disk.c implements the mount service.                                    *)
(***************************************************************************)
\* A step that leaves what the service sees alone stutters.
LEMMA ServiceStutter ==
    ASSUME UNCHANGED <<Names(mounts), kmnt, Between, Phase>>
    PROVE  UNCHANGED Service!svars
  BY DEF Service!svars

LEMMA ServiceStep ==
    ASSUME IInv, [Next]_vars
    PROVE  [Service!Next]_(Service!svars)
<1> USE DEF IInv
<1>1. ASSUME NEW isBusy \in BOOLEAN, MountOk(isBusy)
      PROVE  Service!Next
  <2>1. /\ found.name \in Dev /\ found.name \notin Names(mounts)
        /\ Names(mounts)' = Names(mounts)
        /\ kmnt' \in {kmnt, kmnt \cup {found.name}}
        /\ Between = {} /\ Between' = {found.name}
    BY <1>1 DEF MountOk, FoundOK, Disk, Names, Between, callVars
  <2>2. Phase = "serve" /\ Phase' = "serve"
    BY <1>1 DEF MountOk, Phase, ShuttingDown, Running, NoReturn, offVars
  <2>3. Service!Mount(found.name)
    BY <2>1, <2>2 DEF Service!Mount
  <2> QED
    BY <2>1, <2>3 DEF Service!Next
<1>2. CASE ListAdd
  <2>1. found \in Disk /\ mounts \in Seq(Disk) /\ found.name \in Dev
    BY <1>2 DEF ListAdd, FoundOK, TypeOK, Disk
  <2>2. Names(mounts)' = Names(mounts) \cup {found.name}
    BY <1>2, <2>1, AppendNames DEF ListAdd, Names
  <2>3. kmnt' = kmnt /\ Between = {found.name} /\ Between' = {}
    BY <1>2 DEF ListAdd, Between
  <2>4. Phase = "serve" /\ Phase' = "serve"
    BY <1>2 DEF ListAdd, Phase, ShuttingDown, Running, NoReturn, offVars
  <2>5. Service!Enter(found.name)
    BY <2>2, <2>3, <2>4 DEF Service!Enter
  <2> QED
    BY <2>1, <2>5 DEF Service!Next
<1>3. CASE UmountOk
  <2> DEFINE d == mounts[cursor].name
  <2>1. /\ cursor \in DOMAIN mounts
        /\ d \in kmnt /\ kmnt \subseteq Dev
        /\ kmnt' = kmnt \ {d}
        /\ UNCHANGED <<mounts, cursor, cmd>>
        /\ pc = "umount" /\ pc' = "del"
    BY <1>3 DEF UmountOk, TypeOK, offVars
  <2>2. Names(mounts)' = Names(mounts) /\ d \in Names(mounts)
    BY <2>1 DEF Names
  <2>3. Between = {} /\ Between' = {d}
    BY <2>1 DEF Between
  <2>4. Phase \in {"shutdown", "restart"} /\ Phase' = Phase
    BY <2>1 DEF Phase, ShuttingDown, Running
  <2>5. Service!Release(d)
    BY <2>1, <2>2, <2>3, <2>4 DEF Service!Release, Service!Stopping
  <2> QED
    BY <2>1, <2>5 DEF Service!Next
<1>4. CASE ListDel
  <2> DEFINE d == mounts[cursor].name
  <2>1. /\ mounts \in Seq(Disk)
        /\ cursor \in 1 .. Len(mounts)
        /\ kmnt' = kmnt
        /\ UNCHANGED <<cursor, cmd>>
        /\ pc = "del" /\ Between = {d}
    BY <1>4 DEF ListDel, Deletes, WalkOK, TypeOK, Between
  <2>2. d \in Dev
    <3>1. mounts[cursor] \in Disk
      BY <2>1
    <3> QED
      BY <3>1 DEF Disk
  <2>3. CASE ListDelEnds(cursor)
    <3>1. mounts' = Remove(mounts, cursor) /\ pc' = "umount"
      BY <1>4, <2>3 DEF ListDel, Deletes
    <3>2. Names(Remove(mounts, cursor)) = Names(mounts) \ {d}
      BY <2>1, RemoveNames DEF ListOK, UniqueNames
    <3>3. Names(mounts)' = Names(mounts) \ {d} /\ Between' = {}
      BY <3>1, <3>2 DEF Names, Between
    <3>4. Phase \in {"shutdown", "restart"} /\ Phase' = Phase
      BY <2>1, <3>1 DEF Phase, ShuttingDown, Running
    <3>5. Service!Forget(d)
      BY <2>1, <3>3, <3>4 DEF Service!Forget, Service!Stopping
    <3> QED
      BY <2>2, <3>5 DEF Service!Next
  <2>4. CASE ~ListDelEnds(cursor)
    <3>1. UNCHANGED <<mounts, cursor, cmd>> /\ pc' = "hang"
      BY <1>4, <2>1, <2>4 DEF ListDel, Deletes
    <3>2. UNCHANGED <<Names(mounts), kmnt, Between, Phase>>
      BY <2>1, <3>1 DEF Names, Between, Phase, ShuttingDown, Running
    <3> QED
      BY <3>2, ServiceStutter
  <2> QED
    BY <2>3, <2>4
<1>5. ASSUME UNCHANGED listVars
      PROVE  UNCHANGED <<Names(mounts), kmnt>>
  BY <1>5 DEF listVars, Names
<1>6. CASE CallReboot
  <2>1. /\ UNCHANGED listVars /\ Between = {} /\ Between' = {}
        /\ Phase = "serve" /\ Phase' = "shutdown"
    BY <1>6 DEF CallReboot, StartReboot, Between, Phase, ShuttingDown, Running,
         NoReturn
  <2> QED
    BY <1>5, <2>1 DEF Service!Next, Service!Shutdown
<1>7. CASE Sigint
  <2>1. /\ UNCHANGED listVars /\ Between' = {}
        /\ Phase \in {"serve", "shutdown"} /\ Phase' = "restart"
    BY <1>7 DEF Sigint, StartReboot, Between, Phase, ShuttingDown, Running
  <2> QED
    BY <1>5, <2>1 DEF Service!Next, Service!Interrupt
<1>8. CASE Reboot
  <2>1. /\ UNCHANGED listVars /\ Between = {} /\ Between' = {}
        /\ Phase # "off" /\ Phase' = "off"
    BY <1>8 DEF Reboot, Between, Phase, ShuttingDown, Running
  <2> QED
    BY <1>5, <2>1 DEF Service!Next, Service!Halt
<1>9. CASE RebootFails
  <2>1. /\ UNCHANGED listVars /\ Between = {} /\ Between' = {}
        /\ Phase = "shutdown" /\ Phase' = "serve"
    BY <1>9 DEF RebootFails, RebootFailsWith, listVars, Between, Phase,
         ShuttingDown, Running
  <2> QED
    BY <1>5, <2>1 DEF Service!Next, Service!Resume
<1>10. CASE UmountFails \/ UmountDone
  <2>1. /\ UNCHANGED <<listVars, Phase>> /\ Between = {} /\ Between' = {}
    BY <1>10 DEF UmountFails, Refused, UmountDone, listVars, offVars, Between,
         Phase, ShuttingDown, Running
  <2> QED
    BY <1>5, <2>1, ServiceStutter
<1>11. CASE Quiet
  <2>1. /\ UNCHANGED <<listVars, cmd>> /\ Between = {} /\ Between' = {}
        /\ Phase = "serve" /\ Phase' \in {"serve", "off"}
    BY <1>11, QuietSteps DEF Between, Phase, ShuttingDown, Running, NoReturn,
         offVars
  <2>2. CASE Phase' = "serve"
    BY <1>5, <2>1, <2>2, ServiceStutter
  <2>3. CASE Phase' = "off"
    BY <1>5, <2>1, <2>3 DEF Service!Next, Service!Halt
  <2> QED
    BY <2>1, <2>2, <2>3
<1>12. CASE Outside
  <2>1. UNCHANGED <<listVars, pc, callVars, offVars>>
    BY <1>12, OutsideSteps
  <2>2. UNCHANGED <<Between, Phase>>
    BY <2>1 DEF Between, Phase, ShuttingDown, Running, listVars, callVars,
         offVars
  <2> QED
    BY <1>5, <2>1, <2>2, ServiceStutter
<1> QED
  BY <1>1, <1>2, <1>3, <1>4, <1>6, <1>7, <1>8, <1>9, <1>10, <1>11, <1>12,
     Steps

\* MountTable implements MountService: every behaviour of disk.c is one of the
\* service, seen through the names in its list, SIGINT at any point included.
THEOREM Implements == Spec => ServiceSpec
<1>1. Init => Service!Init
  BY DEF Init, Service!Init, Names, Between, Phase, ShuttingDown, Running
<1>2. IInv /\ [Next]_vars => [Service!Next]_(Service!svars)
  BY ServiceStep
<1> QED
  BY <1>1, <1>2, IInvHolds, PTL DEF Spec, ServiceSpec, Service!Spec

-----------------------------------------------------------------------------
(***************************************************************************)
(* The arguments.                                                          *)
(***************************************************************************)
\* The arguments still to come are some of a target's, and the one whose path
\* is being translated is still among them.
TodoOK ==
    /\ todo \in Seq(Arg)
    /\ bpc = "path" => todo # <<>>

\* Adding an argument leaves the rest of them, or none.
LEMMA PushTodo ==
    ASSUME TodoOK, todo # <<>>, NEW devs, Push(devs)
    PROVE  TodoOK'
<1>1. CASE argc + 1 = MaxArgv
  BY <1>1 DEF Push, Cleanup, TodoOK
<1>2. CASE argc + 1 # MaxArgv
  BY <1>2 DEF Push, TodoOK
<1> QED
  BY <1>1, <1>2

LEMMA CleanupTodo ==
    ASSUME Cleanup
    PROVE  TodoOK'
  BY DEF Cleanup, TodoOK

LEMMA TodoInit == BootInit => TodoOK
  BY DEF BootInit, TodoOK

LEMMA TodoStep == TodoOK /\ [BootNext]_allVars => TodoOK'
<1> SUFFICES ASSUME TodoOK, [BootNext]_allVars PROVE TodoOK'
  OBVIOUS
<1>1. ASSUME NEW t \in Target, Boot(t)
      PROVE  TodoOK'
  BY <1>1, ArgsAssumption DEF Boot, TodoOK
<1>2. CASE PushPlain \/ PathInvalid \/ PathDone
  BY <1>2, PushTodo, CleanupTodo DEF PushPlain, PathInvalid, PathDone, TodoOK
<1>3. CASE MountPath
  BY <1>3 DEF MountPath, TodoOK
<1>4. ASSUME NEW s \in Slots, Fork(s) \/ ReapKid(s)
      PROVE  TodoOK'
  BY <1>4, CleanupTodo DEF Fork, ReapKid, Status, TodoOK
<1>5. CASE ForkFails \/ ReapKlog \/ RebootReturns
  BY <1>5, CleanupTodo DEF ForkFails, ReapKlog, RebootReturns, Status, TodoOK
<1>6. CASE RebootWorks \/ TableSteps \/ Children \/ UNCHANGED allVars
  BY <1>6 DEF RebootWorks, TableSteps, Children, KidLoads, KidExits, KlogEnds,
              allVars, bootVars, TodoOK
<1> QED
  BY <1>1, <1>2, <1>3, <1>4, <1>5, <1>6 DEF BootNext, BootSteps

-----------------------------------------------------------------------------
(***************************************************************************)
(* boot_target() uses the disk table as MountTable says it is used.        *)
(***************************************************************************)
LEMMA TableStep == TodoOK /\ [BootNext]_allVars => [Next]_vars
<1> SUFFICES ASSUME TodoOK, [BootNext]_allVars PROVE [Next]_vars
  OBVIOUS
<1>1. CASE MountPath
  <2>1. Head(todo) \in Arg /\ Head(todo).kind = "disk"
    BY <1>1 DEF MountPath, TodoOK
  <2>2. Head(todo).id \in Id
    BY <2>1 DEF Arg
  <2>3. Call(Head(todo).id, 0)
    BY <1>1 DEF MountPath
  <2> QED
    BY <2>2, <2>3, TryOnceAssumption DEF Next, Program
<1>2. ASSUME NEW s \in Slots, Fork(s) \/ ReapKid(s)
      PROVE  [Next]_vars
  BY <1>2 DEF Fork, ReapKid, Status, Next, Program
<1>3. CASE ReapKlog
  BY <1>3 DEF ReapKlog, Status, Next, Program
<1>4. CASE RebootWorks \/ RebootReturns \/ TableSteps
  BY <1>4 DEF RebootWorks, RebootReturns, TableSteps, Next, Program, Unmount,
              UnmountAll
<1>5. CASE \/ PushPlain \/ PathInvalid \/ PathDone \/ ForkFails \/ Children
           \/ UNCHANGED allVars \/ \E t \in Target : Boot(t)
  BY <1>5 DEF PushPlain, PathInvalid, PathDone, ForkFails, Children, KidLoads,
              KidExits, KlogEnds, Boot, allVars
<1> QED
  BY <1>1, <1>2, <1>3, <1>4, <1>5 DEF BootNext, BootSteps

\* Every behaviour of boot_target() is, seen through the disk table alone, one
\* of MountTable: what is proved of the table holds while targets are booted.
THEOREM BootUsesTable == BootSpec => Spec
<1>1. BootInit => Init
  BY DEF BootInit
<1> QED
  BY <1>1, TodoInit, TodoStep, TableStep, PTL DEF BootSpec, Spec

-----------------------------------------------------------------------------
(***************************************************************************)
(* Types.                                                                  *)
(***************************************************************************)
BootTypes ==
    /\ bpc \in {"menu", "args", "path", "wait", "reboot"}
    /\ target \in Target \cup {None}
    /\ argc \in 0 .. MaxArgv - 1
    /\ used \subseteq Dev
    /\ klog \in {"none", "running", "ended", "gone"}
    /\ kid \in [Slots -> Kid]
    /\ image \in Target \cup {None}
    /\ booted \in Target \cup {None}

\* argv has room while it is filled, and there is a target to fill it from.
Filling ==
    /\ bpc # "menu" => target \in Target
    /\ bpc = "menu" => argc = 0

TypesOK == BootTypes /\ Filling

LEMMA TypesInit == BootInit => TypesOK
<1> SUFFICES ASSUME BootInit PROVE TypesOK
  OBVIOUS
<1>1. 0 \in 0 .. MaxArgv - 1
  BY ArgvAssumption
<1> QED
  BY <1>1 DEF BootInit, TypesOK, BootTypes, Filling, Kid

LEMMA CleanupTypes ==
    ASSUME TypesOK, Cleanup, UNCHANGED <<kidVars, image, booted>>
    PROVE  TypesOK'
<1>1. 0 \in 0 .. MaxArgv - 1
  BY ArgvAssumption
<1> QED
  BY <1>1 DEF TypesOK, BootTypes, Filling, Cleanup, kidVars

LEMMA PushTypes ==
    ASSUME TypesOK, bpc \in {"args", "path"}, NEW devs \in SUBSET Dev,
           Push(devs), UNCHANGED <<kidVars, image, booted>>
    PROVE  TypesOK'
<1>1. CASE argc + 1 = MaxArgv
  BY <1>1, CleanupTypes DEF Push
<1>2. CASE argc + 1 # MaxArgv
  <2>1. argc + 1 \in 0 .. MaxArgv - 1
    BY <1>2, ArgvAssumption DEF TypesOK, BootTypes
  <2> QED
    BY <1>2, <2>1 DEF Push, TypesOK, BootTypes, Filling, kidVars
<1> QED
  BY <1>1, <1>2

LEMMA StatusTypes ==
    ASSUME TypesOK, bpc = "wait", NEW ok \in BOOLEAN, Status(ok),
           klog' \in {"none", "running", "ended", "gone"},
           kid' \in [Slots -> Kid], UNCHANGED <<image, booted>>
    PROVE  TypesOK'
<1>1. 0 \in 0 .. MaxArgv - 1
  BY ArgvAssumption
<1>2. CASE ok
  BY <1>2 DEF Status, TypesOK, BootTypes, Filling
<1>3. CASE ~ok
  BY <1>1, <1>3 DEF Status, Cleanup, TypesOK, BootTypes, Filling
<1> QED
  BY <1>2, <1>3

LEMMA TypesStep == TypeOK /\ TypesOK /\ [BootNext]_allVars => TypesOK'
<1> SUFFICES ASSUME TypeOK, TypesOK, [BootNext]_allVars PROVE TypesOK'
  OBVIOUS
<1>1. ASSUME NEW t \in Target, Boot(t)
      PROVE  TypesOK'
  <2>1. 2 \in 0 .. MaxArgv - 1
    BY ArgvAssumption
  <2> QED
    BY <1>1, <2>1 DEF Boot, TypesOK, BootTypes, Filling, kidVars
<1>2. CASE PushPlain
  BY <1>2, PushTypes DEF PushPlain
<1>3. CASE PathInvalid \/ ForkFails \/ RebootReturns
  BY <1>3, CleanupTypes DEF PathInvalid, ForkFails, RebootReturns
<1>4. CASE MountPath
  BY <1>4 DEF MountPath, TypesOK, BootTypes, Filling, kidVars
<1>5. CASE PathDone
  <2>1. CASE ret = NoDisk
    BY <1>5, <2>1, CleanupTypes DEF PathDone
  <2>2. CASE ret # NoDisk
    <3>1. ret \in Disk
      BY <2>2 DEF TypeOK
    <3>2. ret.name \in Dev
      BY <3>1 DEF Disk
    <3> QED
      BY <1>5, <2>2, <3>2, PushTypes DEF PathDone
  <2> QED
    BY <2>1, <2>2
<1>6. ASSUME NEW s \in Slots, Fork(s)
      PROVE  TypesOK'
  <2>1. [for |-> target, st |-> "running"] \in Kid
    BY <1>6 DEF Fork, TypesOK, Filling, Kid
  <2> QED
    BY <1>6, <2>1 DEF Fork, TypesOK, BootTypes, Filling
<1>7. ASSUME NEW s \in Slots, ReapKid(s)
      PROVE  TypesOK'
  <2>1. kid' \in [Slots -> Kid]
    BY <1>7 DEF ReapKid, TypesOK, BootTypes, Kid
  <2>2. (kid[s].st = "ok") \in BOOLEAN
    OBVIOUS
  <2> QED
    BY <1>7, <2>1, <2>2, StatusTypes DEF ReapKid, TypesOK, BootTypes
<1>8. CASE ReapKlog
  BY <1>8, StatusTypes DEF ReapKlog, TypesOK, BootTypes
<1>9. CASE RebootWorks
  BY <1>9 DEF RebootWorks, TypesOK, BootTypes, Filling, bootVars, kidVars
<1>10. CASE TableSteps \/ UNCHANGED allVars
  BY <1>10 DEF TableSteps, TypesOK, BootTypes, Filling, bootVars, kidVars,
               allVars
<1>11. ASSUME NEW s \in Slots, KidLoads(s) \/ KidExits(s)
       PROVE  TypesOK'
  <2>1. kid[s] \in Kid /\ kid[s] # Free
    BY <1>11 DEF KidLoads, KidExits, TypesOK, BootTypes, Free
  <2>2. kid[s] \in [for : Target, st : {"running", "loaded", "ok", "failed"}]
    BY <2>1 DEF Kid
  <2>3. \A v \in {"loaded", "ok", "failed"} : [kid[s] EXCEPT !.st = v] \in Kid
    BY <2>2 DEF Kid
  <2>4. \E v \in {"loaded", "ok", "failed"} :
          kid' = [kid EXCEPT ![s] = [kid[s] EXCEPT !.st = v]]
    BY <1>11 DEF KidLoads, KidExits
  <2>5. kid' \in [Slots -> Kid]
    BY <2>3, <2>4 DEF TypesOK, BootTypes
  <2>6. image' \in Target \cup {None}
    BY <1>11, <2>2 DEF KidLoads, KidExits, TypesOK, BootTypes
  <2> QED
    BY <1>11, <2>5, <2>6
       DEF KidLoads, KidExits, TypesOK, BootTypes, Filling, bootVars
<1>12. CASE KlogEnds
  BY <1>12 DEF KlogEnds, TypesOK, BootTypes, Filling, bootVars
<1> QED
  BY <1>1, <1>2, <1>3, <1>4, <1>5, <1>6, <1>7, <1>8, <1>9, <1>10, <1>11,
     <1>12 DEF BootNext, BootSteps, Children

LEMMA TypesHold == BootSpec => [](TodoOK /\ TypesOK)
<1>1. BootSpec => []TypeOK
  BY BootUsesTable, TypeCorrect, PTL
<1> QED
  BY <1>1, TodoInit, TodoStep, TypesInit, TypesStep, PTL DEF BootSpec

\* Every variable of boot_target() keeps its type; argv never overflows.
THEOREM BootTypeCorrect == BootSpec => []BootTypeOK
<1>1. TypeOK /\ TodoOK /\ TypesOK => BootTypeOK
  BY DEF TodoOK, TypesOK, BootTypes, BootTypeOK
<1> QED
  BY <1>1, BootUsesTable, TypeCorrect, TypesHold, PTL

-----------------------------------------------------------------------------
(***************************************************************************)
(* The kernel that is booted.                                              *)
(***************************************************************************)
\* While the kernel log child runs on, at most one child can be waited for: it
\* belongs to the attempt under way, and the kernel holds an image exactly when
\* that child has loaded it.
WaitsForOwn ==
    bpc = "wait" =>
        \E s \in Slots :
            /\ kid[s] # Free
            /\ kid[s].for = target
            /\ \A r \in Slots \ {s} : kid[r] = Free
            /\ image = IF kid[s].st \in {"loaded", "ok"} THEN target ELSE None

ImageOK ==
    /\ bpc \in {"menu", "args", "path"} => image = None
    /\ bpc = "reboot" => image = target
    /\ booted # None => booted = target /\ bpc = "reboot"

\* The reboot into a kernel is asked for in one place.
CmdOK == cmd = "kexec" => bpc = "reboot"

\* No child is left once it was waited for.
NoneLeft == bpc # "wait" => \A s \in Slots : kid[s] = Free

OrderOK ==
    /\ NoneLeft
    /\ WaitsForOwn
    /\ ImageOK
    /\ CmdOK

LEMMA OrderInit == BootInit => OrderOK
  BY DEF BootInit, Init, OrderOK, NoneLeft, WaitsForOwn, ImageOK, CmdOK

\* The way back to the menu from where no kernel was loaded.
LEMMA CleanupOrder ==
    ASSUME OrderOK, Cleanup, bpc # "wait", image = None, booted = None,
           UNCHANGED <<kidVars, image, booted>>, cmd' # "kexec"
    PROVE  OrderOK'
  BY DEF Cleanup, OrderOK, NoneLeft, WaitsForOwn, ImageOK, CmdOK, kidVars

\* One more argument.
LEMMA PushOrder ==
    ASSUME OrderOK, bpc \in {"args", "path"}, NEW devs, Push(devs),
           UNCHANGED <<vars, kidVars, image, booted>>
    PROVE  OrderOK'
<1>1. image = None /\ booted = None /\ cmd # "kexec" /\ cmd' = cmd
  BY DEF OrderOK, ImageOK, CmdOK, vars
<1>2. CASE argc + 1 = MaxArgv
  BY <1>1, <1>2, CleanupOrder DEF Push
<1>3. CASE argc + 1 # MaxArgv
  BY <1>1, <1>3
     DEF Push, OrderOK, NoneLeft, WaitsForOwn, ImageOK, CmdOK, kidVars
<1> QED
  BY <1>2, <1>3

\* The steps of the table that boot_target() waits for, by their kinds.
LEMMA TableKinds ==
    ASSUME TableSteps
    PROVE  \/ Quiet \/ Outside
           \/ \E isBusy \in BOOLEAN : MountOk(isBusy)
           \/ ListAdd \/ Sigint \/ UmountOk \/ ListDel
           \/ UmountFails \/ UmountDone
  BY DEF TableSteps, Serve, UnmountAll, Environment, Quiet, Outside

\* The table changes cmd to "restart" or not at all, until a reboot fails.
LEMMA TableCmd ==
    ASSUME TableSteps
    PROVE  cmd' \in {cmd, "restart"}
<1>1. CASE Quiet \/ Outside
  BY <1>1, QuietSteps, OutsideSteps DEF offVars
<1>2. CASE \/ \E isBusy \in BOOLEAN : MountOk(isBusy)
           \/ ListAdd \/ Sigint \/ UmountOk \/ ListDel
           \/ UmountFails \/ UmountDone
  BY <1>2 DEF MountOk, ListAdd, Sigint, StartReboot, UmountOk, ListDel,
         Deletes, UmountFails, Refused, UmountDone, offVars
<1> QED
  BY <1>1, <1>2, TableKinds

LEMMA OrderStep ==
    ASSUME TypesOK, OrderOK, [BootNext]_allVars, KlogSilent, KlogSilent'
    PROVE  OrderOK'
<1> USE NoneAssumption
<1>1. ASSUME NEW t \in Target, Boot(t)
      PROVE  OrderOK'
  BY <1>1 DEF Boot, OrderOK, NoneLeft, WaitsForOwn, ImageOK, CmdOK,
              kidVars, vars
<1>2. CASE PushPlain
  BY <1>2, PushOrder DEF PushPlain
<1>3. CASE PathInvalid \/ ForkFails
  BY <1>3, CleanupOrder DEF PathInvalid, ForkFails, OrderOK, ImageOK, CmdOK,
                            vars
<1>4. CASE MountPath
  <2>1. cmd' = cmd
    BY <1>4 DEF MountPath, Call, CallHit, CallMiss, offVars
  <2> QED
    BY <1>4, <2>1 DEF MountPath, OrderOK, NoneLeft, WaitsForOwn, ImageOK,
                      CmdOK, kidVars
<1>5. CASE PathDone
  <2>1. CASE ret = NoDisk
    BY <1>5, <2>1, CleanupOrder DEF PathDone, OrderOK, ImageOK, CmdOK, vars
  <2>2. CASE ret # NoDisk
    BY <1>5, <2>2, PushOrder DEF PathDone
  <2> QED
    BY <2>1, <2>2
<1>6. ASSUME NEW s \in Slots, Fork(s)
      PROVE  OrderOK'
  <2>1. /\ kid' = [kid EXCEPT ![s] = [for |-> target, st |-> "running"]]
        /\ kid \in [Slots -> Kid]
        /\ \A r \in Slots : kid[r] = Free
        /\ bpc' = "wait" /\ bpc = "args"
        /\ image = None /\ booted = None
        /\ UNCHANGED <<vars, target, klog, image, booted>>
    BY <1>6 DEF Fork, TypesOK, BootTypes, OrderOK, NoneLeft, ImageOK
  <2>2. /\ kid'[s] # Free /\ kid'[s].for = target /\ kid'[s].st = "running"
        /\ \A r \in Slots \ {s} : kid'[r] = Free
    BY <2>1 DEF Free
  <2>3. WaitsForOwn'
    BY <2>1, <2>2 DEF WaitsForOwn
  <2> QED
    BY <2>1, <2>3 DEF OrderOK, NoneLeft, ImageOK, CmdOK, vars
<1>7. ASSUME NEW s \in Slots, ReapKid(s)
      PROVE  OrderOK'
  <2>1. /\ kid \in [Slots -> Kid]
        /\ kid' = [kid EXCEPT ![s] = Free]
        /\ bpc = "wait" /\ kid[s].st \in {"ok", "failed"}
        /\ UNCHANGED <<klog, image, booted>>
    BY <1>7 DEF ReapKid, TypesOK, BootTypes
  <2>2. kid[s] # Free
    BY <2>1 DEF Free
  <2>3. /\ \A r \in Slots \ {s} : kid[r] = Free
        /\ image = IF kid[s].st \in {"loaded", "ok"} THEN target ELSE None
    BY <2>1, <2>2 DEF OrderOK, WaitsForOwn
  <2>4. \A r \in Slots : kid'[r] = Free
    BY <2>1, <2>3
  <2>5. CASE kid[s].st = "ok"
    BY <1>7, <2>1, <2>3, <2>4, <2>5
       DEF ReapKid, Status, CallReboot, StartReboot, OrderOK,
           NoneLeft, WaitsForOwn, ImageOK, CmdOK
  <2>6. CASE kid[s].st # "ok"
    <3>1. image' = None /\ Cleanup /\ cmd' = cmd
      BY <1>7, <2>1, <2>3, <2>6 DEF ReapKid, Status, vars
    <3> QED
      BY <2>1, <2>4, <3>1 DEF Cleanup, OrderOK, NoneLeft, WaitsForOwn,
                              ImageOK, CmdOK
  <2> QED
    BY <2>5, <2>6
<1>8. ~ReapKlog /\ ~KlogEnds
  BY DEF ReapKlog, KlogEnds, KlogSilent
<1>9. CASE RebootWorks
  <2>1. UNCHANGED <<bootVars, kidVars, image>> /\ cmd' = cmd
    BY <1>9 DEF RebootWorks, Reboot, offVars
  <2>2. cmd = "kexec" => booted' = target /\ bpc = "reboot"
    BY <1>9 DEF RebootWorks, OrderOK, ImageOK, CmdOK
  <2>3. cmd # "kexec" => booted' = booted
    BY <1>9 DEF RebootWorks
  <2> QED
    BY <2>1, <2>2, <2>3 DEF OrderOK, NoneLeft, WaitsForOwn, ImageOK,
                            CmdOK, bootVars, kidVars
<1>10. ~RebootReturns
  <2>1. RebootReturns => bpc = "reboot" /\ image = None
    BY DEF RebootReturns, RebootFails, RebootFailsWith, OrderOK, CmdOK
  <2> QED
    BY <2>1 DEF OrderOK, ImageOK, TypesOK, Filling
<1>11. CASE TableSteps
  BY <1>11, TableCmd DEF TableSteps, OrderOK, NoneLeft, WaitsForOwn,
                         ImageOK, CmdOK, bootVars, kidVars
<1>12. ASSUME NEW s \in Slots, KidLoads(s) \/ KidExits(s)
       PROVE  OrderOK'
  <2>1. kid \in [Slots -> Kid] /\ kid[s] # Free
    BY <1>12 DEF KidLoads, KidExits, TypesOK, BootTypes, Free
  <2>2. /\ bpc = "wait"
        /\ kid[s].for = target
        /\ \A r \in Slots \ {s} : kid[r] = Free
        /\ image = IF kid[s].st \in {"loaded", "ok"} THEN target ELSE None
    BY <2>1 DEF OrderOK, NoneLeft, WaitsForOwn
  <2>3. kid[s] \in [for : Target, st : {"running", "loaded", "ok", "failed"}]
    BY <2>1 DEF Kid
  <2>4. PICK v \in {"loaded", "ok", "failed"} :
          /\ kid' = [kid EXCEPT ![s].st = v]
          /\ image' = IF v \in {"loaded", "ok"} THEN target ELSE None
    BY <1>12, <2>2 DEF KidLoads, KidExits
  <2>5. /\ kid'[s] # Free /\ kid'[s].for = target /\ kid'[s].st = v
        /\ \A r \in Slots \ {s} : kid'[r] = Free
    BY <2>1, <2>2, <2>3, <2>4 DEF Free
  <2>6. UNCHANGED <<vars, bootVars, klog, booted>>
    BY <1>12 DEF KidLoads, KidExits
  <2>7. WaitsForOwn'
    BY <2>4, <2>5, <2>6 DEF WaitsForOwn, bootVars
  <2> QED
    BY <2>2, <2>6, <2>7 DEF OrderOK, NoneLeft, ImageOK, CmdOK, bootVars,
                            vars
<1>13. CASE UNCHANGED allVars
  BY <1>13 DEF allVars, vars, bootVars, kidVars, OrderOK, NoneLeft,
               WaitsForOwn, ImageOK, CmdOK
<1> QED
  BY <1>1, <1>2, <1>3, <1>4, <1>5, <1>6, <1>7, <1>8, <1>9, <1>10, <1>11,
     <1>12, <1>13 DEF BootNext, BootSteps, Children

\* The kernel log child ends once and for all.
LEMMA KlogStep ==
    ASSUME [BootNext]_allVars, KlogSilent'
    PROVE  KlogSilent
<1>1. klog' \in {klog, "ended", "gone"}
  BY DEF BootNext, BootSteps, TableSteps, Children, Boot, PushPlain,
         PathInvalid, MountPath, PathDone, Fork, ReapKid, ForkFails, ReapKlog,
         RebootWorks, RebootReturns, KidLoads, KidExits, KlogEnds, kidVars,
         allVars
<1> QED
  BY <1>1 DEF KlogSilent

\* As long as the kernel log child has not ended, the order is kept.
LEMMA OrderKept == BootSpec => [](KlogSilent => OrderOK)
<1> DEFINE Inv == KlogSilent => OrderOK
<1>1. BootInit => Inv
  BY OrderInit
<1>2. TypesOK /\ Inv /\ [BootNext]_allVars => Inv'
  <2> SUFFICES ASSUME TypesOK, Inv, [BootNext]_allVars, KlogSilent'
               PROVE  OrderOK'
    OBVIOUS
  <2>1. KlogSilent
    BY KlogStep
  <2> QED
    BY <2>1, OrderStep
<1> HIDE DEF Inv
<1>3. BootSpec => []Inv
  BY <1>1, <1>2, TypesHold, PTL DEF BootSpec
<1> QED
  BY <1>3 DEF Inv

\* As long as the kernel log child has not ended, the machine is rebooted only
\* into the target boot_target() was called for.
THEOREM BootsWhatWasPassed == BootSpec => []BootsTarget
<1>1. (KlogSilent => OrderOK) => BootsTarget
  BY DEF OrderOK, ImageOK, BootsTarget, BootsPassed
<1> QED
  BY <1>1, OrderKept, PTL

\* Until then a reboot comes after this attempt's kernel was loaded, and no
\* child is left for a later wait().
THEOREM AttemptsAreSeparate == BootSpec => []OwnAttempt
<1>1. (KlogSilent => OrderOK) => OwnAttempt
  BY DEF OrderOK, ImageOK, NoneLeft, NoStrayChild, RebootHasKernel, OwnAttempt
<1> QED
  BY <1>1, OrderKept, PTL

-----------------------------------------------------------------------------
(***************************************************************************)
(* The disks of the arguments.                                             *)
(***************************************************************************)
UsedOK ==
    /\ (bpc \in {"args", "path", "wait"} /\ ~ShuttingDown /\ Running) =>
          used \subseteq Names(mounts)
    /\ (bpc = "path" /\ pc = "idle" /\ ret # NoDisk) =>
          ret.name \in Names(mounts)

\* Names are only ever added while the disks are in use.
LEMMA NamesGrow ==
    ASSUME IInv, [Next]_vars, ~ShuttingDown
    PROVE  Names(mounts) \subseteq Names(mounts')
  BY KeepsNodes DEF Names

\* What mount_by_id() returns is in the list.
LEMMA ReturnsListed ==
    ASSUME NEW i, CallHit(i) \/ Serve, pc' = "idle", ret' # NoDisk
    PROVE  mounts' = mounts /\ ret'.name \in Names(mounts)
<1>1. CASE CallHit(i)
  BY <1>1 DEF CallHit, Return, Names, listVars
<1>2. CASE Lookup
  BY <1>2 DEF Lookup, Return, Names, listVars
<1>3. CASE Serve /\ ~Lookup
  BY <1>3 DEF Serve, ScanHit, Found, ScanMiss, PollQuiet, RescanMiss, PollKey,
              Polled, TakeKey, GiveUp, EraseHangs, AlreadyMounted, SkipMount,
              MountOk, ListAdd, MountFails, Return
<1> QED
  BY <1>1, <1>2, <1>3

LEMMA UsedStep ==
    ASSUME IInv, TodoOK, UsedOK, [BootNext]_allVars
    PROVE  UsedOK'
<1>1. CASE \/ \E t \in Target : Boot(t)
           \/ \E s \in Slots : ReapKid(s)
           \/ PathInvalid \/ ForkFails \/ ReapKlog \/ RebootReturns
  <2>1. bpc' \in {"menu", "reboot"} \/ (bpc' = "args" /\ used' = {})
    BY <1>1 DEF Boot, ReapKid, PathInvalid, ForkFails, ReapKlog, RebootReturns,
                Status, Cleanup
  <2> QED
    BY <2>1 DEF UsedOK
<1>2. CASE PushPlain
  BY <1>2 DEF PushPlain, Push, Cleanup, UsedOK, Names, ShuttingDown, Running,
              vars
<1>3. CASE MountPath
  <2>1. /\ bpc = "args" /\ bpc' = "path" /\ pc = "idle"
        /\ CallHit(Head(todo).id) \/ CallMiss(Head(todo).id, 0)
        /\ UNCHANGED <<mounts, used>>
    BY <1>3 DEF MountPath, Call, CallHit, CallMiss, listVars
  <2>2. used' \subseteq Names(mounts)'
    BY <2>1 DEF UsedOK, ShuttingDown, Running, Names
  <2>3. (pc' = "idle" /\ ret' # NoDisk) => ret'.name \in Names(mounts)'
    BY <2>1, ReturnsListed DEF CallMiss, Names
  <2> QED
    BY <2>1, <2>2, <2>3 DEF UsedOK
<1>4. CASE PathDone
  BY <1>4 DEF PathDone, Push, Cleanup, UsedOK, Names, ShuttingDown, Running,
              vars
<1>5. ASSUME NEW s \in Slots, Fork(s)
      PROVE  UsedOK'
  BY <1>5 DEF Fork, UsedOK, Names, ShuttingDown, Running, vars
<1>6. CASE RebootWorks
  BY <1>6 DEF RebootWorks, Reboot, UsedOK, Running
<1>7. CASE TableSteps
  <2>1. UNCHANGED <<bpc, used>> /\ [Next]_vars
    BY <1>7, TodoOK, TableStep DEF TableSteps, bootVars, BootNext
  <2>2. CASE ShuttingDown
    <3>1. ~Quiet /\ ~ListAdd /\ ~\E isBusy \in BOOLEAN : MountOk(isBusy)
      BY <2>2, QuietSteps DEF ShuttingDown, ListAdd, MountOk
    <3>2. ShuttingDown' /\ pc' # "idle"
      BY <1>7, <2>2, <3>1, TableKinds, OutsideSteps DEF Sigint, StartReboot,
         UmountOk, ListDel, Deletes, UmountFails, Refused, UmountDone,
         ShuttingDown
    <3> QED
      BY <3>2 DEF UsedOK
  <2>3. CASE ~ShuttingDown /\ Running
    <3>1. Names(mounts) \subseteq Names(mounts')
      BY <2>1, <2>3, NamesGrow
    <3>2. (bpc' = "path" /\ pc' = "idle" /\ ret' # NoDisk) =>
              ret'.name \in Names(mounts)'
      <4>1. CASE Serve
        BY <4>1, ReturnsListed DEF Names
      <4>2. CASE Environment
        BY <2>1, <3>1, <4>2
           DEF Environment, Swap, PressKey, Sigint, StartReboot,
               callVars, listVars, UsedOK, Names
      <4>3. CASE UnmountAll \/ Stopped
        BY <2>3, <4>3 DEF UnmountAll, UmountOk, ListDel, Deletes, UmountFails,
                          Refused, UmountDone, Stopped, ShuttingDown
      <4> QED
        BY <1>7, <4>1, <4>2, <4>3 DEF TableSteps
    <3> QED
      BY <2>1, <2>3, <3>1, <3>2 DEF UsedOK, Names
  <2>4. CASE ~Running
    <3>1. /\ ~Quiet /\ ~ListAdd /\ ~Sigint
          /\ ~\E isBusy \in BOOLEAN : MountOk(isBusy)
          /\ ~UmountOk /\ ~ListDel /\ ~UmountFails /\ ~UmountDone
      BY <2>4, QuietSteps DEF Running, ListAdd, Sigint, MountOk, UmountOk,
         ListDel, Deletes, UmountFails, Refused, UmountDone
    <3>2. UNCHANGED <<mounts, pc, ret>>
      BY <1>7, <3>1, TableKinds, OutsideSteps DEF listVars, callVars
    <3> QED
      BY <2>1, <2>4, <3>2 DEF UsedOK, Running, Names
  <2> QED
    BY <2>2, <2>3, <2>4
<1>8. CASE Children \/ UNCHANGED allVars
  BY <1>8 DEF Children, KidLoads, KidExits, KlogEnds, allVars, vars, bootVars,
              UsedOK, Names, ShuttingDown, Running
<1> QED
  BY <1>1, <1>2, <1>3, <1>4, <1>5, <1>6, <1>7, <1>8 DEF BootNext, BootSteps

\* While kexec's arguments are gathered and its child is waited for, the disks
\* the arguments are on are in the table, mounted or busy.
THEOREM ArgsMounted == BootSpec => []ArgsStayMounted
<1>1. BootInit => UsedOK
  BY DEF BootInit, UsedOK
<1>2. IInv /\ TodoOK /\ UsedOK /\ [BootNext]_allVars => UsedOK'
  BY UsedStep
<1>3. IInv /\ UsedOK => ArgsStayMounted
  <2> SUFFICES ASSUME IInv, UsedOK, bpc \in {"args", "path", "wait"},
                      ~ShuttingDown, Running
               PROVE  /\ used \subseteq Names(mounts)
                      /\ used \subseteq kmnt \cup busy
    BY DEF ArgsStayMounted
  <2>1. used \subseteq Names(mounts)
    BY DEF UsedOK
  <2>2. missed = {}
    BY DEF IInv, ListOK, OneMissed, NoReturn, ShuttingDown, Running
  <2>3. Names(mounts) \subseteq kmnt \cup busy
    BY <2>2 DEF IInv, ListOK, ListedMounted, FoundOK, Between, ShuttingDown
  <2> QED
    BY <2>1, <2>3
<1> QED
  BY <1>1, <1>2, <1>3, BootUsesTable, IInvHolds, TypesHold, PTL DEF BootSpec
=============================================================================

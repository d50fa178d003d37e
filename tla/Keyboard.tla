------------------------------ MODULE Keyboard ------------------------------
(***************************************************************************)
(* console.c as the loops that wait for a key meet it: the queue of the    *)
(* terminal, which poll() watches; getc_buf, into which console_getpos()   *)
(* puts what was typed before the answer it reads; console_getchar(), and  *)
(* console_erase(), which calls console_getpos().  Console has the bytes   *)
(* and the answer; here a key is one symbol wherever the code leaves its   *)
(* bytes together.  The 256 places of getc_buf are taken as enough.        *)
(***************************************************************************)
EXTENDS Integers, Sequences, FiniteSets

CONSTANTS
    Pressed,    \* the keys someone presses
    MaxKeys     \* bound: keys typed and not yet consumed

VARIABLES
    tty,        \* keys waiting in the terminal
    getc_buf    \* keys moved by console_getpos()

keyVars == <<tty, getc_buf>>

(***************************************************************************)
(* "home" stands for the keys of four bytes that console_getchar() knows   *)
(* (ESC [ 1 ~), "dead" for a sequence it does not know (ESC [ Z).  One of  *)
(* four bytes is "dead" and the key of its last byte: "other" for INSERT,  *)
(* "shell" and "disks" for F3 and F4 (ESC [ [ C, ESC [ [ D).               *)
(***************************************************************************)
LongKey == {"up", "down", "left", "right", "home", "dead"}

Keystroke == LongKey \cup {"esc", "enter", "disks", "shell", "other"}

ASSUME PressedAssumption == Pressed \subseteq Keystroke
ASSUME KeysAssumption == MaxKeys \in Nat

\* The first byte of a key, and what the others read as without it.
LeadKey(k) == IF k \in LongKey THEN "esc" ELSE k

RestKeys(k) ==
    CASE k = "left"              -> <<"other", "disks">>
      [] k = "right"             -> <<"other", "shell">>
      [] k \in {"up", "down", "dead"} -> <<"other", "other">>
      [] k = "home"              -> <<"other", "other", "other">>
      [] OTHER                   -> <<>>

Press ==
    /\ Len(tty) + Len(getc_buf) < MaxKeys
    /\ \E k \in Pressed : tty' = Append(tty, k)
    /\ UNCHANGED getc_buf

-----------------------------------------------------------------------------
(***************************************************************************)
(* console_getchar().                                                      *)
(***************************************************************************)
Queued == getc_buf \o tty

\* A sequence it does not know is dropped, and the loop goes on.
DropDead ==
    \/ /\ getc_buf # <<>> /\ Head(getc_buf) = "dead"
       /\ getc_buf' = Tail(getc_buf)
       /\ UNCHANGED tty
    \/ /\ getc_buf = <<>> /\ tty # <<>> /\ Head(tty) = "dead"
       /\ tty' = Tail(tty)
       /\ UNCHANGED getc_buf

\* The fourth byte of a key is read with getchar(), from the terminal, even if
\* the others came from getc_buf.
CutHome == getc_buf # <<>> /\ Head(getc_buf) = "home"

\* It returns, unless it needs a byte that has not come: after ESC it waits for
\* a second one.
HasKey ==
    /\ Queued \notin {<<>>, <<"esc">>}
    /\ Head(Queued) # "dead"
    /\ CutHome => tty # <<>>

NextKey == Head(Queued)

\* What it leaves in the two queues.  The byte it reads behind ESC goes to the
\* end of getc_buf; a key whose other bytes are in getc_buf is broken by that.
Remaining ==
    CASE NextKey = "esc" /\ Len(getc_buf) > 1 ->
           [buf |-> RestKeys(getc_buf[2])
                      \o SubSeq(getc_buf, 3, Len(getc_buf))
                      \o <<LeadKey(getc_buf[2])>>,
            tty |-> tty]
      [] NextKey = "esc" /\ Len(getc_buf) <= 1 /\ Queued[2] \in LongKey ->
           [buf |-> <<>>, tty |-> Tail(Queued)]
      [] NextKey = "esc" /\ Len(getc_buf) <= 1 /\ Queued[2] \notin LongKey ->
           [buf |-> <<Queued[2]>>, tty |-> Tail(Tail(Queued))]
      [] CutHome ->
           [buf |-> <<"other">> \o Tail(getc_buf),
            tty |-> RestKeys(Head(tty)) \o Tail(tty)]
      [] NextKey # "esc" /\ getc_buf # <<>> /\ ~CutHome ->
           [buf |-> Tail(getc_buf), tty |-> tty]
      [] NextKey # "esc" /\ getc_buf = <<>> ->
           [buf |-> <<>>, tty |-> Tail(tty)]

\* console_getchar() returns k.
GetChar(k) ==
    /\ HasKey /\ k = NextKey
    /\ getc_buf' = Remaining.buf
    /\ tty' = Remaining.tty

-----------------------------------------------------------------------------
(***************************************************************************)
(* console_erase().  console_getpos() reads the keys in the terminal until *)
(* it meets the answer.  An ESC takes the byte behind it, be it the ESC    *)
(* the answer begins with: the answer is then not seen, and the call does  *)
(* not return.                                                             *)
(***************************************************************************)
LoneEscape(typed) ==
    Cardinality({n \in DOMAIN typed :
        \A m \in DOMAIN typed : m >= n => typed[m] = "esc"}) % 2 = 1

Erase ==
    /\ ~LoneEscape(tty)
    /\ getc_buf' = getc_buf \o tty
    /\ tty' = <<>>

\* ... and after console_getchar() returned k.
GetCharErase(k) ==
    /\ HasKey /\ k = NextKey
    /\ ~LoneEscape(Remaining.tty)
    /\ getc_buf' = Remaining.buf \o Remaining.tty
    /\ tty' = <<>>

KeysOK == tty \in Seq(Keystroke) /\ getc_buf \in Seq(Keystroke)
=============================================================================

-------------------------------- MODULE Menu --------------------------------
(***************************************************************************)
(* menu_main() (menu.c): the list of targets in a window of the screen,    *)
(* the countdown, and the keys.  All that it draws begins with             *)
(* console_erase(), which hides the keys typed so far from poll() and may  *)
(* not return (Keyboard).                                                  *)
(***************************************************************************)
EXTENDS Integers, Sequences, Keyboard

CONSTANTS
    N,          \* length of "targets"
    Rows,       \* console_rows
    Timeouts    \* what load_conf() may leave in "timeout"

\* menu_main() is called with targets; a terminal has room for the frame and
\* three lines of the list.
ASSUME TargetsAssumption == N \in Nat \ {0}
ASSUME RowsAssumption == Rows \in Nat /\ Rows >= 10
ASSUME TimeoutsAssumption == Timeouts \subseteq Int

VARIABLES
    at,         \* where menu_main() is
    start,      \* index of the first target shown
    target,     \* index of the selected target
    row,        \* line of the screen it is on
    shown,      \* <<start, row>> of the last draw_menu()
    default,    \* index of the first target with TARGET_DEFAULT, or 0
    timeout,
    alert,      \* must a key be pressed before the screen is cleared?
    fired       \* was the last boot the countdown's?

window == <<start, target, row>>
mvars  == <<at, window, shown, default, timeout, alert, keyVars, fired>>

First == 6          \* the first line of the list ...
LastRow == Rows - 2 \* ... and the last

MInit ==
    /\ at = "seek"
    /\ start = 1 /\ target = 1 /\ row = First
    /\ shown = <<0, 0>>
    /\ default \in 0 .. N
    /\ timeout \in Timeouts
    /\ alert \in BOOLEAN
    /\ tty \in {<<>>} \cup {<<k>> : k \in Pressed}
    /\ getc_buf = <<>>
    /\ fired = FALSE

-----------------------------------------------------------------------------
(***************************************************************************)
(* The window.                                                             *)
(***************************************************************************)
\* The last line is used by the last target only.
Down ==
    /\ target' = target + 1
    /\ IF row + 3 = Rows /\ target' < N
         THEN start' = start + 1 /\ UNCHANGED row
         ELSE row' = row + 1 /\ UNCHANGED start

\* Mutant: the window scrolls up one line too late.
UpLate ==
    /\ target' = target - 1
    /\ IF row = First /\ start > 1
         THEN start' = start - 1 /\ UNCHANGED row
         ELSE row' = row - 1 /\ UNCHANGED start

Up ==
    /\ target' = target - 1
    /\ IF row = First + 1 /\ start > 1
         THEN start' = start - 1 /\ UNCHANGED row
         ELSE row' = row - 1 /\ UNCHANGED start

\* draw_menu(), which erases each line.
Draw == shown' = <<start', row'>> /\ Erase

-----------------------------------------------------------------------------
(***************************************************************************)
(* menu_main().                                                            *)
(***************************************************************************)
\* The loop that goes down to the default target.
Seek ==
    /\ at = "seek"
    /\ IF default > target
         THEN Down /\ UNCHANGED at
         ELSE at' = "clear" /\ UNCHANGED window
    /\ UNCHANGED <<shown, default, timeout, alert, keyVars, fired>>

\* console_clear() waits for a key if there was an alert.
AnyKey ==
    /\ at = "clear" /\ alert
    /\ \E k \in Keystroke : GetChar(k)
    /\ alert' = FALSE
    /\ UNCHANGED <<at, window, shown, default, timeout, fired>>

\* console_getchar() meets a sequence it does not know, and waits on.
Unknown ==
    /\ at = "keys" \/ (at = "clear" /\ alert)
    /\ DropDead
    /\ UNCHANGED <<at, window, shown, default, timeout, alert, fired>>

\* FOOBAR: the screen is drawn, and the countdown begins if there is one.
Display ==
    /\ at = "clear" /\ ~alert
    /\ UNCHANGED window
    /\ Draw
    /\ IF timeout >= 0
         THEN at' = "count"
         ELSE at' = "prompt"
    /\ UNCHANGED <<default, timeout, alert, fired>>

\* One turn of the countdown, up to poll().
Count ==
    /\ at = "count" /\ timeout # 0
    /\ Erase
    /\ at' = "poll"
    /\ UNCHANGED <<window, shown, default, timeout, alert, fired>>

\* Mutant: a key only interrupts the countdown.
PollKeyKeeps ==
    /\ at = "poll" /\ tty # <<>>
    /\ at' = "prompt"
    /\ UNCHANGED <<timeout, window, shown, default, alert, keyVars, fired>>

\* poll() sees a key, and leaves it where it is.
PollKey ==
    /\ at = "poll" /\ tty # <<>>
    /\ timeout' = -1
    /\ at' = "prompt"
    /\ UNCHANGED <<window, shown, default, alert, keyVars, fired>>

\* Mutant: the seconds are not counted.
PollTimeoutKeeps ==
    /\ at = "poll" /\ tty = <<>>
    /\ at' = "count"
    /\ UNCHANGED <<timeout, window, shown, default, alert, keyVars, fired>>

\* A second goes by.
PollTimeout ==
    /\ at = "poll" /\ tty = <<>>
    /\ timeout' = timeout - 1
    /\ at' = "count"
    /\ UNCHANGED <<window, shown, default, alert, keyVars, fired>>

\* boot_target() boots, or comes back after an error.
Fire ==
    /\ at = "count" /\ timeout = 0
    /\ Erase
    /\ fired' = TRUE
    /\ at' \in {"clear", "booted"}
    /\ alert' \in BOOLEAN
    /\ timeout' = IF at' = "clear" THEN -1 ELSE timeout
    /\ UNCHANGED <<window, shown, default>>

\* The instructions, on two lines that are erased.
Prompt ==
    /\ at = "prompt"
    /\ Erase
    /\ at' = "keys"
    /\ UNCHANGED <<window, shown, default, timeout, alert, fired>>

\* console_getchar() returns k; what k asks for begins with console_erase().
Takes(k) == at = "keys" /\ GetCharErase(k) /\ UNCHANGED <<default, timeout>>

Moves(k) == (k = "up" /\ row > First) \/ (k = "down" /\ target < N)

Leaves(k) == k \in {"enter", "disks", "shell"}

KeyMove ==
    \/ /\ Takes("up")
       /\ Moves("up")
       /\ Up
       /\ shown' = <<start', row'>>
       /\ UNCHANGED <<at, alert, fired>>
    \/ /\ Takes("down")
       /\ Moves("down")
       /\ Down
       /\ shown' = <<start', row'>>
       /\ UNCHANGED <<at, alert, fired>>

\* A key that has no effect.
KeyIdle ==
    /\ at = "keys"
    /\ \E k \in Keystroke : ~Moves(k) /\ ~Leaves(k) /\ GetChar(k)
    /\ UNCHANGED <<at, window, shown, default, timeout, alert, fired>>

KeyEnter ==
    /\ Takes("enter")
    /\ fired' = FALSE
    /\ at' \in {"clear", "booted"}
    /\ alert' \in BOOLEAN
    /\ UNCHANGED <<window, shown>>

KeyDisks ==
    /\ Takes("disks")
    /\ alert' = TRUE
    /\ at' = "clear"
    /\ UNCHANGED <<window, shown, fired>>

\* shell_main() reads what is typed, boots, returns, or hangs as console_erase()
\* does: it asks for the cursor too.
KeyShell ==
    /\ at = "keys"
    /\ HasKey /\ NextKey = "shell" /\ ~LoneEscape(Remaining.tty)
    /\ getc_buf' = <<>> /\ tty' = <<>>
    /\ fired' = FALSE
    /\ at' \in {"clear", "off", "stuck"}
    /\ alert' \in BOOLEAN
    /\ UNCHANGED <<window, shown, default, timeout>>

\* console_erase() does not return.
Hang ==
    /\ \/ /\ at \in {"count", "prompt"} \/ (at = "clear" /\ ~alert)
          /\ LoneEscape(tty)
       \/ /\ at = "keys" /\ HasKey
          /\ Moves(NextKey) \/ Leaves(NextKey)
          /\ LoneEscape(Remaining.tty)
    /\ at' = "stuck"
    /\ UNCHANGED <<window, shown, default, timeout, alert, keyVars, fired>>

-----------------------------------------------------------------------------
\* Someone types.
Type ==
    /\ at \notin {"booted", "off", "stuck"}
    /\ Press
    /\ UNCHANGED <<at, window, shown, default, timeout, alert, fired>>

MStopped == at \in {"booted", "off", "stuck"} /\ UNCHANGED mvars

Process ==
    \/ Seek \/ AnyKey \/ Unknown \/ Display
    \/ Count \/ PollKey \/ PollTimeout \/ Fire
    \/ Prompt
    \/ KeyMove \/ KeyIdle \/ KeyEnter \/ KeyDisks \/ KeyShell
    \/ Hang

MNext == Process \/ Type \/ MStopped

MSpec == MInit /\ [][MNext]_mvars

\* The program runs; nobody has to type.
MFairSpec == MSpec /\ WF_mvars(Process)

-----------------------------------------------------------------------------
(***************************************************************************)
(* Properties.                                                             *)
(***************************************************************************)
\* Every variable has its type; KeysOK has those of the keyboard.
MTypeOK ==
    /\ at \in {"seek", "clear", "count", "poll", "prompt", "keys", "booted",
               "off", "stuck"}
    /\ start \in 1 .. N /\ target \in 1 .. N /\ row \in First .. LastRow
    /\ shown \in Int \X Int
    /\ default \in 0 .. N
    /\ timeout \in Int
    /\ alert \in BOOLEAN
    /\ fired \in BOOLEAN

\* The selected target is the one on the highlighted line, the line is on the
\* screen, and it is not at the top of a window that has targets above it: the
\* up key (menu.c:107) would not reach them.
WindowFollows ==
    /\ target = start + row - First
    /\ row = First => start = 1
    /\ row = LastRow => target = N

\* What ENTER or the countdown boots is what the screen shows as selected.
ShownIsSelected ==
    at \in {"count", "poll", "prompt", "keys"} => shown = <<start, row>>

\* The user sees the selected target, and can reach every other one.
SelectionShown == WindowFollows /\ ShownIsSelected

\* The countdown boots "the default target", the first one "if none are marked
\* as default" (README.html:203): it never runs once a key can have moved the
\* selection.
CountdownBootsDefault ==
    (at \in {"count", "poll"} \/ (at = "booted" /\ fired)) =>
        target = IF default = 0 THEN 1 ELSE default

\* There is one countdown: after a key, or after the boot it led to has failed,
\* the menu waits for ever, whatever goes back to FOOBAR (menu.c:61).
OneCountdown ==
    (at \in {"prompt", "keys"} \/ (fired /\ at # "booted")) => timeout < 0

\* The countdown boots once, and the default target.
CountsOnce == CountdownBootsDefault /\ OneCountdown

\* The menu gets to the keys, to a boot, or waits for the key that an alert
\* asks for - drawing and counting end - unless an ESC is typed just before one
\* of the answers that console_erase() waits for (console.c:85).
MenuAnswers ==
    at \in {"seek", "count", "poll", "prompt"} ~>
        (at \in {"keys", "booted", "off", "stuck"} \/ (at = "clear" /\ alert))
=============================================================================

------------------------------ MODULE Console ------------------------------
(***************************************************************************)
(* The input of the console (console.c).  The keys that are typed and the  *)
(* answers of the terminal to "where is the cursor?" arrive on one stream: *)
(* console_getpos() looks for its answer and keeps the rest in getc_buf,   *)
(* console_getchar() takes bytes from there, then from the stream.         *)
(***************************************************************************)
EXTENDS Integers, Sequences, SequencesExt

CONSTANTS
    GetcSize,   \* GETC_SIZE: what getc_buf holds
    TbufSize,   \* the bytes of an answer that tbuf holds
    MaxKeys,    \* bound: keys typed
    MaxCalls    \* bound: calls of console_getpos()

ASSUME SizesAssumption ==
    GetcSize \in Nat \ {0} /\ TbufSize \in Nat \ {0, 1}

\* A key is the bytes it sends ("e" is ESC): a character, the escape key, an
\* arrow, HOME (END and DEL differ in one byte), and two that are not known,
\* one of three bytes, the other (INSERT, PGUP, PGDN) of four.
Bytes ==
    [a |-> <<"a">>, esc |-> <<"e">>, up |-> <<"e", "[", "A">>,
     home |-> <<"e", "[", "1", "~">>, insert |-> <<"e", "[", "2", "~">>,
     other |-> <<"e", "[", "P">>]

Key == DOMAIN Bytes

\* "p" stands for the row, the ";" and the column.
Position == <<"e", "[", "p", "R">>

VARIABLES
    tty,        \* what the terminal has sent and nobody has read
    getc_buf,
    held,       \* what console_getpos() has read of what may be an answer
    doing,      \* where the process is
    query,      \* has the terminal a question to answer?
    calls, typed, got   \* of console_getpos(); the keys; what getchar() gave

cvars == <<tty, getc_buf, held, doing, query, calls, typed, got>>

CInit ==
    /\ tty = <<>> /\ getc_buf = <<>> /\ held = <<>>
    /\ doing = "caller"
    /\ query = FALSE
    /\ calls = 0 /\ typed = <<>> /\ got = <<>>

-----------------------------------------------------------------------------
(***************************************************************************)
(* The terminal.                                                           *)
(***************************************************************************)
Type(k) ==
    /\ Len(typed) < MaxKeys
    /\ typed' = Append(typed, k)
    /\ tty' = tty \o Bytes[k]
    /\ UNCHANGED <<getc_buf, held, doing, query, calls, got>>

Answer ==
    /\ query
    /\ query' = FALSE
    /\ tty' = tty \o Position
    /\ UNCHANGED <<getc_buf, held, doing, calls, typed, got>>

-----------------------------------------------------------------------------
(***************************************************************************)
(* console_getpos().                                                       *)
(***************************************************************************)
\* GETC_PUSH(), byte by byte: what does not fit is dropped.
Pushed(b) ==
    LET all == getc_buf \o b
    IN  IF Len(all) <= GetcSize THEN all ELSE SubSeq(all, 1, GetcSize)

Getpos ==
    /\ doing = "caller"
    /\ calls < MaxCalls
    /\ doing' = "pos"
    /\ query' = TRUE
    /\ calls' = calls + 1
    /\ UNCHANGED <<tty, getc_buf, held, typed, got>>

\* In console_getpos() at p, with a byte to read.
PosReads(p) ==
    /\ doing = p
    /\ tty # <<>>
    /\ UNCHANGED <<query, calls, typed, got>>

\* What may be an answer goes on with another byte ...
Hold(p) ==
    /\ held' = Append(held, Head(tty))
    /\ tty' = Tail(tty)
    /\ doing' = p
    /\ UNCHANGED getc_buf

\* ... or is none, and is kept.
Keep(bytes, rest) ==
    /\ getc_buf' = Pushed(bytes)
    /\ held' = <<>>
    /\ tty' = rest
    /\ doing' = "pos"

PosByte ==
    /\ PosReads("pos")
    /\ IF Head(tty) = "e" THEN Hold("pos_esc")
                          ELSE Keep(<<Head(tty)>>, Tail(tty))

PosBracket ==
    /\ PosReads("pos_esc")
    /\ IF Head(tty) = "[" THEN Hold("pos_tbuf")
                          ELSE Keep(<<"e", Head(tty)>>, Tail(tty))

\* Mutant: the bytes in tbuf are not put back.
PosNextEscapeDrops ==
    /\ PosReads("pos_tbuf")
    /\ Head(tty) = "e"
    /\ Keep(<<"e", "[">>, tty)

\* Mutant: an ESC in tbuf is a byte like others.
PosEscapeSwallowed ==
    /\ PosReads("pos_tbuf")
    /\ Head(tty) = "e"
    /\ Hold("pos_tbuf")

\* "ungetc(0x1B, stdin); goto NEXT"
PosNextEscape ==
    /\ PosReads("pos_tbuf")
    /\ Head(tty) = "e"
    /\ Keep(held, tty)

\* The bytes of tbuf are those of held after "ESC [".
TbufEnds == Head(tty) = "R" \/ Len(held) - 1 = TbufSize

PosTbuf ==
    /\ PosReads("pos_tbuf")
    /\ Head(tty) # "e"
    /\ ~TbufEnds
    /\ Hold("pos_tbuf")

\* sscanf(): two numbers at the beginning of tbuf are enough.
PosParse ==
    /\ PosReads("pos_tbuf")
    /\ Head(tty) # "e"
    /\ TbufEnds
    /\ LET all == Append(held, Head(tty))
       IN  IF all[3] = "p"
             THEN /\ doing' = "caller"
                  /\ held' = <<>> /\ tty' = Tail(tty)
                  /\ UNCHANGED getc_buf
             ELSE Keep(all, Tail(tty))

GetposStep ==
    PosByte \/ PosBracket \/ PosNextEscape \/ PosTbuf \/ PosParse

-----------------------------------------------------------------------------
(***************************************************************************)
(* console_getchar().                                                      *)
(***************************************************************************)
Getchar ==
    /\ doing = "caller"
    /\ doing' = "key"
    /\ UNCHANGED <<tty, getc_buf, held, query, calls, typed, got>>

\* getchar_cbuf(): the next byte, and the buffer without it.
HasByte == getc_buf # <<>> \/ tty # <<>>
NextByte == IF getc_buf # <<>> THEN Head(getc_buf) ELSE Head(tty)
Behind == IF getc_buf # <<>> THEN Tail(getc_buf) ELSE <<>>

KeyReads(p) ==
    /\ doing = p
    /\ HasByte
    /\ tty' = IF getc_buf # <<>> THEN tty ELSE Tail(tty)
    /\ UNCHANGED <<held, query, calls, typed>>

Give(k) == got' = Append(got, k) /\ doing' = "caller"

Goto(p) == doing' = p /\ UNCHANGED got

KeyByte ==
    /\ KeyReads("key")
    /\ getc_buf' = Behind
    /\ IF NextByte = "e" THEN Goto("key_esc") ELSE Give(NextByte)

\* An ESC alone: the byte after it goes to the end of getc_buf.
KeyEscape ==
    /\ KeyReads("key_esc")
    /\ IF NextByte = "["
         THEN getc_buf' = Behind /\ Goto("key_code")
         ELSE getc_buf' = Append(Behind, NextByte) /\ Give("esc")

\* "Unknown escape, hope it's only 3 bytes"
KeyCode ==
    /\ KeyReads("key_code")
    /\ getc_buf' = Behind
    /\ \/ NextByte = "A" /\ Give("up")
       \/ NextByte = "1" /\ Goto("key_last")
       \/ NextByte \notin {"A", "1"} /\ Goto("key")

\* getchar(), not getchar_cbuf().
KeyLast ==
    /\ doing = "key_last"
    /\ tty # <<>>
    /\ tty' = Tail(tty)
    /\ Give("home")
    /\ UNCHANGED <<getc_buf, held, query, calls, typed>>

GetcharStep == KeyByte \/ KeyEscape \/ KeyCode \/ KeyLast

Call == Getpos \/ Getchar

Process == GetposStep \/ GetcharStep

CNext == (\E k \in Key : Type(k)) \/ Answer \/ Call \/ Process

CSpec == CInit /\ [][CNext]_cvars

\* The terminal answers and the process runs; nobody has to type or to call.
CFairSpec == CSpec /\ WF_cvars(Answer) /\ WF_cvars(Process)

-----------------------------------------------------------------------------
(***************************************************************************)
(* Properties.                                                             *)
(***************************************************************************)
AByte == {"a", "e", "[", "A", "1", "2", "~", "P", "p", "R"}

CTypeOK ==
    /\ tty \in Seq(AByte) /\ held \in Seq(AByte)
    /\ getc_buf \in Seq(AByte) /\ Len(getc_buf) <= GetcSize
    /\ Len(held) < TbufSize + 2
    /\ doing \in {"caller", "pos", "pos_esc", "pos_tbuf",
                  "key", "key_esc", "key_code", "key_last"}
    /\ query \in BOOLEAN /\ calls \in Nat
    /\ typed \in Seq(Key) /\ got \in Seq(Key \cup AByte)

\* What the keys ks give, one after another, when each k gives f[k].
Each(f, ks) == FlattenSeq([i \in DOMAIN ks |-> f[ks[i]]])

\* The keys that console_getchar() knows, as they were typed.
Known == [k \in Key |-> IF k \in {"other", "insert"} THEN <<>> ELSE <<k>>]
Keys == Each(Known, typed)

BytesTyped == Len(Each(Bytes, typed))

\* console_getchar() gives the keys that were typed, in their order, and all
\* of them in the end, however they mix with the answers of the terminal and
\* whoever reads them first.  Four things break this: a key of four bytes
\* that is not known, the last of which is given as a character
\* (console.c:222), and, each only once console_getpos() has been called,
\* more bytes than getc_buf holds, the escape key (console.c:86), and HOME,
\* END and DEL (console.c:217).
KeysInOrder ==
    (/\ "insert" \notin Range(typed)
     /\ calls = 0 \/ (/\ BytesTyped <= GetcSize
                      /\ {"esc", "home"} \cap Range(typed) = {})) =>
        /\ IsPrefix(got, Keys)
        /\ (doing = "key" /\ ~HasByte) => got = Keys

\* console_getpos() returns, whatever is typed while it waits, unless the
\* escape key is typed: the answer that follows its byte is not recognised,
\* and there is no other (console.c:86).
GetposEnds ==
    (doing \in {"pos", "pos_esc", "pos_tbuf"}) ~>
        (doing = "caller" \/ "esc" \in Range(typed))
=============================================================================

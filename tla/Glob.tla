-------------------------------- MODULE Glob --------------------------------
(***************************************************************************)
(* globcmp() with the flags of its one caller (shell.c:704): "*" and "?",  *)
(* upper and lower case alike.  str and expr are what the pointers of the  *)
(* same names have before them.                                            *)
(***************************************************************************)
EXTENDS Integers, SequencesExt

CONSTANT
    Lower       \* tolower(), of the characters of names and patterns

VARIABLES
    text, pattern,  \* the arguments
    str, expr,
    verdict         \* "none" as long as globcmp() runs

gvars == <<text, pattern, str, expr, verdict>>

GlobInit ==
    /\ text = <<>> /\ pattern = <<>> /\ str = <<>> /\ expr = <<>>
    /\ verdict = "none"

Compare(s, e) ==
    /\ text' = s /\ str' = s
    /\ pattern' = e /\ expr' = e
    /\ verdict' = "none"

Fits(c, e) == e = "?" \/ Lower[c] = Lower[e]

\* mycmp() over n characters of an expr that has them.
MyCmp(s, e, n) == n <= Len(s) /\ \A i \in 1 .. n : Fits(s[i], e[i])

Drop(s, n) == SubSeq(s, n + 1, Len(s))

Says(v) == verdict' = v /\ UNCHANGED <<text, pattern, str, expr>>

Moves(s, e) == str' = s /\ expr' = e /\ UNCHANGED <<text, pattern, verdict>>

AtStar == verdict = "none" /\ expr # <<>> /\ expr[1] = "*"

\* expr behind the stars, and the length of its text up to the next star.
Rest == Drop(expr, SelectInSeq(Append(expr, "x"), LAMBDA c : c # "*") - 1)
Span == SelectInSeq(Append(Rest, "*"), LAMBDA c : c = "*") - 1

\* "if(str[0] == '\0' || expr[0] == '\0')"
StarEnds ==
    /\ AtStar
    /\ str = <<>> \/ Rest = <<>>
    /\ Says("yes")

\* A text between two stars is looked for from str on.
StarFinds ==
    /\ AtStar
    /\ str # <<>> /\ Rest # <<>> /\ Span < Len(Rest)
    /\ LET hits == {k \in 0 .. Len(str) - 1 : MyCmp(Drop(str, k), Rest, Span)}
       IN  IF hits = {}
             THEN Says("no")
             ELSE LET k == CHOOSE i \in hits : \A j \in hits : i <= j
                  IN  Moves(Drop(str, k + Span), Drop(Rest, Span))

\* Mutant: the text after the last star is looked for at str.
StarLastHere ==
    /\ AtStar
    /\ str # <<>> /\ Rest # <<>> /\ Span = Len(Rest)
    /\ Says(IF Span = Len(str) /\ MyCmp(str, Rest, Span)
              THEN "yes" ELSE "no")

\* The text after the last star has to be the end of str.
StarLast ==
    /\ AtStar
    /\ str # <<>> /\ Rest # <<>> /\ Span = Len(Rest)
    /\ Says(IF /\ Span <= Len(str)
               /\ MyCmp(Drop(str, Len(str) - Span), Rest, Span)
              THEN "yes" ELSE "no")

\* One character, or the end of both.
One ==
    /\ verdict = "none" /\ ~AtStar
    /\ IF expr = <<>> THEN Says(IF str = <<>> THEN "yes" ELSE "no")
       ELSE IF MyCmp(str, expr, 1) THEN Moves(Tail(str), Tail(expr))
       ELSE Says("no")

GlobStep == StarEnds \/ StarFinds \/ StarLast \/ One

-----------------------------------------------------------------------------
(***************************************************************************)
(* Properties.                                                             *)
(***************************************************************************)
\* What a shell takes a pattern for: M[i] are the lengths of what the first i
\* characters of e match at the beginning of s.
Matches(s, e) ==
    LET M[i \in 0 .. Len(e)] ==
          IF i = 0 THEN {0}
          ELSE IF e[i] = "*"
                 THEN {j \in 0 .. Len(s) : \E k \in M[i - 1] : k <= j}
                 ELSE {j \in 1 .. Len(s) :
                         j - 1 \in M[i - 1] /\ Fits(s[j], e[i])}
    IN  Len(s) \in M[Len(e)]

\* What globcmp() takes for a match: a text that ends where the pattern has a
\* star matches whatever comes after the star (globcmp.c:66).
Taken(s, e) ==
    \/ Matches(s, e)
    \/ \E k \in DOMAIN e : e[k] = "*" /\ Matches(s, SubSeq(e, 1, k - 1))

\* globcmp() answers as "most shells" would (README.html:182), but for the
\* texts that Taken() names.
GlobMeans ==
    /\ verdict = "no" => ~Matches(text, pattern)
    /\ verdict = "yes" => Taken(text, pattern)
=============================================================================

------------------------------ MODULE HtmlEncode ------------------------------
(***************************************************************************)
(* The output converters of HTMLparser.c: UTF8ToHtml (the "HTML" output   *)
(* encoding: ASCII, other characters as entities) and htmlEncodeEntities   *)
(* (the same, also escaping '&', '<', '>' and a quote character).  Each is *)
(* an operator from the input bytes and the room in the output buffer,   *)
(* outlen, to                                                              *)
(*   [ret, out, used]  the return value, the bytes written, and *inlen     *)
(*                     on return (the input bytes processed).              *)
(***************************************************************************)
EXTENDS HtmlScanner

(* htmlEntityValueLookup: the name of the entity of that value, <<>> for  *)
(* NULL.                                                                   *)
EntityValueLookup(c) ==
    IF \E e \in Entities : e.value = c THEN (CHOOSE e \in Entities : e.value = c).name ELSE <<>>

(* snprintf(nbuf, sizeof(nbuf), "#%u", c). *)
RECURSIVE Decimal(_)
Decimal(c) == IF c < 10 THEN <<48 + c>> ELSE Decimal(c \div 10) \o <<48 + (c % 10)>>

(* The entity text between '&' and ';' for a character. *)
EntityText(c) ==
    IF EntityValueLookup(c) /= <<>> THEN EntityValueLookup(c) ELSE <<HashB>> \o Decimal(c)

(* The lead byte d: the bits it gives c, and the number of trailing bytes;  *)
(* trailing -1 for a byte that cannot start a character (the -2 returns). *)
Lead(d) ==
    CASE d < 128 -> [c |-> d, trailing |-> 0]
      [] d < 192 -> [c |-> 0, trailing |-> -1]
      [] d < 224 -> [c |-> d & 31, trailing |-> 1]
      [] d < 240 -> [c |-> d & 15, trailing |-> 2]
      [] d < 248 -> [c |-> d & 7, trailing |-> 3]
      [] OTHER   -> [c |-> 0, trailing |-> -1]

(***************************************************************************)
(* UTF8ToHtml.  i is the index of in (1-based), o the bytes written,      *)
(* processed the bytes consumed by whole characters.  The trailing loop   *)
(* stops at a byte that is not a continuation byte, having consumed it,   *)
(* and the character built so far is still written.                       *)
(***************************************************************************)
RECURSIVE Trail(_, _, _, _)
Trail(b, i, c, t) ==
    IF t = 0 \/ i > Len(b) THEN [i |-> i, c |-> c]
    ELSE LET d == b[i] IN
         IF (d & 192) /= 128 THEN [i |-> i + 1, c |-> c]
         ELSE Trail(b, i + 1, c * 64 + (d & 63), t - 1)

RECURSIVE ToHtmlLoop(_, _, _, _)
(* Mutant: *inlen also counts the character that did not fit. *)
ToHtmlLoop_processedEarly(b, outlen, i, o) ==
    LET l    == Lead(b[i])
        done == [ret |-> 0, out |-> o, used |-> i - 1]
        t    == Trail(b, i + 1, l.c, l.trailing)
        put  == IF t.c < 128 THEN <<t.c>> ELSE <<AmpB>> \o EntityText(t.c) \o <<SemiB>>
        room == IF t.c < 128 THEN Len(o) + 1 < outlen ELSE Len(o) + 2 + Len(EntityText(t.c)) < outlen
    IN  CASE i > Len(b) -> done
          [] l.trailing < 0 -> [ret |-> -2, out |-> o, used |-> i - 1]
          [] Len(b) - i < l.trailing -> done
          [] ~room -> [done EXCEPT !.used = t.i - 1]
          [] OTHER -> ToHtmlLoop(b, outlen, t.i, o \o put)

(* Mutant: the room test leaves out the '&' and the ';'. *)
ToHtmlLoop_roomNoDelims(b, outlen, i, o) ==
    LET l    == Lead(b[i])
        done == [ret |-> 0, out |-> o, used |-> i - 1]
        t    == Trail(b, i + 1, l.c, l.trailing)
        put  == IF t.c < 128 THEN <<t.c>> ELSE <<AmpB>> \o EntityText(t.c) \o <<SemiB>>
        room == IF t.c < 128 THEN Len(o) + 1 < outlen ELSE Len(o) + Len(EntityText(t.c)) < outlen
    IN  CASE i > Len(b) -> done
          [] l.trailing < 0 -> [ret |-> -2, out |-> o, used |-> i - 1]
          [] Len(b) - i < l.trailing -> done
          [] ~room -> done
          [] OTHER -> ToHtmlLoop(b, outlen, t.i, o \o put)

ToHtmlLoop(b, outlen, i, o) ==
    LET l    == Lead(b[i])
        done == [ret |-> 0, out |-> o, used |-> i - 1]
        t    == Trail(b, i + 1, l.c, l.trailing)
        put  == IF t.c < 128 THEN <<t.c>> ELSE <<AmpB>> \o EntityText(t.c) \o <<SemiB>>
        room == IF t.c < 128 THEN Len(o) + 1 < outlen ELSE Len(o) + 2 + Len(EntityText(t.c)) < outlen
    IN  CASE i > Len(b) -> done
          [] l.trailing < 0 -> [ret |-> -2, out |-> o, used |-> i - 1]
          [] Len(b) - i < l.trailing -> done
          [] ~room -> done
          [] OTHER -> ToHtmlLoop(b, outlen, t.i, o \o put)

Utf8ToHtml(b, outlen) == ToHtmlLoop(b, outlen, 1, <<>>)

(***************************************************************************)
(* htmlEncodeEntities: a bad trailing byte gives -2; an ASCII character   *)
(* other than the quote, '&', '<' and '>' is copied if one byte is left.  *)
(***************************************************************************)
RECURSIVE EncodeLoop(_, _, _, _, _)
(* Mutant: the quote character is not escaped. *)
EncodeLoop_noQuote(b, outlen, quote, i, o) ==
    LET l     == Lead(b[i])
        done  == [ret |-> 0, out |-> o, used |-> i - 1]
        n     == IF l.trailing > 0 THEN l.trailing ELSE 0
        bad   == \E k \in 1..n : (b[i + k] & 192) /= 128
        c     == FoldLeft(LAMBDA acc, k : acc * 64 + (b[i + k] & 63), l.c, [k \in 1..n |-> k])
        plain == c < 128 /\ c \notin {AmpB, LtB, 62}
        put   == IF plain THEN <<c>> ELSE <<AmpB>> \o EntityText(c) \o <<SemiB>>
        room  == IF plain THEN Len(o) < outlen ELSE outlen - Len(o) >= Len(EntityText(c)) + 2
    IN  CASE i > Len(b) -> done
          [] l.trailing < 0 -> [ret |-> -2, out |-> o, used |-> i - 1]
          [] Len(b) - i < l.trailing -> done
          [] bad -> [ret |-> -2, out |-> o, used |-> i - 1]
          [] ~room -> done
          [] OTHER -> EncodeLoop(b, outlen, quote, i + 1 + n, o \o put)

EncodeLoop(b, outlen, quote, i, o) ==
    LET l     == Lead(b[i])
        done  == [ret |-> 0, out |-> o, used |-> i - 1]
        n     == IF l.trailing > 0 THEN l.trailing ELSE 0
        bad   == \E k \in 1..n : (b[i + k] & 192) /= 128
        c     == FoldLeft(LAMBDA acc, k : acc * 64 + (b[i + k] & 63), l.c, [k \in 1..n |-> k])
        plain == c < 128 /\ c \notin {quote, AmpB, LtB, 62}
        put   == IF plain THEN <<c>> ELSE <<AmpB>> \o EntityText(c) \o <<SemiB>>
        room  == IF plain THEN Len(o) < outlen ELSE outlen - Len(o) >= Len(EntityText(c)) + 2
    IN  CASE i > Len(b) -> done
          [] l.trailing < 0 -> [ret |-> -2, out |-> o, used |-> i - 1]
          [] Len(b) - i < l.trailing -> done
          [] bad -> [ret |-> -2, out |-> o, used |-> i - 1]
          [] ~room -> done
          [] OTHER -> EncodeLoop(b, outlen, quote, i + 1 + n, o \o put)

EncodeEntities(b, outlen, quote) == EncodeLoop(b, outlen, quote, 1, <<>>)
=============================================================================

----------------------------- MODULE HtmlScanner -----------------------------
(***************************************************************************)
(* The byte-level scanner of HTMLparser.c and the routines built on it:   *)
(* htmlCurrentChar, htmlParseCharDataInternal, htmlParseCharRef,           *)
(* htmlParseName with htmlParseNameComplex, htmlEntityLookup,              *)
(* htmlParseEntityRef and htmlParseReference.  An input is the record     *)
(*   buf     the bytes from in->base to in->end (the NUL at in->end is     *)
(*           what Byte reads past the end);                                *)
(*   cur     the index in buf of in->cur;                                  *)
(*   hasEnc  the XML_INPUT_HAS_ENCODING flag.                              *)
(* Each routine is an operator from an input record to the record after   *)
(* it and what it returns; the modules that use them (HtmlLexer,           *)
(* HtmlMarkup) hold the state.  Bytes are the numbers 0..255.              *)
(***************************************************************************)
EXTENDS Naturals, Integers, Sequences, SequencesExt, Bitwise

Bytes == 0..255

LtB == 60
AmpB == 38
HashB == 35
SemiB == 59
SpaceB == 32

(* CUR, NXT(k): the NUL terminator past the end. *)
Byte(q, k) == IF q.cur + k <= Len(q.buf) THEN q.buf[q.cur + k] ELSE 0

(* SKIP(n), NEXTL(n), and NEXT on an ASCII byte. *)
Advance(q, n) == [q EXCEPT !.cur = @ + n]

(***************************************************************************)
(* Character classes.  IS_CHAR and IS_LETTER come from the XML character  *)
(* tables (chvalid.h, outside this repository); IsLetter is IS_LETTER on   *)
(* the code points the models can produce (ASCII and Latin-1; the euro    *)
(* sign and the supplementary-plane characters used are not letters), and  *)
(* 0xB7 is the one extender among them.                                    *)
(***************************************************************************)
IsChar(c) ==
    \/ c \in {9, 10, 13}
    \/ c \in 32..55295
    \/ c \in 57344..65533
    \/ c \in 65536..1114111

IsLetter(c) == c \in (65..90) \cup (97..122) \cup (192..214) \cup (216..246) \cup (248..255)

IsDigit(c) == c \in 48..57

(* xmlSwitchEncoding(ctxt, XML_CHAR_ENCODING_8859_1): the bytes before   *)
(* in->cur are dropped and the rest is transcoded from Latin-1 to UTF-8    *)
(* into a new buffer, so in->base moves.                                   *)
Latin1ToUtf8(s) ==
    FlattenSeq([i \in DOMAIN s |->
                   IF s[i] < 128 THEN <<s[i]>>
                   ELSE <<192 + (s[i] \div 64), 128 + (s[i] % 64)>>])

SwitchLatin1(q) ==
    [buf |-> Latin1ToUtf8(SubSeq(q.buf, q.cur, Len(q.buf))), cur |-> 1, hasEnc |-> TRUE]

(***************************************************************************)
(* htmlCurrentChar: the character at in->cur and its length in bytes,     *)
(* with the record after it (switched to Latin-1 when the encoding was    *)
(* unknown and a byte >= 0x80 showed up; htmlFindEncoding finds no        *)
(* http-equiv charset in the runs the models use, so the guess is NULL).  *)
(***************************************************************************)
(* A byte below 0x80; a NUL before the end is read as a space. *)
OneByte(q) ==
    CASE Byte(q, 0) /= 0 -> [c |-> Byte(q, 0), len |-> 1, q |-> q]
      [] q.cur <= Len(q.buf) -> [c |-> SpaceB, len |-> 1, q |-> q]
      [] OTHER -> [c |-> 0, len |-> 0, q |-> q]

(* The UTF-8 decoder; encoding_error returns the byte itself, length 1.  *)
(* (Its switch to Latin-1 is dead here: the flag is always set by then.)  *)
Utf8Char(q) ==
    LET c      == Byte(q, 0)
        avail  == Len(q.buf) - q.cur + 1
        cont(k) == (Byte(q, k) & 192) = 128
        err    == [c |-> c, len |-> 1, q |-> q]
        v2     == (c & 31) * 64 + (Byte(q, 1) & 63)
        v3     == (c & 15) * 4096 + (Byte(q, 1) & 63) * 64 + (Byte(q, 2) & 63)
        v4     == (c & 7) * 262144 + (Byte(q, 1) & 63) * 4096
                    + (Byte(q, 2) & 63) * 64 + (Byte(q, 3) & 63)
        ok(v, n, least) == IF v < least THEN err ELSE [c |-> v, len |-> n, q |-> q]
    IN  CASE c < 128 -> OneByte(q)
          [] (c & 64) = 0 -> err
          [] avail < 2 \/ ~cont(1) -> err
          [] (c & 224) /= 224 -> ok(v2, 2, 128)
          [] avail < 3 \/ ~cont(2) -> err
          [] (c & 240) /= 240 -> ok(v3, 3, 2048)
          [] (c & 248) /= 240 \/ avail < 4 \/ ~cont(3) -> err
          [] OTHER -> ok(v4, 4, 65536)

CurrentChar(q) ==
    IF ~q.hasEnc /\ Byte(q, 0) < 128 THEN OneByte(q)
    ELSE Utf8Char(IF q.hasEnc THEN q ELSE SwitchLatin1(q))

(***************************************************************************)
(* The UTF-8 encoder of htmlParseReference (out[], bits), which COPY_BUF   *)
(* also stands for when a character is longer than one byte (xmlCopyChar). *)
(***************************************************************************)
RefBytes(c) ==
    LET lead == CASE c < 128   -> [b |-> c, bits |-> -6]
                  [] c < 2048  -> [b |-> (shiftR(c, 6) & 31) | 192, bits |-> 0]
                  [] c < 65536 -> [b |-> (shiftR(c, 12) & 15) | 224, bits |-> 6]
                  [] OTHER     -> [b |-> (shiftR(c, 18) & 7) | 240, bits |-> 12]
        RECURSIVE Trail(_)
        Trail(bits) == IF bits < 0 THEN <<>>
                       ELSE <<(shiftR(c, bits) & 63) | 128>> \o Trail(bits - 6)
    IN  <<lead.b>> \o Trail(lead.bits)

(* COPY_BUF(l, buf, nbchar, v): one byte is stored as is. *)
CopyBuf(l, v) == IF l = 1 THEN <<v % 256>> ELSE RefBytes(v)

(***************************************************************************)
(* htmlParseCharDataInternal (no readahead): characters up to '<', '&' or *)
(* the end; one that is not IS_CHAR is reported and dropped.              *)
(***************************************************************************)
RECURSIVE CharRun(_, _)
CharRun(q, acc) ==
    LET r == CurrentChar(q) IN
    IF r.c \in {LtB, AmpB, 0}
    THEN [q |-> r.q, bytes |-> acc]
    ELSE CharRun(Advance(r.q, r.len), IF IsChar(r.c) THEN acc \o CopyBuf(r.len, r.c) ELSE acc)

(***************************************************************************)
(* htmlParseCharRef: "&#x" hex digits or "&#" decimal digits, up to ';'   *)
(* (consumed) or the first other byte; the value stops growing once it    *)
(* reaches 0x110000.  Returns the value if IS_CHAR, else 0.               *)
(***************************************************************************)
DigitValue(b, base) ==
    CASE IsDigit(b)                    -> b - 48
      [] base = 16 /\ b \in 97..102    -> b - 97 + 10
      [] base = 16 /\ b \in 65..70     -> b - 65 + 10
      [] OTHER                         -> -1

RECURSIVE Digits(_, _, _)
Digits(q, val, base) ==
    CASE Byte(q, 0) = SemiB -> [val |-> val, q |-> Advance(q, 1)]
      [] DigitValue(Byte(q, 0), base) < 0 -> [val |-> val, q |-> q]
      [] OTHER -> Digits(Advance(q, 1),
                         IF val < 1114112 THEN val * base + DigitValue(Byte(q, 0), base) ELSE val,
                         base)

(* Mutant: the decimal branch accumulates in base 16. *)
CharRef_base16(q) ==
    LET r == IF Byte(q, 2) \in {120, 88} THEN Digits(Advance(q, 3), 0, 16)
             ELSE Digits(Advance(q, 2), 0, 16)
    IN  [r EXCEPT !.val = IF IsChar(@) THEN @ ELSE 0]

(* Called on "&#". *)
CharRef(q) ==
    LET r == IF Byte(q, 2) \in {120, 88} THEN Digits(Advance(q, 3), 0, 16)
             ELSE Digits(Advance(q, 2), 0, 10)
    IN  [r EXCEPT !.val = IF IsChar(@) THEN @ ELSE 0]

(***************************************************************************)
(* htmlParseName, with htmlParseNameComplex behind it.  A name is <<>>    *)
(* when there is none (NULL).  The fast path takes an ASCII name followed *)
(* by an ASCII byte other than NUL, and gives up (NULL) when the name      *)
(* runs to in->end; anything else goes to the complex path, which reads    *)
(* characters with htmlCurrentChar and, when that switched the encoding    *)
(* (in->base moved), starts again from in->cur.  The length limit is       *)
(* never reached by the models' runs.                                      *)
(***************************************************************************)
AsciiNameChar(b) == b \in (65..90) \cup (97..122) \cup (48..57) \cup {95, 45, 58, 46}

RECURSIVE AsciiNameLen(_, _)
AsciiNameLen(q, k) == IF AsciiNameChar(Byte(q, k)) THEN AsciiNameLen(q, k + 1) ELSE k

NameStartChar(c) == c \notin {32, 62, 47} /\ (IsLetter(c) \/ c \in {95, 58})

NameChar(c) ==
    c \notin {32, 62, 47} /\ (IsLetter(c) \/ IsDigit(c) \/ c \in {46, 45, 95, 58, 183})

RECURSIVE NameComplex(_)
RECURSIVE NameLoop(_, _, _)
(* r is the character at q.cur, len the bytes of the name before it. *)
NameLoop(q, r, len) ==
    IF NameChar(r.c)
    THEN LET q2 == Advance(q, r.len)
             r2 == CurrentChar(q2)
         IN  IF r2.q.hasEnc /= q2.hasEnc THEN NameComplex(r2.q)
             ELSE NameLoop(q2, r2, len + r.len)
    ELSE [name |-> SubSeq(q.buf, q.cur - len, q.cur - 1), q |-> q]

NameComplex(q) ==
    LET r == CurrentChar(q) IN
    IF ~NameStartChar(r.c) THEN [name |-> <<>>, q |-> r.q]
    ELSE NameLoop(r.q, r, 0)

ParseName(q) ==
    LET b0 == Byte(q, 0)
        n  == AsciiNameLen(q, 1)
        fast == b0 \in (65..90) \cup (97..122) \cup {95, 58}
    IN  CASE fast /\ q.cur + n = Len(q.buf) + 1 -> [name |-> <<>>, q |-> q]
          [] fast /\ Byte(q, n) \in 1..127 ->
                 [name |-> SubSeq(q.buf, q.cur, q.cur + n - 1), q |-> Advance(q, n)]
          [] OTHER -> NameComplex(q)

(* html40EntitiesTable, restricted to the entities the models use, and    *)
(* htmlEntityLookup: the value of the entity of that name, 0 for NULL.     *)
Entities ==
    {[name |-> <<113, 117, 111, 116>>, value |-> 34],    \* quot
     [name |-> <<97, 109, 112>>, value |-> 38],          \* amp
     [name |-> <<97, 112, 111, 115>>, value |-> 39],     \* apos
     [name |-> <<108, 116>>, value |-> 60],              \* lt
     [name |-> <<103, 116>>, value |-> 62],              \* gt
     [name |-> <<101, 97, 99, 117, 116, 101>>, value |-> 233],  \* eacute
     [name |-> <<101, 117, 114, 111>>, value |-> 8364]}  \* euro

EntityLookup(name) ==
    IF \E e \in Entities : e.name = name
    THEN (CHOOSE e \in Entities : e.name = name).value
    ELSE 0

(***************************************************************************)
(* htmlParseEntityRef, called on '&': the name, then ';' is consumed only *)
(* when the entity is known.  ent is 0 for NULL, name <<>> for NULL.       *)
(***************************************************************************)
(* What follows the name nm htmlParseName returned. *)
EntityAfterName(nm) ==
    CASE nm.name = <<>> -> [ent |-> 0, name |-> <<>>, q |-> nm.q]
      [] Byte(nm.q, 0) = SemiB ->
             LET v == EntityLookup(nm.name) IN
             [ent |-> v, name |-> nm.name, q |-> IF v > 0 THEN Advance(nm.q, 1) ELSE nm.q]
      [] OTHER -> [ent |-> 0, name |-> nm.name, q |-> nm.q]

EntityRef(q) == EntityAfterName(ParseName(Advance(q, 1)))

(***************************************************************************)
(* htmlParseReference, called on '&': a character reference becomes its  *)
(* UTF-8 bytes (nothing when htmlParseCharRef returned 0); a known entity  *)
(* its value's bytes; an unknown or unterminated one the text '&' and its  *)
(* name; no name at all the text '&'.                                      *)
(***************************************************************************)
(* Mutant: the value is stored as one unit, without the UTF-8 encoder. *)
Reference_noEncode(q) ==
    LET Unit(cr) == [q |-> cr.q, bytes |-> IF cr.val = 0 THEN <<>> ELSE <<cr.val>>]
        EntityUnit(er) ==
            [q |-> er.q,
             bytes |-> CASE er.name = <<>> -> <<AmpB>>
                         [] er.ent = 0     -> <<AmpB>> \o er.name
                         [] OTHER          -> <<er.ent>>]
    IN  IF Byte(q, 1) = HashB THEN Unit(CharRef(q)) ELSE EntityUnit(EntityRef(q))

(* Mutant: a reference with no name emits '&' and leaves the cursor on it. *)
Reference_noNameStay(q) ==
    LET CharRefBytes(cr) == [q |-> cr.q, bytes |-> IF cr.val = 0 THEN <<>> ELSE RefBytes(cr.val)]
        EntityBytes(er) ==
            [q |-> IF er.name = <<>> THEN q ELSE er.q,
             bytes |-> CASE er.name = <<>> -> <<AmpB>>
                         [] er.ent = 0     -> <<AmpB>> \o er.name
                         [] OTHER          -> RefBytes(er.ent)]
    IN  IF Byte(q, 1) = HashB THEN CharRefBytes(CharRef(q)) ELSE EntityBytes(EntityRef(q))

Reference(q) ==
    LET CharRefBytes(cr) == [q |-> cr.q, bytes |-> IF cr.val = 0 THEN <<>> ELSE RefBytes(cr.val)]
        EntityBytes(er) ==
            [q |-> er.q,
             bytes |-> CASE er.name = <<>> -> <<AmpB>>
                         [] er.ent = 0     -> <<AmpB>> \o er.name
                         [] OTHER          -> RefBytes(er.ent)]
    IN  IF Byte(q, 1) = HashB THEN CharRefBytes(CharRef(q)) ELSE EntityBytes(EntityRef(q))

(* IS_BLANK_CH. *)
Blank(b) == b \in {32, 9, 10, 13}

(***************************************************************************)
(* Reference definitions, from the specification rather than the code.    *)
(* Utf8Scalars decodes a byte string as UTF-8 (shortest form, no          *)
(* surrogates), giving -1 for every byte it cannot decode.                 *)
(***************************************************************************)
RECURSIVE Utf8Scalars(_)
Utf8Scalars(b) ==
    LET n    == CASE b = <<>>          -> 0
                  [] b[1] < 128        -> 1
                  [] b[1] \in 194..223 -> 2
                  [] b[1] \in 224..239 -> 3
                  [] b[1] \in 240..244 -> 4
                  [] OTHER             -> 0
        tail == \A k \in 2..n : k <= Len(b) /\ b[k] \in 128..191
        v    == CASE n = 1 -> b[1]
                  [] n = 2 -> (b[1] - 192) * 64 + (b[2] - 128)
                  [] n = 3 -> (b[1] - 224) * 4096 + (b[2] - 128) * 64 + (b[3] - 128)
                  [] n = 4 -> (b[1] - 240) * 262144 + (b[2] - 128) * 4096
                                + (b[3] - 128) * 64 + (b[4] - 128)
        least == CASE n = 3 -> 2048 [] n = 4 -> 65536 [] OTHER -> 0
        good == n > 0 /\ tail /\ v >= least /\ v <= 1114111 /\ v \notin 55296..57343
    IN  CASE b = <<>> -> <<>>
          [] good     -> <<v>> \o Utf8Scalars(SubSeq(b, n + 1, Len(b)))
          [] OTHER    -> <<-1>> \o Utf8Scalars(Tail(b))

(* The characters of an input: UTF-8 when declared, else ISO-8859-1. *)
InputScalars(i) == IF i.declared THEN Utf8Scalars(i.text) ELSE i.text

CountWhile(s, k, P(_)) ==
    LET RECURSIVE Count(_)
        Count(j) == IF j <= Len(s) /\ P(s[j]) THEN 1 + Count(j + 1) ELSE 0
    IN  Count(k)

RefDigit(c, base) ==
    CASE c \in 48..57                -> c - 48
      [] base = 16 /\ c \in 97..102 -> c - 87
      [] base = 16 /\ c \in 65..70  -> c - 55
      [] OTHER                      -> -1

Number(ds, base) == FoldLeft(LAMBDA acc, d : acc * base + RefDigit(d, base), 0, ds)

Drop(s, n) == SubSeq(s, n + 1, Len(s))
=============================================================================

------------------------------ MODULE HtmlMarkup ------------------------------
(***************************************************************************)
(* The markup routines the push parser calls once it has seen how a       *)
(* construct starts: htmlParseComment on "<!--", htmlParsePI on "<?",      *)
(* htmlParseDocTypeDecl on "<!DOCTYPE" (with htmlParseExternalID,          *)
(* htmlParseSystemLiteral, htmlParsePubidLiteral and htmlSkipBlankChars),  *)
(* and htmlParseScript inside a script element.  Each input is given to   *)
(* one call (HtmlLexer); each gives the input record of HtmlScanner after *)
(* the call and the SAX events the call made.  An event is a record        *)
(*   [kind, a, b, c]  comment(a), processingInstruction(a, b),             *)
(*                    internalSubset(a, b, c) or cdataBlock(a),            *)
(* where a string argument that may be NULL is a sequence of at most one  *)
(* string (<<>> for NULL).                                                 *)
(***************************************************************************)
EXTENDS HtmlScanner

Null == <<>>
Some(s) == <<s>>

Ev(kind, a, b, c) == [kind |-> kind, a |-> a, b |-> b, c |-> c]

(* htmlSkipBlankChars. *)
RECURSIVE SkipBlanks(_)
SkipBlanks(q) == IF Blank(Byte(q, 0)) THEN SkipBlanks(Advance(q, 1)) ELSE q

(* COPY_BUF of a character read with CUR_CHAR, if it is IS_CHAR. *)
Keep(r, acc) == IF IsChar(r.c) THEN acc \o CopyBuf(r.len, r.c) ELSE acc

(***************************************************************************)
(* htmlParseComment, after SKIP(4).  q, r and cur are the last three      *)
(* characters read (records of CurrentChar); cur is at in->cur.  The      *)
(* loop runs until "-->", "--!>" or the end, copying q each time round.    *)
(***************************************************************************)
RECURSIVE CommentLoop(_, _, _, _)

(* Mutant: the '--!>' close is not recognised. *)
CommentLoop_noBang(q, r, cur, acc) ==
    LET p    == cur.q
        next == CurrentChar(Advance(p, cur.len))
    IN  CASE cur.c = 0 -> [q |-> p, ev |-> <<>>]
          [] cur.c = 62 /\ r.c = 45 /\ q.c = 45 ->
                 [q |-> Advance(p, 1), ev |-> <<Ev("comment", Some(acc), Null, Null)>>]
          [] OTHER -> CommentLoop(r, cur, next, Keep(q, acc))

CommentLoop(q, r, cur, acc) ==
    LET p    == cur.q
        next == CurrentChar(Advance(p, cur.len))
    IN  CASE cur.c = 0 -> [q |-> p, ev |-> <<>>]
          [] cur.c = 62 /\ r.c = 45 /\ q.c = 45 ->
                 [q |-> Advance(p, 1), ev |-> <<Ev("comment", Some(acc), Null, Null)>>]
          [] q.c = 45 /\ r.c = 45 /\ cur.c = 33 /\ next.c = 62 ->
                 [q |-> Advance(next.q, 1), ev |-> <<Ev("comment", Some(acc), Null, Null)>>]
          [] OTHER -> CommentLoop(r, cur, next, Keep(q, acc))

(* Called on "<!--".  "<!-->" and "<!--->" end the comment at once. *)
ParseComment(s0) ==
    LET q == CurrentChar(Advance(s0, 4))
        r == CurrentChar(Advance(q.q, q.len))
    IN  CASE q.c = 0 -> [q |-> q.q, ev |-> <<>>]
          [] q.c = 62 -> [q |-> Advance(q.q, 1), ev |-> <<Ev("comment", Some(<<>>), Null, Null)>>]
          [] r.c = 0 -> [q |-> r.q, ev |-> <<>>]
          [] q.c = 45 /\ r.c = 62 ->
                 [q |-> Advance(r.q, 1), ev |-> <<Ev("comment", Some(<<>>), Null, Null)>>]
          [] OTHER -> CommentLoop(q, r, CurrentChar(Advance(r.q, r.len)), <<>>)

(***************************************************************************)
(* htmlParsePI, called on "<?": the target is a name; '>' right after it   *)
(* gives a PI with no data, otherwise blanks are skipped and the data runs *)
(* to '>'.  No target, or no '>', gives no event.                          *)
(***************************************************************************)
RECURSIVE PIData(_, _)
PIData(q, acc) ==
    LET Step(cur) ==
            IF cur.c \in {0, 62} THEN [q |-> cur.q, end |-> cur.c, data |-> acc]
            ELSE PIData(Advance(cur.q, cur.len), Keep(cur, acc))
    IN  Step(CurrentChar(q))

(* Mutant: the blanks after the target are kept in the data. *)
ParsePI_noSkip(s0) ==
    LET Data(t, d) ==
            IF d.end = 62
            THEN [q |-> Advance(d.q, 1), ev |-> <<Ev("pi", Some(t.name), Some(d.data), Null)>>]
            ELSE [q |-> d.q, ev |-> <<>>]
        Target(t) ==
            CASE t.name = <<>> -> [q |-> t.q, ev |-> <<>>]
              [] Byte(t.q, 0) = 62 ->
                     [q |-> Advance(t.q, 1), ev |-> <<Ev("pi", Some(t.name), Null, Null)>>]
              [] OTHER -> Data(t, PIData(t.q, <<>>))
    IN  Target(ParseName(Advance(s0, 2)))

ParsePI(s0) ==
    LET Data(t, d) ==
            IF d.end = 62
            THEN [q |-> Advance(d.q, 1), ev |-> <<Ev("pi", Some(t.name), Some(d.data), Null)>>]
            ELSE [q |-> d.q, ev |-> <<>>]
        Target(t) ==
            CASE t.name = <<>> -> [q |-> t.q, ev |-> <<>>]
              [] Byte(t.q, 0) = 62 ->
                     [q |-> Advance(t.q, 1), ev |-> <<Ev("pi", Some(t.name), Null, Null)>>]
              [] OTHER -> Data(t, PIData(SkipBlanks(t.q), <<>>))
    IN  Target(ParseName(Advance(s0, 2)))

(***************************************************************************)
(* htmlParseDocTypeDecl, called on "<!DOCTYPE" (any case): the name, an   *)
(* optional external identifier, then anything up to '>' is skipped.  The *)
(* internalSubset event is made whatever was found.                        *)
(***************************************************************************)
(* UPPER, UPP(k): toupper of a byte. *)
Upper(b) == IF b \in 97..122 THEN b - 32 ELSE b

HasWord(q, w) == \A i \in 1..Len(w) : Upper(Byte(q, i - 1)) = w[i]

SystemW == <<83, 89, 83, 84, 69, 77>>
PublicW == <<80, 85, 66, 76, 73, 67>>

(* IS_CHAR_CH, and IS_PUBIDCHAR_CH (xmlIsPubidChar_tab: letters, digits *)
(* and " \r\n-'()+,./:=?;!*#@$_%").                                       *)
CharCh(b) == b \in {9, 10, 13} \/ b >= 32

PubidChar(b) ==
    b \in (65..90) \cup (97..122) \cup (48..57)
          \cup {32, 13, 10, 45, 39, 40, 41, 43, 44, 46, 47, 58, 61, 63, 59, 33, 42, 35, 64, 36, 95, 37}

(* NEXT, xmlNextChar of parserInternals.c: one byte for ASCII, the whole  *)
(* UTF-8 sequence otherwise (the inputs that reach it are UTF-8).         *)
NextChar(q) == Advance(q, IF Byte(q, 0) < 128 THEN 1 ELSE CurrentChar(q).len)

(* The loop of htmlParseSystemLiteral (pub FALSE) and                     *)
(* htmlParsePubidLiteral (pub TRUE): to the quote or a NUL, testing each  *)
(* lead byte and counting one per NEXT in len.                             *)
RECURSIVE LiteralRun(_, _, _, _)
LiteralRun(q, quote, pub, acc) ==
    LET b == Byte(q, 0) IN
    IF b \in {0, quote} THEN [q |-> q, acc |-> acc]
    ELSE LiteralRun(NextChar(q), quote, pub,
                    [len |-> acc.len + 1,
                     err |-> acc.err \/ ~(IF pub THEN PubidChar(b) ELSE CharCh(b))])

(* The literal, NULL when it does not start with a quote, is not closed or *)
(* has an invalid character; otherwise xmlStrndup of len bytes from       *)
(* startPosition.                                                          *)
Literal(q, pub) ==
    LET quote == Byte(q, 0)
        start == q.cur + 1
        Closed(r) ==
            IF Byte(r.q, 0) /= quote THEN [q |-> r.q, val |-> Null]
            ELSE [q   |-> Advance(r.q, 1),
                  val |-> IF r.acc.err THEN Null
                          ELSE Some(SubSeq(r.q.buf, start, start + r.acc.len - 1))]
    IN  IF quote \notin {34, 39} THEN [q |-> q, val |-> Null]
        ELSE Closed(LiteralRun(Advance(q, 1), quote, pub, [len |-> 0, err |-> FALSE]))

(* htmlParseSystemLiteral and htmlParsePubidLiteral. *)
SystemLiteral(q) == Literal(q, FALSE)

PubidLiteral(q) == Literal(q, TRUE)

(* Mutant: the blanks between the public and the system literal are not  *)
(* skipped.                                                                *)
ExternalID_noSkip(q) ==
    LET Sys(sy)     == [q |-> sy.q, pub |-> Null, sys |-> sy.val]
        Pub(pu, sy) == [q |-> sy.q, pub |-> pu.val, sys |-> sy.val]
        PubSys(pu)  == Pub(pu, IF Byte(pu.q, 0) \in {34, 39} THEN SystemLiteral(pu.q)
                               ELSE [q |-> pu.q, val |-> Null])
    IN  CASE HasWord(q, SystemW) -> Sys(SystemLiteral(SkipBlanks(Advance(q, 6))))
          [] HasWord(q, PublicW) -> PubSys(PubidLiteral(SkipBlanks(Advance(q, 6))))
          [] OTHER -> [q |-> q, pub |-> Null, sys |-> Null]

ExternalID(q) ==
    LET Sys(sy)     == [q |-> sy.q, pub |-> Null, sys |-> sy.val]
        Pub(pu, sy) == [q |-> sy.q, pub |-> pu.val, sys |-> sy.val]
        After(pu, b) == Pub(pu, IF Byte(b, 0) \in {34, 39} THEN SystemLiteral(b)
                                ELSE [q |-> b, val |-> Null])
        PubSys(pu)  == After(pu, SkipBlanks(pu.q))
    IN  CASE HasWord(q, SystemW) -> Sys(SystemLiteral(SkipBlanks(Advance(q, 6))))
          [] HasWord(q, PublicW) -> PubSys(PubidLiteral(SkipBlanks(Advance(q, 6))))
          [] OTHER -> [q |-> q, pub |-> Null, sys |-> Null]

RECURSIVE SkipToGt(_)
SkipToGt(q) == IF Byte(q, 0) \in {0, 62} THEN q ELSE SkipToGt(NextChar(q))

ParseDocTypeDecl(s0) ==
    LET Decl(n, x, e) ==
            [q  |-> IF Byte(e, 0) = 62 THEN Advance(e, 1) ELSE e,
             ev |-> <<Ev("doctype", IF n.name = <<>> THEN Null ELSE Some(n.name), x.pub, x.sys)>>]
        AfterId(n, x) == Decl(n, x, SkipToGt(SkipBlanks(x.q)))
        AfterName(n)  == AfterId(n, ExternalID(SkipBlanks(n.q)))
    IN  AfterName(ParseName(SkipBlanks(Advance(s0, 9))))

(***************************************************************************)
(* htmlParseScript inside <script>: characters up to "</" followed, with  *)
(* the recovery option, by the element's name (compared without case over *)
(* its length), otherwise by a letter; one cdataBlock for what was read,  *)
(* none if nothing was.                                                    *)
(***************************************************************************)
ScriptW == <<115, 99, 114, 105, 112, 116>>

Lower(b) == IF b \in 65..90 THEN b + 32 ELSE b

RECURSIVE ScriptRun(_, _, _)

(* Mutant: in recovery mode the end-tag name is compared with its case. *)
ScriptRun_caseSensitive(q, recovery, acc) ==
    LET cur == CurrentChar(q)
        p   == cur.q
        stop == /\ cur.c = 60
                /\ Byte(p, 1) = 47
                /\ IF recovery THEN \A i \in 1..Len(ScriptW) : Byte(p, i + 1) = ScriptW[i]
                   ELSE Byte(p, 2) \in (65..90) \cup (97..122)
    IN  IF cur.c = 0 \/ stop THEN [q |-> p, data |-> acc]
        ELSE ScriptRun(Advance(p, cur.len), recovery, Keep(cur, acc))

ScriptRun(q, recovery, acc) ==
    LET cur == CurrentChar(q)
        p   == cur.q
        stop == /\ cur.c = 60
                /\ Byte(p, 1) = 47
                /\ IF recovery THEN \A i \in 1..Len(ScriptW) : Lower(Byte(p, i + 1)) = ScriptW[i]
                   ELSE Byte(p, 2) \in (65..90) \cup (97..122)
    IN  IF cur.c = 0 \/ stop THEN [q |-> p, data |-> acc]
        ELSE ScriptRun(Advance(p, cur.len), recovery, Keep(cur, acc))

ParseScript(s0, recovery) ==
    LET r == ScriptRun(s0, recovery, <<>>) IN
    [q |-> r.q, ev |-> IF r.data = <<>> THEN <<>> ELSE <<Ev("cdata", Some(r.data), Null, Null)>>]

(***************************************************************************)
(* Reference definitions, from the specification (4.3 and 8) rather than  *)
(* the code, over the characters of the input.  At(s, k) is -1 past the   *)
(* end.  Text is kept with a NUL read as a space and illegal characters   *)
(* dropped, as the scanner reports and skips them.                         *)
(***************************************************************************)
At(s, k) == IF k \in 1..Len(s) THEN s[k] ELSE -1

Clean(t) == FlattenSeq([i \in DOMAIN t |-> CASE t[i] = 0     -> <<SpaceB>>
                                             [] IsChar(t[i]) -> <<t[i]>>
                                             [] OTHER        -> <<>>])

First(S) == IF S = {} THEN 0 ELSE Min(S)

SkipB(s) == Drop(s, CountWhile(s, 1, Blank))

NameLen(s) == IF s /= <<>> /\ NameStartChar(s[1]) THEN CountWhile(s, 1, NameChar) ELSE 0

(* "<!--" s: closed by "-->" or "--!>", or at once by ">" or "->".        *)
CommentMeaning(s) ==
    LET Close(k) == At(s, k) = 45 /\ At(s, k + 1) = 45
                    /\ (At(s, k + 2) = 62 \/ (At(s, k + 2) = 33 /\ At(s, k + 3) = 62))
        k == First({j \in 1..Len(s) : Close(j)})
    IN  CASE At(s, 1) = 62 -> [ev |-> <<Ev("comment", Some(<<>>), Null, Null)>>, rest |-> Drop(s, 1)]
          [] At(s, 1) = 45 /\ At(s, 2) = 62 ->
                 [ev |-> <<Ev("comment", Some(<<>>), Null, Null)>>, rest |-> Drop(s, 2)]
          [] k = 0 -> [ev |-> <<>>, rest |-> <<>>]
          [] OTHER ->
                 [ev   |-> <<Ev("comment", Some(Clean(SubSeq(s, 1, k - 1))), Null, Null)>>,
                  rest |-> Drop(s, k + IF At(s, k + 2) = 62 THEN 2 ELSE 3)]

(* "<?" s: a target name, then either '>' or blanks and data up to '>'.  *)
PIMeaning(s) ==
    LET n     == NameLen(s)
        after == Drop(s, n)
        d     == SkipB(after)
        k     == First({j \in 1..Len(d) : d[j] = 62})
    IN  CASE n = 0 -> [ev |-> <<>>, rest |-> s]
          [] At(after, 1) = 62 ->
                 [ev |-> <<Ev("pi", Some(SubSeq(s, 1, n)), Null, Null)>>, rest |-> Drop(after, 1)]
          [] k = 0 -> [ev |-> <<>>, rest |-> <<>>]
          [] OTHER ->
                 [ev   |-> <<Ev("pi", Some(SubSeq(s, 1, n)), Some(Clean(SubSeq(d, 1, k - 1))), Null)>>,
                  rest |-> Drop(d, k)]

(* A quoted literal: its text when it is closed and every character is   *)
(* allowed.                                                                *)
LitMeaning(s, Ok(_)) ==
    LET k == First({j \in 2..Len(s) : s[j] = s[1]}) IN
    CASE At(s, 1) \notin {34, 39} -> [val |-> Null, rest |-> s]
      [] k = 0 -> [val |-> Null, rest |-> <<>>]
      [] OTHER ->
             [val  |-> IF \A j \in 2..(k - 1) : Ok(s[j]) THEN Some(SubSeq(s, 2, k - 1)) ELSE Null,
              rest |-> Drop(s, k)]

WordAt(s, w) == \A i \in 1..Len(w) : Upper(At(s, i)) = w[i]

(* "<!DOCTYPE" s: blanks, a name, blanks, "SYSTEM" literal or "PUBLIC"    *)
(* literal [literal], then everything up to and including '>'.           *)
DocTypeMeaning(s) ==
    LET s1 == SkipB(s)
        n  == NameLen(s1)
        s2 == SkipB(Drop(s1, n))
        sy == LitMeaning(SkipB(Drop(s2, 6)), CharCh)
        pu == LitMeaning(SkipB(Drop(s2, 6)), PubidChar)
        ps == LitMeaning(SkipB(pu.rest), CharCh)
        x  == CASE WordAt(s2, SystemW) -> [pub |-> Null, sys |-> sy.val, rest |-> sy.rest]
                [] WordAt(s2, PublicW) -> [pub |-> pu.val, sys |-> ps.val, rest |-> ps.rest]
                [] OTHER -> [pub |-> Null, sys |-> Null, rest |-> s2]
        k  == First({j \in 1..Len(x.rest) : x.rest[j] = 62})
    IN  [ev   |-> <<Ev("doctype", IF n = 0 THEN Null ELSE Some(SubSeq(s1, 1, n)), x.pub, x.sys)>>,
         rest |-> IF k = 0 THEN <<>> ELSE Drop(x.rest, k)]

(* Script content up to "</" and, with recovery, the element's own name   *)
(* (not followed by another name character), otherwise a letter.          *)
ScriptMeaning(s, recovery) ==
    LET End(j) == At(s, j) = 60 /\ At(s, j + 1) = 47
                  /\ IF recovery
                     THEN (\A i \in 1..Len(ScriptW) : Lower(At(s, j + 1 + i)) = ScriptW[i])
                          /\ ~NameChar(At(s, j + 2 + Len(ScriptW)))
                     ELSE At(s, j + 2) \in (65..90) \cup (97..122)
        k    == First({j \in 1..Len(s) : End(j)})
        e    == IF k = 0 THEN Len(s) + 1 ELSE k
        data == Clean(SubSeq(s, 1, e - 1))
    IN  [ev   |-> IF data = <<>> THEN <<>> ELSE <<Ev("cdata", Some(data), Null, Null)>>,
         rest |-> Drop(s, e - 1)]
=============================================================================

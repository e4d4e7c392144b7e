------------------------------ MODULE HtmlLexer ------------------------------
(***************************************************************************)
(* Character data and references at the byte level: the text loop of the  *)
(* CONTENT case of htmlParseTryOrFinish, which alternates                  *)
(* htmlParseCharData (reading characters with htmlCurrentChar) and         *)
(* htmlParseReference (htmlParseCharRef, htmlParseEntityRef, htmlParseName *)
(* and the entity table), over a text run that the look-up has found       *)
(* complete, and htmlParseAttValue on an attribute value.  The input      *)
(* buffer is a record of HtmlScanner.                                      *)
(* The consumer is reduced to the bytes handed to characters(), in order: *)
(* the paragraph checks and the split into several calls belong to the    *)
(* tree side (HtmlTreeOps) and are left out.  The markup routines of      *)
(* HtmlMarkup (comment, PI, DOCTYPE, script) are one call each, with the  *)
(* SAX events they make.  The output converters of HtmlEncode run on an    *)
(* input in calls with a bounded output buffer each, as an output encoder  *)
(* calls them, until the input is used up.                                 *)
(***************************************************************************)
EXTENDS HtmlMarkup, HtmlEncode

CONSTANT InputGroups \* a set of sets of inputs, each input a record
                 \* [text: the bytes, declared: an encoding was declared,
                 \*  ctx: "text" for a text run, "attr" for an attribute value,
                 \*  "comment", "pi", "doctype" or "script" for a markup call,
                 \*  "tohtml" or "encode" for UTF8ToHtml or htmlEncodeEntities,
                 \*  recovery: the HTML_PARSE_RECOVER option,
                 \*  quote: the quoteChar of htmlEncodeEntities]
CONSTANT OutLens \* the values of *outlen a converter call is given

Markup == {"comment", "pi", "doctype", "script", "tag"}

Converters == {"tohtml", "encode"}

VARIABLES
    src,   \* the input the caller gave: never changes
    in,    \* the input buffer record
    out,    \* the bytes handed to characters(), or the attribute value
    events, \* the SAX events of a markup call
    called, \* htmlParseAttValue or the markup routine has returned, or
            \* the converter has used its input up or failed
    room,   \* the *outlen of the last converter call
    atts,   \* the attribute pairs of a start tag's startElement
    encoding \* the encoding a meta tag switched the input to, or Null

vars == <<src, in, out, events, called, room, atts, encoding>>

(***************************************************************************)
(* htmlParseHTMLAttribute and htmlParseAttValue.  A reference is expanded *)
(* as in htmlParseReference, except that the value of htmlParseCharRef    *)
(* goes through the encoder even when it is 0, which writes a NUL into    *)
(* the value.                                                              *)
(***************************************************************************)
AttrReference(q) ==
    LET CharRefValue(cr) == [q |-> cr.q, bytes |-> RefBytes(cr.val)]
        EntityValue(er) ==
            [q |-> er.q,
             bytes |-> CASE er.name = <<>> -> <<AmpB>>
                         [] er.ent = 0     -> <<AmpB>> \o er.name
                         [] OTHER          -> RefBytes(er.ent)]
    IN  IF Byte(q, 1) = HashB THEN CharRefValue(CharRef(q)) ELSE EntityValue(EntityRef(q))

(* The value up to stop (a quote, or 0 for an unquoted value, which also *)
(* ends at a blank or '>') or a NUL byte; every character is re-encoded.  *)
RECURSIVE AttrRun(_, _, _)
AttrRun(q, stop, acc) ==
    LET b == Byte(q, 0)
        AfterRef(r)  == AttrRun(r.q, stop, acc \o r.bytes)
        AfterChar(r) == AttrRun(Advance(r.q, r.len), stop, acc \o RefBytes(r.c))
    IN  CASE b = 0 \/ b = stop \/ (stop = 0 /\ (b = 62 \/ Blank(b))) -> [q |-> q, bytes |-> acc]
          [] b = AmpB -> AfterRef(AttrReference(q))
          [] OTHER    -> AfterChar(CurrentChar(q))

(* Mutant: the closing quote is left in the input. *)
AttValue_keepQuote(q) ==
    IF Byte(q, 0) \in {34, 39} THEN AttrRun(Advance(q, 1), Byte(q, 0), <<>>)
    ELSE AttrRun(q, 0, <<>>)

AttValue(q) ==
    LET quote  == Byte(q, 0)
        quoted == quote \in {34, 39}
        SkipQuote(r) == [r EXCEPT !.q = IF quoted /\ Byte(@, 0) = quote THEN Advance(@, 1) ELSE @]
    IN  SkipQuote(AttrRun(IF quoted THEN Advance(q, 1) ELSE q, IF quoted THEN quote ELSE 0, <<>>))

(* An xmlChar value as the C string a consumer reads. *)
CString(b) == SubSeq(b, 1, CountWhile(b, 1, LAMBDA x : x /= 0))

(***************************************************************************)
(* htmlParseHTMLName: a letter, '_', ':' or '.', then letters, digits,    *)
(* ':', '-', '_' and '.', lowercased, at most HTML_PARSER_BUFFER_SIZE     *)
(* bytes.                                                                  *)
(***************************************************************************)
HtmlParserBufferSize == 100

AsciiLetter(b) == b \in (65..90) \cup (97..122)

RECURSIVE HTMLNameRun(_, _)
HTMLNameRun(q, acc) ==
    LET b == Byte(q, 0) IN
    IF Len(acc) < HtmlParserBufferSize /\ (AsciiLetter(b) \/ IsDigit(b) \/ b \in {58, 45, 95, 46})
    THEN HTMLNameRun(Advance(q, 1), Append(acc, Lower(b)))
    ELSE [q |-> q, val |-> Some(acc)]

ParseHTMLName(q) ==
    IF AsciiLetter(Byte(q, 0)) \/ Byte(q, 0) \in {95, 58, 46}
    THEN HTMLNameRun(q, <<>>)
    ELSE [q |-> q, val |-> Null]

(* htmlParseAttribute: a name, blanks, and '=' with blanks and a value.   *)
ParseAttribute(q) ==
    LET Value(n, v) == [q |-> v.q, name |-> n.val, value |-> Some(v.bytes)]
        Eq(n, b) ==
            IF Byte(b, 0) = 61 THEN Value(n, AttValue(SkipBlanks(NextChar(b))))
            ELSE [q |-> b, name |-> n.val, value |-> Null]
        Named(n) ==
            IF n.val = Null THEN [q |-> q, name |-> Null, value |-> Null]
            ELSE Eq(n, SkipBlanks(n.q))
    IN  Named(ParseHTMLName(q))

(* The attribute loop of htmlParseStartTag runs while the byte is not    *)
(* NUL, '>' or the start of "/>".  A bogus attribute is skipped up to a   *)
(* blank or the end of the tag.                                            *)
InTag(q) == Byte(q, 0) \notin {0, 62} /\ ~(Byte(q, 0) = 47 /\ Byte(q, 1) = 62)

RECURSIVE SkipBogus(_)
SkipBogus(q) == IF InTag(q) /\ ~Blank(Byte(q, 0)) THEN SkipBogus(NextChar(q)) ELSE q

Redefined(pairs, name) == \E i \in DOMAIN pairs : pairs[i].name = name

RECURSIVE AttrLoop_noDupCheck(_, _)

(* Mutant: a redefined attribute is added again. *)
AttrLoop_noDupCheck(q, pairs) ==
    LET Add(a) ==
            IF a.name = Null THEN AttrLoop_noDupCheck(SkipBlanks(SkipBogus(a.q)), pairs)
            ELSE AttrLoop_noDupCheck(SkipBlanks(a.q), Append(pairs, [name |-> a.name[1], value |-> a.value]))
    IN  IF ~InTag(q) THEN [q |-> q, atts |-> pairs] ELSE Add(ParseAttribute(q))

RECURSIVE AttrLoop(_, _)
AttrLoop(q, pairs) ==
    LET Add(a) ==
            CASE a.name = Null -> AttrLoop(SkipBlanks(SkipBogus(a.q)), pairs)
              [] Redefined(pairs, a.name[1]) -> AttrLoop(SkipBlanks(a.q), pairs)
              [] OTHER -> AttrLoop(SkipBlanks(a.q), Append(pairs, [name |-> a.name[1], value |-> a.value]))
    IN  IF ~InTag(q) THEN [q |-> q, atts |-> pairs] ELSE Add(ParseAttribute(q))

(***************************************************************************)
(* htmlCheckMeta and htmlCheckEncoding: the encoding names a meta tag     *)
(* hands to xmlSetDeclaredEncoding, in order: every charset attribute as  *)
(* the loop meets it, then the charset of content when http-equiv is      *)
(* Content-Type.  Names and values are compared without case; a value is  *)
(* read as a C string.                                                     *)
(***************************************************************************)
CaseEq(s, w) == Len(s) = Len(w) /\ \A i \in 1..Len(w) : Lower(s[i]) = Lower(w[i])

CharsetW     == <<99, 104, 97, 114, 115, 101, 116>>
HttpEquivW   == <<104, 116, 116, 112, 45, 101, 113, 117, 105, 118>>
ContentTypeW == <<99, 111, 110, 116, 101, 110, 116, 45, 116, 121, 112, 101>>
ContentW     == <<99, 111, 110, 116, 101, 110, 116>>

(* xmlStrcasestr: the first index where w starts in s, or 0. *)
CaseFind(s, w) ==
    LET K == {k \in 1..(Len(s) - Len(w) + 1) : CaseEq(SubSeq(s, k, k + Len(w) - 1), w)}
    IN  IF K = {} THEN 0 ELSE Min(K)

CheckEncoding(v) ==
    LET k  == CaseFind(v, CharsetW)
        e  == k + 7
        eq == IF e <= Len(v) /\ Blank(v[e]) THEN CaseFind(v, <<61>>) ELSE e
    IN  IF k > 0 /\ eq > 0 /\ eq <= Len(v) /\ v[eq] = 61
        THEN <<SubSeq(v, eq + 1, Len(v))>>
        ELSE <<>>

(* Mutant: the content charset is handed over before the charset      *)
(* attributes.                                                           *)
CheckMeta_contentFirst(pairs) ==
    LET vals     == SelectSeq(pairs, LAMBDA a : a.value /= Null)
        V(a)     == CString(a.value[1])
        http     == \E i \in DOMAIN vals : CaseEq(vals[i].name, HttpEquivW) /\ CaseEq(V(vals[i]), ContentTypeW)
        charsets == SelectSeq(vals, LAMBDA a : ~(CaseEq(a.name, HttpEquivW) /\ CaseEq(V(a), ContentTypeW))
                                                /\ CaseEq(a.name, CharsetW))
        contents == SelectSeq(vals, LAMBDA a : ~(CaseEq(a.name, HttpEquivW) /\ CaseEq(V(a), ContentTypeW))
                                                /\ ~CaseEq(a.name, CharsetW) /\ CaseEq(a.name, ContentW))
    IN  (IF http /\ contents /= <<>> THEN CheckEncoding(V(Last(contents))) ELSE <<>>)
        \o [i \in DOMAIN charsets |-> V(charsets[i])]

CheckMeta(pairs) ==
    LET vals     == SelectSeq(pairs, LAMBDA a : a.value /= Null)
        V(a)     == CString(a.value[1])
        http     == \E i \in DOMAIN vals : CaseEq(vals[i].name, HttpEquivW) /\ CaseEq(V(vals[i]), ContentTypeW)
        charsets == SelectSeq(vals, LAMBDA a : ~(CaseEq(a.name, HttpEquivW) /\ CaseEq(V(a), ContentTypeW))
                                                /\ CaseEq(a.name, CharsetW))
        contents == SelectSeq(vals, LAMBDA a : ~(CaseEq(a.name, HttpEquivW) /\ CaseEq(V(a), ContentTypeW))
                                                /\ ~CaseEq(a.name, CharsetW) /\ CaseEq(a.name, ContentW))
    IN  [i \in DOMAIN charsets |-> V(charsets[i])]
        \o (IF http /\ contents /= <<>> THEN CheckEncoding(V(Last(contents))) ELSE <<>>)

(* xmlSetDeclaredEncoding (not in this tree): the first name switches an  *)
(* input whose encoding was not declared; later ones do not switch it.    *)
SetDeclaredEncoding(q, names) ==
    IF q.hasEnc \/ names = <<>> THEN Null ELSE Some(names[1])

(***************************************************************************)
(* htmlParseStartTag from its '<', on a tag the tree side does not        *)
(* discard: the name, the attribute loop with its SKIP_BLANKS, the meta    *)
(* check, and startElement.  An invalid name dumps the tag up to '>'.      *)
(***************************************************************************)
ParseStartTag(s0) ==
    LET Tag(n, l) ==
            [q    |-> l.q,
             ev   |-> <<Ev("start", n.val, Null, Null)>>,
             atts |-> l.atts,
             enc  |-> IF n.val[1] = <<109, 101, 116, 97>> /\ l.atts /= <<>>
                      THEN SetDeclaredEncoding(s0, CheckMeta(l.atts)) ELSE Null]
        Named(n) ==
            IF n.val = Null
            THEN [q |-> SkipToGt(n.q), ev |-> <<>>, atts |-> <<>>, enc |-> Null]
            ELSE Tag(n, AttrLoop(SkipBlanks(n.q), <<>>))
    IN  Named(ParseHTMLName(Advance(s0, 1)))

(***************************************************************************)
(* The specification.  A text input runs the text loop of the CONTENT     *)
(* case,                                                                   *)
(*   while ((cur != '<') && (in->cur < in->end))                           *)
(*       if (cur == '&') htmlParseReference else htmlParseCharData         *)
(* started on a run the look-up found complete; an attribute input is     *)
(* the bytes after '=' and blanks, given to one htmlParseAttValue call.    *)
(***************************************************************************)
Init ==
    \E g \in InputGroups : \E i \in g :
        /\ src = i
        /\ in = [buf |-> i.text, cur |-> 1, hasEnc |-> i.declared]
        /\ out = <<>>
        /\ events = <<>>
        /\ called = FALSE
        /\ room = 0
        /\ atts = <<>>
        /\ encoding = Null

Looping == src.ctx = "text" /\ Byte(in, 0) /= LtB /\ in.cur <= Len(in.buf)

ParseReference ==
    /\ Looping
    /\ Byte(in, 0) = AmpB
    /\ LET r == Reference(in) IN in' = r.q /\ out' = out \o r.bytes
    /\ UNCHANGED <<src, events, called, room, atts, encoding>>

ParseCharData ==
    /\ Looping
    /\ Byte(in, 0) /= AmpB
    /\ LET r == CharRun(in, <<>>) IN in' = r.q /\ out' = out \o r.bytes
    /\ UNCHANGED <<src, events, called, room, atts, encoding>>

ParseAttValue ==
    /\ src.ctx = "attr"
    /\ ~called
    /\ LET r == AttValue(in) IN in' = r.q /\ out' = r.bytes
    /\ called' = TRUE
    /\ UNCHANGED <<src, events, room, atts, encoding>>

(* One markup routine on its input: the cursor and events it leaves. *)
Call(ctx, r) ==
    /\ src.ctx = ctx
    /\ ~called
    /\ in' = r.q
    /\ events' = r.ev
    /\ called' = TRUE
    /\ UNCHANGED <<src, out, room>>

CommentCall == Call("comment", ParseComment(in)) /\ UNCHANGED <<atts, encoding>>

PICall == Call("pi", ParsePI(in)) /\ UNCHANGED <<atts, encoding>>

DocTypeCall == Call("doctype", ParseDocTypeDecl(in)) /\ UNCHANGED <<atts, encoding>>

ScriptCall == Call("script", ParseScript(in, src.recovery)) /\ UNCHANGED <<atts, encoding>>

(* htmlParseStartTag: its event, attribute pairs and meta encoding. *)
StartTagCall ==
    LET TagCall(r) == Call("tag", r) /\ atts' = r.atts /\ encoding' = r.enc IN
    TagCall(ParseStartTag(in))

(* One converter call on the input not yet processed, with an output     *)
(* buffer of n bytes; the caller appends what it wrote and resumes at     *)
(* *inlen.  The conversion ends when the input is used up or on -2.        *)
Convert ==
    /\ src.ctx \in Converters
    /\ ~called
    /\ \E n \in OutLens :
          LET rest == SubSeq(in.buf, in.cur, Len(in.buf))
              r    == IF src.ctx = "tohtml" THEN Utf8ToHtml(rest, n)
                      ELSE EncodeEntities(rest, n, src.quote)
          IN  /\ out' = out \o r.out
              /\ in' = Advance(in, r.used)
              /\ room' = n
              /\ called' = (r.ret = -2 \/ r.used = Len(rest))
    /\ UNCHANGED <<src, events, atts, encoding>>

Next == \/ ParseReference \/ ParseCharData \/ ParseAttValue
        \/ CommentCall \/ PICall \/ DocTypeCall \/ ScriptCall \/ StartTagCall
        \/ Convert

Spec == Init /\ [][Next]_vars

(***************************************************************************)
(* What a reference means (spec 4.2, 4.3 and line 59): "&#N;" and "&#xN;" *)
(* (';' optional) are the character N when it is a legal character and   *)
(* nothing otherwise; a known "&name;" is its character; any other '&',    *)
(* with the name after it if there is one, is literal text.  used is the  *)
(* number of input characters the reference takes.                         *)
(***************************************************************************)
RefMeaning(s) ==
    IF Len(s) >= 2 /\ s[2] = HashB
    THEN LET hex  == Len(s) >= 3 /\ s[3] \in {120, 88}
             base == IF hex THEN 16 ELSE 10
             from == IF hex THEN 4 ELSE 3
             n    == CountWhile(s, from, LAMBDA c : RefDigit(c, base) >= 0)
             v    == Number(SubSeq(s, from, from + n - 1), base)
             semi == from + n <= Len(s) /\ s[from + n] = SemiB
         IN  [chars |-> IF IsChar(v) THEN <<v>> ELSE <<>>,
              used  |-> from + n - 1 + (IF semi THEN 1 ELSE 0)]
    ELSE LET n    == IF Len(s) >= 2 /\ NameStartChar(s[2]) THEN CountWhile(s, 2, NameChar) ELSE 0
             name == SubSeq(s, 2, 1 + n)
             semi == 2 + n <= Len(s) /\ s[2 + n] = SemiB
         IN  IF n > 0 /\ semi /\ EntityLookup(name) > 0
             THEN [chars |-> <<EntityLookup(name)>>, used |-> 2 + n]
             ELSE [chars |-> <<AmpB>> \o name, used |-> 1 + n]

(* A text run: text up to '<' with its references; a NUL reads as a space *)
(* and other illegal characters are dropped.                               *)
RECURSIVE Resolve(_)
Resolve(s) ==
    CASE s = <<>> \/ s[1] = LtB -> <<>>
      [] s[1] = AmpB -> LET r == RefMeaning(s) IN r.chars \o Resolve(Drop(s, r.used))
      [] OTHER ->
             (CASE s[1] = 0 -> <<SpaceB>> [] IsChar(s[1]) -> <<s[1]>> [] OTHER -> <<>>)
             \o Resolve(Tail(s))

(* An attribute value: its characters up to one of Ends, with references  *)
(* expanded; rest is what follows it.                                      *)
RECURSIVE AttrText(_, _)
AttrText(s, Ends) ==
    CASE s = <<>> \/ s[1] \in Ends -> [value |-> <<>>, rest |-> s]
      [] s[1] = AmpB ->
             LET r == RefMeaning(s) IN
             [AttrText(Drop(s, r.used), Ends) EXCEPT !.value = r.chars \o @]
      [] OTHER -> [AttrText(Tail(s), Ends) EXCEPT !.value = <<s[1]>> \o @]

(* Quoted up to the same quote, which is consumed; unquoted up to a blank *)
(* or '>'.                                                                 *)
AttValueMeaning(s) ==
    IF s /= <<>> /\ s[1] \in {34, 39}
    THEN [AttrText(Tail(s), {s[1]}) EXCEPT !.rest = IF @ /= <<>> THEN Tail(@) ELSE @]
    ELSE AttrText(s, {32, 9, 10, 13, 62})

(***************************************************************************)
(* A start tag (spec 4.2 and 4.4 step 5), over the characters after '<': *)
(* a name of letters, digits, ':', '-', '_' and '.' (lowercased), then    *)
(* attributes, each a name, blanks, and an optional '=' with blanks and a *)
(* value; what is not an attribute is dropped up to a blank or the end of *)
(* the tag; the first occurrence of a name wins.                           *)
(***************************************************************************)
TagNameLen(s) ==
    IF s /= <<>> /\ (AsciiLetter(s[1]) \/ s[1] \in {95, 58, 46})
    THEN CountWhile(s, 1, LAMBDA c : AsciiLetter(c) \/ IsDigit(c) \/ c \in {58, 45, 95, 46})
    ELSE 0

TagEnd(s) == s = <<>> \/ s[1] \in {0, 62} \/ (s[1] = 47 /\ At(s, 2) = 62)

RECURSIVE BogusLen(_)
BogusLen(s) == IF TagEnd(s) \/ Blank(s[1]) THEN 0 ELSE 1 + BogusLen(Tail(s))

LowerName(s, n) == [i \in 1..n |-> Lower(s[i])]

RECURSIVE AllAttrs(_)
AllAttrs(s) ==
    LET Prepend(name, value, r) == [r EXCEPT !.list = <<[name |-> name, value |-> value]>> \o @]
        WithValue(t, n, v) == Prepend(LowerName(t, n), Some(v.value), AllAttrs(v.rest))
        Named(t, n, after) ==
            IF At(after, 1) = 61 THEN WithValue(t, n, AttValueMeaning(SkipB(Tail(after))))
            ELSE Prepend(LowerName(t, n), Null, AllAttrs(after))
        Attr(t, n) ==
            CASE TagEnd(t) -> [list |-> <<>>, rest |-> t]
              [] n = 0 -> AllAttrs(Drop(t, BogusLen(t)))
              [] OTHER -> Named(t, n, SkipB(Drop(t, n)))
    IN  Attr(SkipB(s), TagNameLen(SkipB(s)))

RECURSIVE FirstOccurrences(_)
FirstOccurrences(l) ==
    IF l = <<>> THEN <<>>
    ELSE <<Head(l)>> \o FirstOccurrences(SelectSeq(Tail(l), LAMBDA a : a.name /= Head(l).name))

TagMeaning(s) ==
    LET n == TagNameLen(s)
        Tag(a) == [ev |-> <<Ev("start", Some(LowerName(s, n)), Null, Null)>>,
                   atts |-> FirstOccurrences(a.list), rest |-> a.rest]
    IN  IF n = 0
        THEN [ev |-> <<>>, atts |-> <<>>, rest |-> Drop(s, CountWhile(s, 1, LAMBDA c : c \notin {0, 62}))]
        ELSE Tag(AllAttrs(Drop(s, n)))

(* The encoding a meta tag declares: its charset attribute, or else, with *)
(* http-equiv Content-Type, what follows "charset", blanks and '=' in its *)
(* content; it is used only when no encoding was declared before.          *)
ValueOf(A, w) ==
    LET K == {k \in DOMAIN A : A[k].name = w /\ A[k].value /= Null}
    IN  IF K = {} THEN Null ELSE A[Min(K)].value

ContentCharset(v) ==
    LET k     == First({j \in 1..Len(v) : \A i \in 1..7 : Lower(At(v, j + i - 1)) = CharsetW[i]})
        after == SkipB(Drop(v, k + 6))
    IN  IF k > 0 /\ At(after, 1) = 61 THEN Some(Tail(after)) ELSE Null

MetaMeaning(s, declared) ==
    LET Declared(m) ==
            LET charset == ValueOf(m.atts, CharsetW)
                equiv   == ValueOf(m.atts, HttpEquivW)
                content == ValueOf(m.atts, ContentW)
                http    == equiv /= Null /\ CaseEq(equiv[1], ContentTypeW)
            IN  CASE declared \/ m.ev = <<>> \/ m.ev[1].a /= Some(<<109, 101, 116, 97>>) -> Null
                  [] charset /= Null -> charset
                  [] http /\ content /= Null -> ContentCharset(content[1])
                  [] OTHER -> Null
    IN  Declared(TagMeaning(s))

(* The attribute pairs as characters, values read as C strings. *)
AttsChars(A) ==
    [k \in DOMAIN A |-> [name  |-> A[k].name,
                         value |-> IF A[k].value = Null THEN Null
                                   ELSE Some(Utf8Scalars(CString(A[k].value[1])))]]

(* The characters left in the input. *)

RestScalars(q) ==
    LET r == SubSeq(q.buf, q.cur, Len(q.buf)) IN
    IF q.hasEnc THEN Utf8Scalars(r) ELSE r

(***************************************************************************)
(* Properties.                                                             *)
(***************************************************************************)
TypeOK ==
    /\ src.declared \in BOOLEAN
    /\ src.ctx \in {"text", "attr"} \cup Markup \cup Converters
    /\ src.recovery \in BOOLEAN
    /\ room \in OutLens \cup {0}
    /\ called \in BOOLEAN
    /\ \A k \in DOMAIN src.text : src.text[k] \in Bytes
    /\ \A k \in DOMAIN in.buf : in.buf[k] \in Bytes
    /\ in.cur \in 1..(Len(in.buf) + 1)
    /\ in.hasEnc \in BOOLEAN
    /\ \A k \in DOMAIN out : out[k] \in Bytes
    /\ \A k \in DOMAIN atts : atts[k].value = Null \/ Len(atts[k].value) = 1
    /\ encoding = Null \/ Len(encoding) = 1
    /\ \A k \in DOMAIN events :
           /\ events[k].kind \in {"comment", "pi", "doctype", "cdata", "start"}
           /\ \A f \in {"a", "b", "c"} : Len(events[k][f]) <= 1

(* When the text loop ends, the consumer has received, as UTF-8, exactly  *)
(* the characters the run means: htmlParseCharData's decoding (with the   *)
(* switch to Latin-1 on the first non-ASCII byte of an undeclared input),  *)
(* htmlParseCharRef's digit loop and clamp, htmlParseEntityRef's name and  *)
(* ';' handling, and the UTF-8 encoder of htmlParseReference together give *)
(* what the reference resolution gives.                                    *)
TextMeaning == src.ctx = "text" /\ ~Looping => Utf8Scalars(out) = Resolve(InputScalars(src))

(* Every pass of the text loop makes progress: it consumes input, or      *)
(* switches the input to Latin-1 (which happens once).  A pass that did    *)
(* neither would spin for ever on the same byte.                           *)
LoopAdvances ==
    [][src.ctx = "text" => in'.cur > in.cur \/ (in'.hasEnc /\ ~in.hasEnc)]_vars

(* After htmlParseAttValue, the value a consumer reads (up to its first   *)
(* NUL) is the attribute value the input means, and the input is left     *)
(* just after it: past the closing quote, or at the blank or '>' that     *)
(* ends an unquoted value.  Covers the quote and stop handling of         *)
(* htmlParseHTMLAttribute, its encoder, the references in values and the  *)
(* encoding switch inside a value.                                        *)
AttrMeaning ==
    src.ctx = "attr" /\ called =>
        LET m == AttValueMeaning(InputScalars(src)) IN
        /\ Utf8Scalars(CString(out)) = m.value
        /\ RestScalars(in) = m.rest

(* The events of a markup call with their strings read as characters, and *)
(* what the reference definition says the call should give, with the      *)
(* input left where the construct ends.                                    *)
EvChars(e) ==
    [e EXCEPT !.a = [i \in DOMAIN @ |-> Utf8Scalars(@[i])],
              !.b = [i \in DOMAIN @ |-> Utf8Scalars(@[i])],
              !.c = [i \in DOMAIN @ |-> Utf8Scalars(@[i])]]

CallAgrees(ctx, m) ==
    src.ctx = ctx /\ called =>
        /\ [k \in DOMAIN events |-> EvChars(events[k])] = m.ev
        /\ RestScalars(in) = m.rest

(* htmlParseComment reports exactly the text between "<!--" and the first *)
(* "-->" or "--!>" (with "<!-->" and "<!--->" empty comments) and leaves  *)
(* the input after the close; an unclosed comment gives no event.  Covers  *)
(* the three-character window of the loop, its NUL and encoding handling. *)
CommentAgrees == CallAgrees("comment", CommentMeaning(Drop(InputScalars(src), 4)))

(* htmlParsePI reports the target and the data after the blanks up to     *)
(* '>', or no data when '>' follows the target, and leaves the input after *)
(* '>'.                                                                    *)
PIAgrees == CallAgrees("pi", PIMeaning(Drop(InputScalars(src), 2)))

(* htmlParseDocTypeDecl reports the name, the public and system literals  *)
(* (NULL when absent, unclosed or holding a character they do not allow)  *)
(* and leaves the input after the '>' that ends the declaration.          *)
DocTypeAgrees == CallAgrees("doctype", DocTypeMeaning(Drop(InputScalars(src), 9)))

(* htmlParseScript reports the content up to the end tag that closes it   *)
(* as one cdataBlock, and leaves the input on that end tag.                *)
ScriptAgrees == CallAgrees("script", ScriptMeaning(InputScalars(src), src.recovery))

(* Resumed over output buffers of any of the sizes, UTF8ToHtml turns a    *)
(* UTF-8 text with no markup into ASCII that, read back as character      *)
(* data, means the same characters: *inlen must count only the characters *)
(* written, and every character must become itself or its entity.         *)
ToHtmlMeaning ==
    src.ctx = "tohtml" /\ called =>
        /\ \A k \in DOMAIN out : out[k] < 128
        /\ Resolve(out) = Utf8Scalars(src.text)

(* What htmlEncodeEntities writes, resumed over buffers of any of the     *)
(* sizes and put between its quote characters, is read back by            *)
(* htmlParseAttValue as the original text, up to the closing quote.  This *)
(* composes the escaping of '&', '<', '>' and the quote with the          *)
(* attribute parser's reference expansion.                                 *)
RoundTrip ==
    src.ctx = "encode" /\ called =>
        LET v == AttValue([buf    |-> <<src.quote>> \o out \o <<src.quote>>,
                           cur    |-> 1,
                           hasEnc |-> TRUE])
        IN  /\ Utf8Scalars(CString(v.bytes)) = Utf8Scalars(src.text)
            /\ v.q.cur = Len(out) + 3

(* htmlParseStartTag hands startElement the lowercased tag name and the   *)
(* attributes of the tag in order, each name with its value (NULL without *)
(* '='), a repeated name keeping its first value (spec 4.2), bogus        *)
(* attribute text dropped, and leaves the input on the '>' or "/>" that   *)
(* ends the tag.  Covers htmlParseHTMLName, htmlParseAttribute with its    *)
(* blanks around '=', the redefinition check and the bogus-attribute skip. *)
TagAgrees ==
    src.ctx = "tag" /\ called =>
        LET Agrees(m) ==
                /\ [k \in DOMAIN events |-> EvChars(events[k])] = m.ev
                /\ AttsChars(atts) = m.atts
                /\ RestScalars(in) = m.rest
        IN  Agrees(TagMeaning(Drop(InputScalars(src), 1)))

(* A meta start tag switches an input with no declared encoding to the    *)
(* encoding of its charset attribute, or else to the charset in the       *)
(* content of an http-equiv Content-Type tag, and never switches a        *)
(* declared one (spec 4.4 step 5).  Covers the order in which             *)
(* htmlCheckMeta hands names to xmlSetDeclaredEncoding, the case-blind    *)
(* comparisons and htmlCheckEncoding's search for "charset" and '='.       *)
MetaEncoding ==
    src.ctx = "tag" /\ called =>
        LET Switched(e) == encoding = IF e = Null THEN Null ELSE Some(e[1]) IN
        Switched(MetaMeaning(Drop(InputScalars(src), 1), src.declared))

(* A converter call never writes more than the *outlen it was given. *)
OutputFits ==
    [][src.ctx \in Converters => Len(out') - Len(out) <= room']_vars
=============================================================================

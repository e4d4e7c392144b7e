---------------------------- MODULE HtmlTokenizer ---------------------------
(***************************************************************************)
(* The character-level scanners of HTMLparser.c over an input buffer, as  *)
(* pure operators on a parser record p with the fields                     *)
(*   buf        the bytes in the input buffer (in->base .. in->end);       *)
(*   cur        the index in buf of in->cur (Len(buf) + 1 at the end);     *)
(*   instate    ctxt->instate;                                             *)
(*   checkIndex ctxt->checkIndex, the resume offset of the look-ups;      *)
(*   ctxt       the tree-construction record of HtmlTreeOps.               *)
(* The input alphabet is abstract: one symbol per byte, with every element *)
(* name a single letter (NameOf), "1" a character that is neither a       *)
(* letter, a blank nor markup (a digit), " " a blank, and the markup bytes *)
(* < / > ! -.  Quotes, '=', '&', '?' and DOCTYPE are not in the alphabet: *)
(* attributes, references, PIs and doctypes are not modelled.  Reading     *)
(* past the end of the buffer yields the NUL terminator Nul.               *)
(***************************************************************************)
EXTENDS Naturals, Integers, Sequences, SequencesExt, FiniteSets, HtmlTreeOps

(* One letter per element name the tables know, and "X" for an unknown one. *)
NameOf == [H |-> "html", E |-> "head", B |-> "body", T |-> "title",
           S |-> "script", P |-> "p", D |-> "div", X |-> "x"]

NameSyms == DOMAIN NameOf

Alphabet == {"<", "/", ">", "!", "-", "1", " "} \cup NameSyms

Nul == "0"

(* CUR, NXT(k) *)
At(p, k) == IF p.cur + k <= Len(p.buf) THEN p.buf[p.cur + k] ELSE Nul

(* in->end - in->cur *)
Avail(p) == Len(p.buf) - p.cur + 1

(* SKIP(n) / NEXT *)
Skip(p, n) == [p EXCEPT !.cur = @ + n]

(* The length of the run of symbols of S starting at offset k. *)
RECURSIVE RunLen(_, _, _)
RunLen(p, k, S) == IF At(p, k) \in S THEN 1 + RunLen(p, k + 1, S) ELSE 0

(* The offset of the first '>' or NUL at or after offset k. *)
RECURSIVE UntilGt(_, _)
UntilGt(p, k) == IF At(p, k) \in {">", Nul} THEN k ELSE UntilGt(p, k + 1)

(* SKIP_BLANKS *)
SkipBlanks(p) == Skip(p, RunLen(p, 0, {" "}))

(***************************************************************************)
(* htmlParseHTMLName: a letter, then letters, digits and '-'.  A name of  *)
(* one letter is that element; a longer one is unknown to the tables.      *)
(***************************************************************************)
HTMLNameLen(p) ==
    IF At(p, 0) \in NameSyms THEN RunLen(p, 0, NameSyms \cup {"1", "-"}) ELSE 0

HTMLName(p) == IF HTMLNameLen(p) = 1 THEN NameOf[At(p, 0)] ELSE "x"

(***************************************************************************)
(* htmlParseStartTag at the buffer level: '<', the name (a missing name    *)
(* dumps the bogus tag up to '>' and fails), the tree effects of           *)
(* HtmlTreeOps!htmlParseStartTag, then the attribute loop, which without   *)
(* quotes or '=' in the alphabet stops at the first '>', "/>" or NUL.      *)
(* Returns the record and whether it failed (-1).                          *)
(***************************************************************************)
RECURSIVE AttrEnd(_, _)
AttrEnd(p, k) ==
    IF At(p, k) \in {">", Nul} \/ (At(p, k) = "/" /\ At(p, k + 1) = ">")
    THEN k ELSE AttrEnd(p, k + 1)

ParseStartTag(p) ==
    LET q == Skip(p, 1)
        n == HTMLNameLen(q)
    IN  IF n = 0
        THEN [p |-> Skip(q, UntilGt(q, 0)), failed |-> TRUE]
        ELSE LET r == SkipBlanks(Skip(q, n))
             IN  [p |-> [Skip(r, AttrEnd(r, 0)) EXCEPT
                           !.ctxt = htmlParseStartTag(p.ctxt, HTMLName(q))],
                  failed |-> FALSE]

(* What follows htmlParseStartTag in both drivers, on ctxt->name: "/>",   *)
(* '>' (ending an empty element) or no '>' at all (HtmlTreeOps!StartTagTail). *)
ElementTail(p) ==
    CASE At(p, 0) = "/" /\ At(p, 1) = ">" ->
             [Skip(p, 2) EXCEPT !.ctxt = StartTagTail(p.ctxt, "selfclose")]
      [] At(p, 0) = ">" ->
             [Skip(p, 1) EXCEPT !.ctxt = StartTagTail(p.ctxt, "gt")]
      [] OTHER ->
             [p EXCEPT !.ctxt = StartTagTail(p.ctxt, "none")]

(***************************************************************************)
(* htmlParseEndTag at the buffer level: "</", the name (none: return with  *)
(* "</" consumed), blanks, then up to and including the next '>'.          *)
(***************************************************************************)
ParseEndTag(p) ==
    LET q == Skip(p, 2)
        n == HTMLNameLen(q)
        r == SkipBlanks(Skip(q, n))
        k == UntilGt(r, 0)
    IN  IF n = 0 THEN q
        ELSE [Skip(r, IF At(r, k) = ">" THEN k + 1 ELSE k) EXCEPT
                 !.ctxt = htmlParseEndTag(p.ctxt, HTMLName(q))]

(***************************************************************************)
(* htmlParseCharData: the run up to '<' or NUL.  A blank run is reported  *)
(* as is (areBlanks, or keepBlanks); any other run gets the paragraph      *)
(* check first.                                                            *)
(***************************************************************************)
ParseCharData(p) ==
    LET n     == RunLen(p, 0, Alphabet \ {"<"})
        blank == \A i \in 0..(n - 1) : At(p, i) = " "
    IN  IF n = 0 THEN p
        ELSE [Skip(p, n) EXCEPT
                 !.ctxt = IF blank THEN SaxWhitespace(p.ctxt)
                          ELSE SaxCharacters(htmlCheckParagraph(p.ctxt))]

(* htmlParseScript (no recovery option): raw text up to "</" followed by  *)
(* a letter, or the end of the buffer.                                    *)
RECURSIVE ScriptLen(_, _)
ScriptLen(p, k) ==
    IF At(p, k) = Nul \/ (At(p, k) = "<" /\ At(p, k + 1) = "/" /\ At(p, k + 2) \in NameSyms)
    THEN k ELSE ScriptLen(p, k + 1)

ParseScript(p) ==
    LET n == ScriptLen(p, 0) IN
    IF n = 0 THEN p ELSE [Skip(p, n) EXCEPT !.ctxt = SaxCharacters(p.ctxt)]

(***************************************************************************)
(* htmlParseComment, called on "<!--".  q, r, cur slide over the body;    *)
(* "-->" or "--!>" ends it, and so do "<!-->" and "<!--->".  The offset of *)
(* the closing '>', or -1 when the buffer ends first.                      *)
(***************************************************************************)
RECURSIVE CommentScan(_, _)
CommentScan(p, i) ==
    CASE At(p, i) = Nul -> -1
      [] At(p, i - 2) = "-" /\ At(p, i - 1) = "-" /\ At(p, i) = ">" -> i
      [] At(p, i - 2) = "-" /\ At(p, i - 1) = "-" /\ At(p, i) = "!"
           /\ At(p, i + 1) = ">" -> i + 1
      [] OTHER -> CommentScan(p, i + 1)

CommentEnd(p) ==
    CASE At(p, 4) = Nul -> -1
      [] At(p, 4) = ">" -> 4
      [] At(p, 5) = Nul -> -1
      [] At(p, 4) = "-" /\ At(p, 5) = ">" -> 5
      [] OTHER -> CommentScan(p, 6)

(* An unfinished comment consumes the buffer and leaves ctxt->instate at  *)
(* XML_PARSER_COMMENT.                                                     *)
ParseComment(p) ==
    LET e == CommentEnd(p) IN
    IF e = -1
    THEN [p EXCEPT !.cur = Len(p.buf) + 1, !.instate = "COMMENT"]
    ELSE [Skip(p, e + 1) EXCEPT !.ctxt = SaxComment(p.ctxt)]

(* htmlSkipBogusComment: up to and including the next '>'. *)
SkipBogusComment(p) ==
    LET k == UntilGt(p, 0) IN Skip(p, IF At(p, k) = ">" THEN k + 1 ELSE k)

(***************************************************************************)
(* htmlParseLookupSequence(ctxt, first, next, 0, _): search from the      *)
(* saved checkIndex for first (followed by next unless next is Nul); the   *)
(* last byte is not a candidate when a second one is needed.  Found: its   *)
(* offset, checkIndex reset; not found: -1, checkIndex saved where the     *)
(* scan stopped.                                                           *)
(***************************************************************************)
(* Mutant: a successful look-up keeps the saved checkIndex. *)
LookupSequence_noReset(p, first, next) ==
    LET base == p.checkIndex
        len  == Avail(p) - (IF next = Nul THEN 0 ELSE 1)
        hits == {b \in base..(len - 1) :
                    At(p, b) = first /\ (next = Nul \/ At(p, b + 1) = next)}
    IN  IF hits /= {}
        THEN [idx |-> Min(hits), p |-> p]
        ELSE [idx |-> -1,
              p |-> [p EXCEPT !.checkIndex = IF base < len THEN len ELSE base]]

LookupSequence(p, first, next) ==
    LET base == p.checkIndex
        len  == Avail(p) - (IF next = Nul THEN 0 ELSE 1)
        hits == {b \in base..(len - 1) :
                    At(p, b) = first /\ (next = Nul \/ At(p, b + 1) = next)}
    IN  IF hits /= {}
        THEN [idx |-> Min(hits), p |-> [p EXCEPT !.checkIndex = 0]]
        ELSE [idx |-> -1,
              p |-> [p EXCEPT !.checkIndex = IF base < len THEN len ELSE base]]

(* htmlParseLookupCommentEnd: "--" followed by '>' or "!>". *)
RECURSIVE LookupCommentEnd(_)
LookupCommentEnd(p) ==
    LET l    == LookupSequence(p, "-", "-")
        mark == l.idx
        q    == l.p
        off  == IF At(q, mark + 2) = "!" THEN 3 ELSE 2
    IN  CASE mark < 0 -> l
          [] At(q, mark + 2) = ">" \/ (At(q, mark + 2) = "!" /\ At(q, mark + 3) = ">") ->
                 [idx |-> mark, p |-> [q EXCEPT !.checkIndex = 0]]
          [] mark + off >= Avail(q) ->
                 [idx |-> -1, p |-> [q EXCEPT !.checkIndex = mark]]
          [] OTHER -> LookupCommentEnd([q EXCEPT !.checkIndex = mark + 1])
=============================================================================

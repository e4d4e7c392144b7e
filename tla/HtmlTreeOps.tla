---------------------------- MODULE HtmlTreeOps -----------------------------
(***************************************************************************)
(* The tree-construction core of libxml2's HTML parser (HTMLparser.c) as  *)
(* pure operators over the parser context.  Each operator is one C        *)
(* function: it takes the context record and returns the record the C     *)
(* function leaves behind, so that the content loop (HtmlContent) and the *)
(* push parser compose them in the order the code calls them.             *)
(*                                                                         *)
(* The context record keeps the fields of htmlParserCtxt these functions  *)
(* touch:                                                                  *)
(*   nameTab  the open-element name stack (ctxt->nameTab[0..nameNr-1]);   *)
(*            ctxt->name is its last element;                             *)
(*   html     ctxt->html: 1 initially, 3 once a head was pushed, 10 once a *)
(*            body was pushed;                                             *)
(*   depth    ctxt->depth: misplaced html/head/body start tags whose end  *)
(*            tag must be swallowed;                                       *)
(*   options  the bits of ctxt->options the model reads ("NOIMPLIED").    *)
(* and the view of a SAX consumer (the Sink) of the events it received:   *)
(*   sinkOpen the elements the consumer has seen started and not ended;   *)
(*   sinkBad  TRUE once an endElement did not name the consumer's         *)
(*            innermost open element;                                      *)
(*   log      the events in order, when KeepLog holds: <<"start", n>>,     *)
(*            <<"end", n>>, <<"text", n>> and <<"ws", n>> (characters,     *)
(*            non-blank or blank, inside the consumer's innermost element  *)
(*            n; adjacent equal ones merge, as a consumer concatenates     *)
(*            them), <<"comment", NoName>>, <<"startdoc", NoName>> and     *)
(*            <<"enddoc", NoName>>.                                        *)
(***************************************************************************)
EXTENDS Naturals, Sequences, SequencesExt, FiniteSets, HtmlTables

CONSTANT
    KeepLog     \* record the event log (only runs comparing event streams)

ASSUME KeepLog \in BOOLEAN

(* htmlInitParserCtxt: after the memset every option is clear. *)
InitCtxt ==
    [nameTab |-> <<>>, html |-> 1, depth |-> 0, options |-> {},
     sinkOpen |-> <<>>, sinkBad |-> FALSE, log |-> <<>>]

(* ctxt->name *)
CurName(s) == IF s.nameTab = <<>> THEN NoName ELSE Last(s.nameTab)

(***************************************************************************)
(* SAX callbacks, as the consumer sees them.                               *)
(***************************************************************************)
SinkCur(s) == IF s.sinkOpen = <<>> THEN NoName ELSE Last(s.sinkOpen)

Log(s, kind, n) ==
    LET e == <<kind, n>> IN
    IF ~KeepLog \/ (kind \in {"text", "ws"} /\ s.log /= <<>> /\ Last(s.log) = e)
    THEN s ELSE [s EXCEPT !.log = Append(@, e)]

SaxStartElement(s, n) == Log([s EXCEPT !.sinkOpen = Append(@, n)], "start", n)

SaxEndElement(s, n) ==
    Log(IF s.sinkOpen /= <<>> /\ Last(s.sinkOpen) = n
        THEN [s EXCEPT !.sinkOpen = Front(@)]
        ELSE [s EXCEPT !.sinkBad = TRUE], "end", n)

SaxCharacters(s) ==
    Log(s, "text", SinkCur(s))

(* characters() of blank text, which no paragraph check precedes. *)
SaxWhitespace(s) == Log(s, "ws", SinkCur(s))

SaxComment(s) == Log(s, "comment", NoName)
SaxStartDocument(s) == Log(s, "startdoc", NoName)
SaxEndDocument(s) == Log(s, "enddoc", NoName)

(***************************************************************************)
(* Context lifecycle.  htmlCtxtUseOptions ORs each recognised option into *)
(* ctxt->options and never clears one (only recovery, keepBlanks and      *)
(* pedantic are also set to 0 when their bit is absent); o is the set of  *)
(* option bits passed.  htmlCtxtReset empties the name stack and resets   *)
(* html and depth, and leaves ctxt->options alone; the consumer's tree is *)
(* freed with ctxt->myDoc.                                                 *)
(***************************************************************************)
htmlCtxtUseOptions(s, o) == [s EXCEPT !.options = @ \cup o]

htmlCtxtReset(s) ==
    [s EXCEPT !.nameTab = <<>>, !.html = 1, !.depth = 0, !.sinkOpen = <<>>]

(* htmlCtxtParseDocument: ctxt->html = 1, then htmlParseDocument, whose   *)
(* first event is startDocument.                                           *)
htmlCtxtParseDocument(s) == SaxStartDocument([s EXCEPT !.html = 1])

(***************************************************************************)
(* Name stack.                                                             *)
(***************************************************************************)
(* Mutant: the head level stored one short. *)
htmlnamePush_headLevel(s, v) ==
    [s EXCEPT !.nameTab = Append(@, v),
              !.html = CASE v = "head" /\ @ < 3  -> 2
                         [] v = "body" /\ @ < 10 -> 10
                         [] OTHER                -> @]

htmlnamePush(s, v) ==
    [s EXCEPT !.nameTab = Append(@, v),
              !.html = CASE v = "head" /\ @ < 3  -> 3
                         [] v = "body" /\ @ < 10 -> 10
                         [] OTHER                -> @]

htmlnamePop(s) ==
    IF s.nameTab = <<>> THEN s ELSE [s EXCEPT !.nameTab = Front(@)]

(* The push-then-startElement pair every element opening performs. *)
OpenElement(s, v) == SaxStartElement(htmlnamePush(s, v), v)

(* The endElement-then-pop pair every element closing performs. *)
CloseCurrent(s) == htmlnamePop(SaxEndElement(s, CurName(s)))

(***************************************************************************)
(* htmlAutoClose: while the start tag newtag closes ctxt->name, close it.  *)
(***************************************************************************)
RECURSIVE htmlAutoClose(_, _)
htmlAutoClose(s, newtag) ==
    IF s.nameTab /= <<>> /\ CheckAutoClose(newtag, CurName(s))
    THEN htmlAutoClose(CloseCurrent(s), newtag)
    ELSE s

(* htmlAutoCloseOnEnd: close every open element, innermost first. *)
RECURSIVE htmlAutoCloseOnEnd(_)
htmlAutoCloseOnEnd(s) ==
    IF s.nameTab = <<>> THEN s ELSE htmlAutoCloseOnEnd(CloseCurrent(s))

(* Close elements until newtag is ctxt->name (the while loop of           *)
(* htmlAutoCloseOnClose; newtag is on the stack when it runs).            *)
RECURSIVE CloseUntil(_, _)
CloseUntil(s, newtag) ==
    IF CurName(s) = newtag \/ s.nameTab = <<>> THEN s
    ELSE CloseUntil(CloseCurrent(s), newtag)

(***************************************************************************)
(* htmlAutoCloseOnClose: scanning down from the top, an element of higher  *)
(* end priority than newtag met before newtag's topmost occurrence blocks  *)
(* the close; otherwise every element above that occurrence is closed.     *)
(***************************************************************************)
htmlAutoCloseOnClose(s, newtag) ==
    LET tab   == s.nameTab
        match == {i \in DOMAIN tab : tab[i] = newtag}
        i     == IF match = {} THEN 0 ELSE Max(match)
        blocked ==
            \E j \in (i + 1)..Len(tab) :
                GetEndPriority(tab[j]) > GetEndPriority(newtag)
    IN  IF match = {} \/ blocked THEN s ELSE CloseUntil(s, newtag)

(***************************************************************************)
(* htmlCheckImplied: open the html, head or body elements the start tag    *)
(* newtag requires and that are missing.                                   *)
(***************************************************************************)
(* Mutant: html implied only while no head or body was ever pushed. *)
htmlCheckImplied_htmlOnce(s, newtag) ==
    IF "NOIMPLIED" \in s.options \/ newtag = "html" THEN s
    ELSE
      LET s1 == IF s.nameTab = <<>> /\ s.html = 1 THEN OpenElement(s, "html") ELSE s
      IN  CASE newtag \in {"body", "head"} -> s1
            [] Len(s1.nameTab) <= 1 /\ newtag \in HeadElements ->
                 IF s1.html >= 3 THEN s1 ELSE OpenElement(s1, "head")
            [] newtag \notin FrameElements ->
                 IF \/ s1.html >= 10
                    \/ {"body", "head"} \cap ToSet(s1.nameTab) /= {}
                 THEN s1 ELSE OpenElement(s1, "body")
            [] OTHER -> s1

htmlCheckImplied(s, newtag) ==
    IF "NOIMPLIED" \in s.options \/ newtag = "html" THEN s
    ELSE
      LET s1 == IF s.nameTab = <<>> THEN OpenElement(s, "html") ELSE s
      IN  CASE newtag \in {"body", "head"} -> s1
            [] Len(s1.nameTab) <= 1 /\ newtag \in HeadElements ->
                 IF s1.html >= 3 THEN s1 ELSE OpenElement(s1, "head")
            [] newtag \notin FrameElements ->
                 IF \/ s1.html >= 10
                    \/ {"body", "head"} \cap ToSet(s1.nameTab) /= {}
                 THEN s1 ELSE OpenElement(s1, "body")
            [] OTHER -> s1

(* htmlCheckParagraph: text with no open element, or directly in html or  *)
(* head, first opens a p (closing and implying as a <p> start tag would). *)
htmlCheckParagraph(s) ==
    IF CurName(s) \in {NoName} \cup NoContentElements
    THEN OpenElement(htmlCheckImplied(htmlAutoClose(s, "p"), "p"), "p")
    ELSE s

(***************************************************************************)
(* htmlParseStartTag, attributes abstracted away.  A misplaced html (not   *)
(* at the root), head (not at depth 1) or body (one already open) is       *)
(* discarded, and ctxt->depth counts it (once per open body for a body).   *)
(***************************************************************************)
(* Mutant: the misplaced <html> check dropped. *)
Misplaced_noHtml(s, name) ==
    (IF name = "head" /\ Len(s.nameTab) /= 1 THEN 1 ELSE 0)
  + (IF name = "body"
     THEN Cardinality({i \in DOMAIN s.nameTab : s.nameTab[i] = "body"})
     ELSE 0)

Misplaced(s, name) ==
    (IF name = "html" /\ Len(s.nameTab) > 0 THEN 1 ELSE 0)
  + (IF name = "head" /\ Len(s.nameTab) /= 1 THEN 1 ELSE 0)
  + (IF name = "body"
     THEN Cardinality({i \in DOMAIN s.nameTab : s.nameTab[i] = "body"})
     ELSE 0)

htmlParseStartTag(s, name) ==
    LET s1 == htmlCheckImplied(htmlAutoClose(s, name), name)
        d  == Misplaced(s1, name)
    IN  IF d > 0 THEN [s1 EXCEPT !.depth = @ + d] ELSE OpenElement(s1, name)

(***************************************************************************)
(* What the callers of htmlParseStartTag (htmlParseElementInternal and the *)
(* XML_PARSER_START_TAG case of htmlParseTryOrFinish) do after it, given   *)
(* how the tag ended: close is "gt" ('>'), "selfclose" ('/>') or "none"    *)
(* (end of input or a NUL byte before '>').  They act on ctxt->name, which *)
(* is the new element only when it was not discarded.                      *)
(***************************************************************************)
(* Mutant: an empty element popped without its endElement. *)
StartTagTail_emptyNoEvent(s, close) ==
    LET cur == CurName(s) IN
    CASE cur = NoName                          -> s
      [] close = "selfclose"                   -> CloseCurrent(s)
      [] close = "none"                        -> htmlnamePop(s)
      [] close = "gt" /\ cur \in EmptyElements -> htmlnamePop(s)
      [] OTHER                                 -> s

StartTagTail(s, close) ==
    LET cur == CurName(s) IN
    CASE cur = NoName                          -> s
      [] close = "selfclose"                   -> CloseCurrent(s)
      [] close = "none"                        -> htmlnamePop(s)
      [] close = "gt" /\ cur \in EmptyElements -> CloseCurrent(s)
      [] OTHER                                 -> s

ParseStartTagToken(s, name, close) ==
    StartTagTail(htmlParseStartTag(s, name), close)

(***************************************************************************)
(* htmlParseEndTag.                                                        *)
(***************************************************************************)
(* Its return value: 1 when the end tag popped an element of its name.   *)
htmlParseEndTagRet(s, name) ==
    /\ ~(s.depth > 0 /\ name \in {"html", "body", "head"})
    /\ name \in ToSet(s.nameTab)
    /\ CurName(htmlAutoCloseOnClose(s, name)) = name

htmlParseEndTag(s, name) ==
    IF s.depth > 0 /\ name \in {"html", "body", "head"}
    THEN [s EXCEPT !.depth = @ - 1]
    ELSE IF name \notin ToSet(s.nameTab) THEN s
    ELSE LET s1 == htmlAutoCloseOnClose(s, name)
         IN  IF CurName(s1) = name THEN CloseCurrent(s1) ELSE s1

(***************************************************************************)
(* Character data (htmlParseCharData, htmlParseReference): non-blank text *)
(* first gets a paragraph if needed.                                       *)
(***************************************************************************)
ParseText(s) == SaxCharacters(htmlCheckParagraph(s))

(* htmlParseScript: the content of a script or style element is passed   *)
(* on as characters (cdataBlock), with no paragraph check.                *)
ParseScriptData(s) == SaxCharacters(s)

(* A '<' followed by no name, '/', '!' or '?' is passed on as the text   *)
(* "<" with no paragraph check.                                            *)
ParseStrayLt(s) == SaxCharacters(s)
=============================================================================

---------------------------- MODULE HtmlContent -----------------------------
(***************************************************************************)
(* The pull parser of libxml2's HTML parser (HTMLparser.c) over a token   *)
(* stream: htmlParseDocument's prolog (comments, PIs and one DOCTYPE      *)
(* before the content) and its content loop, htmlParseContentInternal.    *)
(* Each step is one iteration that consumes a token, and the tree-        *)
(* construction operators of HtmlTreeOps give its effect.  The input is   *)
(* any sequence of at most MaxTokens tokens over the names in Tags and    *)
(* the kinds in TextKinds and MarkupKinds, followed by the end of input.  *)
(* Around it, the context's life: htmlReadDoc parses the first document   *)
(* on a new context, and at the end of a document the caller may parse    *)
(* another on the same one (htmlCtxtReadDoc, htmlCtxtParseDocument), up to *)
(* MaxDocs documents.                                                      *)
(***************************************************************************)
EXTENDS Naturals, Sequences, SequencesExt, FiniteSets, HtmlTreeOps

CONSTANTS
    Tags,       \* element names that occur in start and end tags
    CloseKinds, \* how a start tag may end: "gt", "selfclose", "none"
    TextKinds,  \* "text" (character data or a reference), "lt" (a stray '<')
    MarkupKinds, \* "comment", "pi", "doctype" ('<!--', '<?', '<!DOCTYPE')
    MaxTokens,  \* bound on the number of tokens, over all documents
    Options,    \* option bits a read may pass: "NOIMPLIED"
    MaxDocs     \* bound on the documents parsed with one context

ASSUME Tags \subseteq TagUniverse
ASSUME CloseKinds \subseteq {"gt", "selfclose", "none"}
ASSUME TextKinds \subseteq {"text", "lt"}
ASSUME MarkupKinds \subseteq {"comment", "pi", "doctype"}
ASSUME MaxTokens \in Nat
ASSUME Options \subseteq {"NOIMPLIED"}
ASSUME MaxDocs \in Nat \ {0}

VARIABLES
    ctxt,        \* the parser context record of HtmlTreeOps
    currentNode, \* the loop's local copy of ctxt->name (NoName for NULL)
    depth,       \* the loop's local copy of ctxt->nameNr
    phase,       \* where htmlParseDocument is: "start" (the comment/PI loop
                 \* before a DOCTYPE), "misc" (the loop after it) or
                 \* "content" (htmlParseContentInternal)
    consumed,    \* tokens consumed so far
    terminated,  \* the end of the input was reached (CUR == 0)
    token,       \* history: the token the last step consumed
    docs,        \* documents started with this context
    readOpts     \* history: the options the caller passed for this document

vars == <<ctxt, currentNode, depth, phase, consumed, terminated, token,
          docs, readOpts>>

Tok(kind, name) == [kind |-> kind, name |-> name]

(* The state at the start of a document on the context s: htmlParseDocument *)
(* after SKIP_BLANKS and startDocument, with the content loop to start on *)
(* the stack s leaves (empty after a reset): currentNode = NULL, depth 0.  *)
NewDocument(s) ==
    /\ ctxt' = s
    /\ currentNode' = NoName
    /\ depth' = 0
    /\ phase' = "start"
    /\ terminated' = FALSE
    /\ token' = Tok("init", NoName)

(* htmlReadDoc: a new context, htmlCtxtUseOptions(options), then           *)
(* htmlCtxtParseDocument.                                                   *)
Init ==
    /\ \E o \in SUBSET Options :
          /\ ctxt = htmlCtxtParseDocument(htmlCtxtUseOptions(InitCtxt, o))
          /\ readOpts = o
    /\ currentNode = NoName
    /\ depth = 0
    /\ phase = "start"
    /\ consumed = 0
    /\ terminated = FALSE
    /\ token = Tok("init", NoName)
    /\ docs = 1

(* htmlCtxtReadDoc(ctxt, ..., options) once the last document ended:      *)
(* htmlCtxtReset, htmlCtxtUseOptions(options), htmlCtxtParseDocument.      *)
CtxtReadDoc(o) ==
    /\ terminated
    /\ docs < MaxDocs
    /\ NewDocument(htmlCtxtParseDocument(htmlCtxtUseOptions(htmlCtxtReset(ctxt), o)))
    /\ docs' = docs + 1
    /\ readOpts' = o
    /\ UNCHANGED consumed

(* htmlCtxtParseDocument called directly on the used context: no reset,  *)
(* the options of the last read stay.                                      *)
CtxtParseDocument ==
    /\ terminated
    /\ docs < MaxDocs
    /\ NewDocument(htmlCtxtParseDocument(ctxt))
    /\ docs' = docs + 1
    /\ UNCHANGED <<consumed, readOpts>>

(* The iterations that consume the token tk leave the context s and the   *)
(* locals cn and d.  A token that ends the input (CUR == 0 afterwards,    *)
(* with s already closed) also ends the loop, and htmlParseDocument sends *)
(* endDocument.                                                            *)
Consume(tk, s, cn, d, last) ==
    /\ ~terminated
    /\ consumed < MaxTokens
    /\ ctxt' = IF last THEN SaxEndDocument(s) ELSE s
    /\ currentNode' = cn
    /\ depth' = d
    /\ phase' = "content"
    /\ consumed' = consumed + 1
    /\ terminated' = last
    /\ token' = tk
    /\ UNCHANGED <<docs, readOpts>>

(* "Has this node been popped out during parsing of the next element": at *)
(* the top of every iteration that is not an end tag, an element closed   *)
(* since the locals were taken makes the loop refresh them and continue   *)
(* with the same input (htmlParserFinishElementParsing does nothing more  *)
(* while CUR != 0).                                                        *)
PoppedOut(s) ==
    /\ s.nameTab /= <<>>
    /\ depth >= Len(s.nameTab)
    /\ currentNode /= CurName(s)

LocalName(s) == IF PoppedOut(s) THEN CurName(s) ELSE currentNode
LocalDepth(s) == IF PoppedOut(s) THEN Len(s.nameTab) ELSE depth

(* "</": htmlParseEndTag; the locals are refreshed when it returned 1 and *)
(* currentNode was set or the stack is now empty.                          *)
(* htmlParserFinishElementParsing at CUR == 0: everything is closed. *)
FinishAtEnd(s) == htmlAutoCloseOnEnd(s)

(* A step of htmlParseDocument before the content loop: it consumes tk,   *)
(* leaves the context s and moves to phase ph.                             *)
Prolog(tk, s, ph) ==
    /\ ~terminated
    /\ consumed < MaxTokens
    /\ ctxt' = s
    /\ phase' = ph
    /\ consumed' = consumed + 1
    /\ token' = tk
    /\ UNCHANGED <<currentNode, depth, terminated, docs, readOpts>>

(* The loops "while '<!--' or '<?'": htmlParseComment then htmlParsePI,   *)
(* each of which does nothing unless the input starts its construct.       *)
PrologMisc(kind) ==
    /\ phase \in {"start", "misc"}
    /\ kind \in MarkupKinds \cap {"comment", "pi"}
    /\ Prolog(Tok(kind, NoName),
              IF kind = "comment" THEN SaxComment(ctxt) ELSE ctxt, phase)

(* '<!DOCTYPE' after the first loop: htmlParseDocTypeDecl (internalSubset). *)
PrologDocType ==
    /\ phase = "start"
    /\ "doctype" \in MarkupKinds
    /\ Prolog(Tok("doctype", NoName), ctxt, "misc")

(* Mutant: the locals kept after an end tag that popped its element. *)
EndTag_noRefresh(name) ==
    Consume(Tok("end", name), htmlParseEndTag(ctxt, name), currentNode, depth, FALSE)

EndTag(name) ==
    LET Refresh(s, ret) == ret /\ (currentNode /= NoName \/ s.nameTab = <<>>)
        Ended(s, ret) ==
            Consume(Tok("end", name), s,
                    IF Refresh(s, ret) THEN CurName(s) ELSE currentNode,
                    IF Refresh(s, ret) THEN Len(s.nameTab) ELSE depth, FALSE)
    IN  Ended(htmlParseEndTag(ctxt, name), htmlParseEndTagRet(ctxt, name))

(* "<" letter.  The look-ahead closes what the tag auto-closes and        *)
(* continues; after the popped-out test, inside script or style (as       *)
(* currentNode says) htmlParseScript takes the tag as text, otherwise      *)
(* htmlParseElementInternal parses it and the locals are refreshed.  A    *)
(* tag cut off by CUR == 0 ends in htmlParserFinishElementParsing, which   *)
(* closes everything, and the next iteration leaves the loop.              *)
StartTag(name, close) ==
    LET tk == Tok("start", name)
        Script(s, cn, d) ==
            Consume(tk, IF close = "none" THEN FinishAtEnd(ParseScriptData(s))
                        ELSE ParseScriptData(s), cn, d, close = "none")
        Element(s) ==
            Consume(tk, IF close = "none" THEN FinishAtEnd(s) ELSE s,
                    CurName(s), Len(s.nameTab), close = "none")
        Ahead(s) ==
            IF LocalName(s) \in RawTextElements
            THEN Script(s, LocalName(s), LocalDepth(s))
            ELSE Element(ParseStartTagToken(s, name, close))
    IN  Ahead(htmlAutoClose(ctxt, name))

(* Text or a reference: after the popped-out test, htmlParseScript inside *)
(* script or style, htmlParseCharData / htmlParseReference elsewhere.     *)
Text ==
    /\ "text" \in TextKinds
    /\ Consume(Tok("text", NoName),
               IF LocalName(ctxt) \in RawTextElements
               THEN ParseScriptData(ctxt) ELSE ParseText(ctxt),
               LocalName(ctxt), LocalDepth(ctxt), FALSE)

(* '<' followed by anything else: characters("<"), or script text. *)
StrayLt ==
    /\ "lt" \in TextKinds
    /\ Consume(Tok("lt", NoName),
               IF LocalName(ctxt) \in RawTextElements
               THEN ParseScriptData(ctxt) ELSE ParseStrayLt(ctxt),
               LocalName(ctxt), LocalDepth(ctxt), FALSE)

(* '<!' or '<?' in the content loop: after the popped-out test, script   *)
(* text inside script or style; otherwise a DOCTYPE ("Misplaced DOCTYPE   *)
(* declaration") is parsed anyway, a comment is reported, a PI parsed.     *)
(* Before the content starts the prolog loops take comments and PIs.      *)
Markup(kind) ==
    /\ kind \in MarkupKinds
    /\ phase = "content" \/ (kind = "doctype" /\ phase = "misc")
    /\ Consume(Tok(kind, NoName),
               CASE LocalName(ctxt) \in RawTextElements -> ParseScriptData(ctxt)
                 [] kind = "comment"                   -> SaxComment(ctxt)
                 [] OTHER                              -> ctxt,
               LocalName(ctxt), LocalDepth(ctxt), FALSE)

(* CUR == 0: htmlAutoCloseOnEnd (after htmlParserFinishElementParsing's   *)
(* own, when the popped-out test holds) and the loop ends; then           *)
(* htmlParseDocument's own htmlAutoCloseOnEnd and endDocument.             *)
EndOfInput ==
    /\ ~terminated
    /\ ctxt' = SaxEndDocument(htmlAutoCloseOnEnd(htmlAutoCloseOnEnd(ctxt)))
    /\ currentNode' = IF PoppedOut(ctxt) THEN NoName ELSE currentNode
    /\ depth' = IF PoppedOut(ctxt) THEN 0 ELSE depth
    /\ terminated' = TRUE
    /\ token' = Tok("eof", NoName)
    /\ UNCHANGED <<phase, consumed, docs, readOpts>>

Next ==
    \/ \E t \in Tags : EndTag(t)
    \/ \E t \in Tags, c \in CloseKinds : StartTag(t, c)
    \/ Text
    \/ StrayLt
    \/ \E k \in {"comment", "pi"} : PrologMisc(k)
    \/ PrologDocType
    \/ \E k \in {"comment", "pi", "doctype"} : Markup(k)
    \/ EndOfInput
    \/ \E o \in SUBSET Options : CtxtReadDoc(o)
    \/ CtxtParseDocument

Spec == Init /\ [][Next]_vars

(***************************************************************************)
(* Properties.                                                             *)
(***************************************************************************)
TypeOK ==
    /\ ctxt.nameTab \in Seq(TagUniverse)
    /\ ctxt.html \in {1, 3, 10}
    /\ ctxt.depth \in Nat
    /\ ctxt.sinkOpen \in Seq(TagUniverse)
    /\ ctxt.sinkBad \in BOOLEAN
    /\ currentNode \in TagUniverse \cup {NoName}
    /\ depth \in Nat
    /\ phase \in {"start", "misc", "content"}
    /\ consumed \in 0..MaxTokens
    /\ terminated \in BOOLEAN
    /\ token.kind \in {"init", "start", "end", "text", "lt", "eof",
                       "comment", "pi", "doctype"}
    /\ token.name \in TagUniverse \cup {NoName}
    /\ ctxt.options \subseteq Options
    /\ docs \in 1..MaxDocs
    /\ readOpts \subseteq Options

(* The element events a SAX consumer receives describe the parser's own  *)
(* name stack: every startElement/endElement pair emitted by the auto-    *)
(* close, implied-tag, end-tag and empty-element paths matches, so the     *)
(* consumer's open elements always equal ctxt->nameTab.                   *)
SinkMirrorsStack ==
    /\ ~ctxt.sinkBad
    /\ ctxt.sinkOpen = ctxt.nameTab

(* The document skeleton on the stack stays well formed whatever tags     *)
(* arrive: html only at the root, head only directly inside it, and never  *)
(* two bodies open (the misplaced-tag guards of htmlParseStartTag and the  *)
(* conditions under which htmlCheckImplied opens html, head and body).     *)
StructureSkeleton ==
    LET tab == ctxt.nameTab IN
    /\ \A i \in DOMAIN tab : tab[i] = "html" => i = 1
    /\ \A i \in DOMAIN tab : tab[i] = "head" => i = 2 /\ tab[1] = "html"
    /\ Cardinality({i \in DOMAIN tab : tab[i] = "body"}) <= 1

(* The loop's cached currentNode decides whether the next text is raw    *)
(* script/style content (htmlParseScript) or character data, while the    *)
(* stack says what element the text really lands in.  Whatever tags, end  *)
(* tags and text arrive, and however the auto-close and end-tag paths     *)
(* change the stack behind the loop's back, the two agree whenever the     *)
(* loop is about to look at the next token: the cache is never stale in a *)
(* way that makes script text markup, or markup script text.               *)
RawTextModeAgrees ==
    ~terminated =>
        (LocalName(ctxt) \in RawTextElements <=> CurName(ctxt) \in RawTextElements)

(* Unless the caller asked for HTML_PARSE_NOIMPLIED when it started this *)
(* document, every open element lies inside an html root: htmlCheckImplied *)
(* pushes html whenever a tag or text arrives with an empty stack, even     *)
(* after </html> emptied it, and a context reused for another document     *)
(* parses it with the options passed for that document.                    *)
HtmlRootImplied ==
    ("NOIMPLIED" \notin readOpts /\ ctxt.nameTab /= <<>>) => ctxt.nameTab[1] = "html"

(* The elements a step closed: the top of the stack it removed. *)
Closed == SubSeq(ctxt.nameTab, Len(ctxt'.nameTab) + 1, Len(ctxt.nameTab))

(* A start tag discarded as a misplaced html, head or body leaves the     *)
(* open elements alone, except those the tag auto-closes (htmlStartClose) *)
(* before it is discarded: spec 4.4 step 4, "the new tag is discarded".   *)
DiscardedTagKeepsParents ==
    [][(token'.kind = "start" /\ ctxt'.depth > ctxt.depth) =>
         /\ IsPrefix(ctxt'.nameTab, ctxt.nameTab)
         /\ \A i \in DOMAIN Closed : CheckAutoClose(token'.name, Closed[i])
      ]_vars
=============================================================================

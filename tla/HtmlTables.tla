----------------------------- MODULE HtmlTables -----------------------------
(***************************************************************************)
(* The read-only tables of libxml2's HTML parser (HTMLparser.c) that drive *)
(* its error recovery, restricted to the element names the models use:    *)
(*   - html40ElementTable: which elements are empty (void);               *)
(*   - htmlStartClose: (oldTag, newTag) pairs, "a start tag newTag closes *)
(*     an open oldTag";                                                    *)
(*   - htmlEndPriority: the priority that lets an end tag close the       *)
(*     elements above its match;                                           *)
(*   - the name lists hard-coded in htmlCheckImplied / htmlCheckParagraph. *)
(* Names are strings; "x" stands for a tag absent from every table (an    *)
(* unknown element, for which htmlTagLookup returns NULL).                *)
(***************************************************************************)
EXTENDS Naturals

(* Every name the tables below mention, plus the unknown tag "x". *)
TagUniverse ==
    {"html", "head", "body", "title", "script", "style", "noscript", "p",
     "div", "span", "table", "tr", "td", "li", "ul", "b", "br", "x"}

(* ctxt->name when the name stack is empty (a NULL pointer in the code). *)
NoName == ""

(* html40ElementTable entries whose "empty" field is 1 (no content, the   *)
(* end tag is emitted right after the start tag).                          *)
EmptyElements == {"br"}

(* htmlStartClose restricted to TagUniverse: <<oldTag, newTag>>. *)
StartClose ==
    { <<"b", "p">>, <<"b", "td">>,
      <<"head", "b">>, <<"head", "body">>, <<"head", "br">>,
      <<"head", "div">>, <<"head", "li">>, <<"head", "p">>,
      <<"head", "span">>, <<"head", "table">>, <<"head", "ul">>,
      <<"li", "li">>,
      <<"p", "body">>, <<"p", "div">>, <<"p", "head">>, <<"p", "li">>,
      <<"p", "p">>, <<"p", "table">>, <<"p", "td">>, <<"p", "title">>,
      <<"p", "tr">>, <<"p", "ul">>,
      <<"script", "noscript">>, <<"span", "td">>, <<"style", "body">>,
      <<"td", "td">>, <<"td", "tr">>, <<"title", "body">>, <<"tr", "tr">> }

(* htmlCheckAutoClose: does the start tag newtag close the open oldtag? *)
CheckAutoClose(newtag, oldtag) == <<oldtag, newtag>> \in StartClose

(* htmlGetEndPriority: the htmlEndPriority entry, 100 for unlisted names. *)
GetEndPriority(name) ==
    CASE name = "div"                       -> 150
      [] name \in {"td", "th"}              -> 160
      [] name = "tr"                        -> 170
      [] name \in {"thead", "tbody", "tfoot"} -> 180
      [] name = "table"                     -> 190
      [] name \in {"head", "body"}          -> 200
      [] name = "html"                      -> 220
      [] OTHER                              -> 100

(* The names htmlCheckImplied treats as head content. *)
HeadElements == {"script", "style", "meta", "link", "title", "base"}

(* The names for which htmlCheckImplied never implies a body. *)
FrameElements == {"noframes", "frame", "frameset"}

(* htmlNoContentElements: text directly inside them implies a <p>. *)
NoContentElements == {"html", "head"}

(* Elements whose content htmlParseScript copies as raw text. *)
RawTextElements == {"script", "style"}
=============================================================================

--------------------------- MODULE MCHtmlContent ----------------------------
(* Model-checking instance of HtmlContent. *)
EXTENDS HtmlContent

(* Document structure: the implied html/head/body elements, p, an unknown *)
(* element, and the raw-text elements script and style with the tags that *)
(* auto-close them (noscript closes script, body closes style).           *)
StructureTags ==
    {"html", "head", "body", "style", "script", "noscript", "p", "x"}

(* Recovery inside the body: tables, priorities, empty elements. *)
RecoveryTags == {"body", "div", "table", "tr", "td", "p", "br"}
=============================================================================

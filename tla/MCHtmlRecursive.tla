-------------------------- MODULE MCHtmlRecursive ---------------------------
(* Model-checking instance of HtmlRecursive. *)
EXTENDS HtmlRecursive

(* The implied skeleton, script (raw text), p and the div that closes it, *)
(* and an unknown element.                                                 *)
RecursionTags == {"html", "body", "script", "p", "div", "x"}
=============================================================================

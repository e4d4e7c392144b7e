-------------------------- MODULE MCHtmlPushAtomic --------------------------
(* The documents of MCHtmlPushParser for HtmlPushHistory. *)
EXTENDS MCHtmlPushParser, HtmlPushHistory
=============================================================================

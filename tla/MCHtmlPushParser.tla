-------------------------- MODULE MCHtmlPushParser --------------------------
(* Model-checking instances of HtmlPushParser: each document set is the    *)
(* concatenations of a few lexemes, most of them after an opening "<P>"    *)
(* so that the name stack holds html, body and p before the first end tag. *)
EXTENDS HtmlPushParser

(* Every concatenation of at most n lexemes of L. *)
RECURSIVE Concats(_, _)
Concats(L, n) == IF n = 0 THEN {<<>>}
                 ELSE Concats(L, n - 1) \cup {d \o l : d \in Concats(L, n - 1), l \in L}

OpenP == <<"<", "P", ">">>
CloseP == <<"<", "/", "P", ">">>
Comment == <<"<", "!", "-", "-", "-", "-", ">">>

(* Tags, a comment, a script element, a stray '<', text and blanks inside *)
(* the body.                                                               *)
InBodyLexemes ==
    { OpenP, CloseP, <<"<", "D", ">">>, Comment,
      <<"<", "S", ">">>, <<"<", "/", "S", ">">>, <<"<", "1">>, <<"1">>, <<" ">> }

InBodyDocs == { OpenP \o d : d \in Concats(InBodyLexemes, 3) }

(* An end tag may come first, and "</H>" empties the stack. *)
AnyBodyDocs ==
    Concats({OpenP, CloseP, <<"<", "/", "H", ">">>, <<"1">>, <<" ">>}, 3)

(* A comment closed by "--!>" right after its "<!--". *)
BangCommentDocs ==
    { OpenP \o d : d \in Concats({<<"<", "!", "-", "-", "!", ">">>, Comment, <<"1">>}, 2) }

(* Text and a '<' that may be the last byte. *)
TrailingLtDocs == { OpenP \o d : d \in Concats({<<"<">>, <<"1">>}, 2) }

(* Short documents for the liveness check. *)
ShortDocs == { OpenP \o d : d \in {<<"1">>, <<"<">>, <<"<", "1">>} }
=============================================================================

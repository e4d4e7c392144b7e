----------------------------- MODULE MCHtmlLexer -----------------------------
(***************************************************************************)
(* Text runs for HtmlLexer: every sequence of up to three pieces, in   *)
(* an input with no declared encoding (Latin-1 bytes, switched on the      *)
(* first byte >= 0x80) and in a declared UTF-8 input.                      *)
(***************************************************************************)
EXTENDS HtmlLexer

RECURSIVE Concats(_, _)
Concats(L, n) == IF n = 0 THEN {<<>>}
                 ELSE LET C == Concats(L, n - 1) IN C \cup {d \o l : d \in C, l \in L}

(* "&amp;" "&zz;" "&lt " "&" "&#65;" "&#x1F600;" "&#x110000;"      *)
(* "&#xD800;" "&#;" "&#X4e" "&euro;", a NUL, a control byte, '<', '1'.   *)
RefPieces ==
    {<<38, 97, 109, 112, 59>>, <<38, 122, 122, 59>>, <<38, 108, 116, 32>>,
     <<38>>,
     <<38, 35, 54, 53, 59>>, <<38, 35, 120, 49, 70, 54, 48, 48, 59>>,
     <<38, 35, 120, 49, 49, 48, 48, 48, 48, 59>>, <<38, 35, 120, 68, 56, 48, 48, 59>>,
     <<38, 35, 59>>, <<38, 35, 88, 52, 101>>, <<38, 101, 117, 114, 111, 59>>,
     <<0>>, <<1>>, <<60>>, <<49>>}

(* Latin-1 bytes: e-acute (a letter), 0x80 (not a character), the middle  *)
(* dot (a name character that cannot start a name).                       *)
Latin1Pieces == RefPieces \cup {<<233>>, <<128>>, <<183>>}

(* UTF-8: "&lt" (a name that runs into what follows), e-acute, the euro sign, U+1F600, U+D7FF, and a letter that can *)
(* run into a name.                                                       *)
Utf8Pieces ==
    RefPieces \cup {<<38, 108, 116>>, <<195, 169>>, <<226, 130, 172>>, <<240, 159, 152, 128>>,
                    <<237, 159, 191>>, <<97>>}

(* Attribute values: quotes, a blank and '>' around the value, references *)
(* with a legal value, a control byte (kept in values), '<' and '1'.      *)
AttrPieces ==
    {<<34>>, <<39>>, <<32>>, <<62>>,
     <<38, 97, 109, 112, 59>>, <<38, 122, 122, 59>>, <<38, 108, 116, 32>>, <<38>>,
     <<38, 35, 54, 53, 59>>, <<38, 35, 120, 49, 70, 54, 48, 48, 59>>,
     <<38, 101, 117, 114, 111, 59>>, <<1>>, <<60>>, <<49>>}

TextInputs(L, d) == {[text |-> t, declared |-> d, ctx |-> "text", recovery |-> FALSE, quote |-> 0] : t \in Concats(L, 3)}

AttrInputs(L, d) == {[text |-> t, declared |-> d, ctx |-> "attr", recovery |-> FALSE, quote |-> 0] : t \in Concats(L, 3)}

(* An ASCII name running into a non-ASCII byte, no encoding declared. *)
SwitchInputs ==
    {[text |-> t, declared |-> FALSE, ctx |-> "text", recovery |-> FALSE, quote |-> 0] :
        t \in Concats({<<38>>, <<97>>, <<233>>, <<59>>}, 4)}

(***************************************************************************)
(* Markup calls.  Each input starts with what the push parser saw before  *)
(* calling the routine.  e-acute is byte 233 with no encoding declared    *)
(* and <<195, 169>> in UTF-8.                                              *)
(***************************************************************************)
Calls(ctx, pre, T, d, rec) ==
    {[text |-> pre \o t, declared |-> d, ctx |-> ctx, recovery |-> rec, quote |-> 0] : t \in T}

(* After "<!--": dashes, '>', '!', a letter, a NUL, a control byte. *)
CommentPieces == {<<45>>, <<45, 45>>, <<62>>, <<33>>, <<97>>, <<0>>, <<1>>}

CommentInputs ==
    Calls("comment", <<60, 33, 45, 45>>, Concats(CommentPieces \cup {<<233>>}, 3), FALSE, FALSE)
    \cup Calls("comment", <<60, 33, 45, 45>>, Concats(CommentPieces \cup {<<195, 169>>}, 3), TRUE, FALSE)

(* After "<?": the target "xml", a blank, '>', a letter, a NUL, a control  *)
(* byte; e-acute only after a blank when undeclared.  A target that runs  *)
(* to the end of the input is left out (see README).                      *)
PIPieces == {<<120, 109, 108>>, <<32>>, <<62>>, <<97>>, <<0>>, <<1>>}

NotAllName(T) == {t \in T : t = <<>> \/ \E i \in DOMAIN t : ~(t[i] \in (97..122) \cup (48..57))}

PIInputs ==
    Calls("pi", <<60, 63>>, NotAllName(Concats(PIPieces \cup {<<32, 233>>}, 3)), FALSE, FALSE)
    \cup Calls("pi", <<60, 63>>, NotAllName(Concats(PIPieces \cup {<<195, 169>>}, 3)), TRUE, FALSE)

(* After "<!DOCTYPE": an optional name, then nothing, SYSTEM and a        *)
(* literal, or PUBLIC, a literal and an optional literal, then what ends  *)
(* the declaration.  Literals: closed with either quote, unclosed, with a *)
(* character PubidChar refuses ('<'), empty.                               *)
SysLits == {<<>>, <<39, 97, 39>>, <<34, 60, 34>>, <<39, 97>>, <<34, 34>>}

PubLits == SysLits \cup {<<39, 195, 169, 39>>}

ExtIds ==
    {<<>>}
    \cup {<<83, 89, 83, 84, 69, 77, 32>> \o l : l \in SysLits}
    \cup {<<112, 117, 98, 108, 105, 99>> \o b \o p \o <<32>> \o l :
            b \in {<<>>, <<32>>}, p \in PubLits, l \in SysLits}

DocTypeInputs ==
    Calls("doctype", <<60, 33, 68, 79, 67, 84, 89, 80, 69>>,
          {b \o n \o <<32>> \o x \o e :
              b \in {<<>>, <<32>>}, n \in {<<>>, <<104, 116, 109, 108>>}, x \in ExtIds,
              e \in {<<>>, <<62>>, <<120, 62, 97>>}},
          TRUE, FALSE)

(* Script content: end tags of the element in both cases, of another      *)
(* element, "</" with no name, '<', a letter, a NUL, a control byte.       *)
ScriptPieces ==
    {<<60, 47, 115, 99, 114, 105, 112, 116, 62>>, <<60, 47, 83, 67, 82, 73, 80, 84, 62>>,
     <<60, 47, 112, 62>>, <<60, 47, 32>>, <<60>>, <<97>>, <<0>>, <<1>>}

ScriptInputs ==
    UNION {Calls("script", <<>>, Concats(ScriptPieces \cup {<<233>>}, 3), FALSE, r)
           \cup Calls("script", <<>>, Concats(ScriptPieces \cup {<<195, 169>>}, 3), TRUE, r) :
              r \in BOOLEAN}

(* A system literal holding a two-byte UTF-8 character. *)
LiteralInputs ==
    Calls("doctype", <<60, 33, 68, 79, 67, 84, 89, 80, 69>>,
          {<<32, 104, 116, 109, 108, 32>> \o x \o <<62>> :
              x \in {<<83, 89, 83, 84, 69, 77, 32, 34, 195, 169, 34>>,
                     <<83, 89, 83, 84, 69, 77, 32, 34, 97, 195, 169, 98, 34>>}},
          TRUE, FALSE)
(***************************************************************************)
(* Converter inputs: a letter, a blank, and characters of two to four     *)
(* bytes with and without an entity name; for htmlEncodeEntities also a    *)
(* control byte (attribute values keep it) and the characters it escapes, *)
(* with both quotes.                                                       *)
(* Output buffers of 4 bytes are too small for some entities, 10 bytes    *)
(* hold any of them.                                                       *)
(***************************************************************************)
ConvOutLens == {4, 10}

WidePieces ==
    {<<97>>, <<32>>, <<194, 128>>, <<195, 169>>, <<226, 130, 172>>, <<240, 159, 152, 128>>}

ConverterInputs ==
    {[text |-> t, declared |-> TRUE, ctx |-> "tohtml", recovery |-> FALSE, quote |-> 0] :
        t \in Concats(WidePieces, 3)}
    \cup {[text |-> t, declared |-> TRUE, ctx |-> "encode", recovery |-> FALSE, quote |-> q] :
            t \in Concats(WidePieces \cup {<<1>>, <<38>>, <<60>>, <<62>>, <<34>>, <<39>>}, 3),
            q \in {34, 39}}

(***************************************************************************)
(* Start tags: '<', a name (meta in either case, another name, or one     *)
(* that is not a name), then up to three pieces: charset attributes in    *)
(* either case and quoting, http-equiv Content-Type, contents with a      *)
(* charset after a blank or inside a list, an attribute without a value,  *)
(* one with blanks around '=', a bogus attribute and the two tag ends.    *)
(* Repeated pieces give redefined attributes.                              *)
(***************************************************************************)
TagPieces ==
    {<<32, 99, 104, 97, 114, 115, 101, 116, 61, 117>>,
     <<32, 67, 72, 65, 82, 83, 69, 84, 61, 39, 118, 39>>,
     <<32, 104, 116, 116, 112, 45, 101, 113, 117, 105, 118, 61, 67, 111, 110, 116, 101, 110, 116, 45, 84, 121, 112, 101>>,
     <<32, 99, 111, 110, 116, 101, 110, 116, 61, 34, 99, 104, 97, 114, 115, 101, 116, 32, 61, 119, 34>>,
     <<32, 99, 111, 110, 116, 101, 110, 116, 61, 39, 120, 59, 67, 104, 97, 114, 115, 101, 116, 61, 121, 39>>,
     <<32, 97>>,
     <<32, 97, 32, 61, 32, 98>>,
     <<32, 47, 97>>,
     <<47, 62>>,
     <<62>>}

TagNames == {<<109, 101, 116, 97>>, <<77, 69, 116, 97>>, <<112>>, <<49>>}

TagInputs ==
    {[text |-> <<60>> \o n \o t, declared |-> d, ctx |-> "tag", recovery |-> FALSE, quote |-> 0] :
        n \in TagNames, t \in Concats(TagPieces, 3), d \in BOOLEAN}

(* The input sets are kept apart: their union is never formed. *)
PassInputs ==
    {TagInputs, ConverterInputs, CommentInputs, PIInputs, DocTypeInputs, ScriptInputs,
     TextInputs(Latin1Pieces, FALSE), TextInputs(Utf8Pieces, TRUE),
     AttrInputs(AttrPieces \cup {<<233>>, <<128>>, <<183>>}, FALSE),
     AttrInputs(AttrPieces \cup {<<38, 108, 116>>, <<195, 169>>, <<226, 130, 172>>,
                               <<240, 159, 152, 128>>, <<97>>}, TRUE)}

SwitchGroups == {SwitchInputs}

LiteralGroups == {LiteralInputs}
=============================================================================

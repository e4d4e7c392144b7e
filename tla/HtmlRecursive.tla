--------------------------- MODULE HtmlRecursive ----------------------------
(***************************************************************************)
(* The recursive pull parser of HTMLparser.c, htmlParseElement with its    *)
(* helper htmlParseContent, kept "for compatibility with old code", run in *)
(* lockstep with the iterative loop htmlParseContentInternal (HtmlContent) *)
(* on the same tokens from the same context.                               *)
(*                                                                         *)
(* The C recursion is an explicit call stack, frames: an "elem" frame is   *)
(* the content loop of one htmlParseElement call (d its depth, at the     *)
(* token count when it last called htmlParseContent, NoCall before the    *)
(* first call); a "content" frame is one htmlParseContent call (cur and d *)
(* its copies of ctxt->name and ctxt->nameNr).  next is the token the     *)
(* input starts with, the look-ahead every frame reads; a step that       *)
(* consumes it chooses the one after, and the iterative loop consumes the *)
(* same token in the same step.                                            *)
(***************************************************************************)
EXTENDS Integers, Sequences, SequencesExt, FiniteSets, HtmlTreeOps

CONSTANTS Tags, CloseKinds, TextKinds, MarkupKinds, MaxTokens, Options, MaxDocs

VARIABLES
    rctxt,     \* the parser context the recursive parser works on
    frames,    \* its call stack, innermost last
    next,      \* the token at the input position (kind "eof" for CUR == 0)
    called,    \* htmlParseElement was called
    consumed,  \* tokens consumed (shared: both parsers consume in lockstep)
    synced,    \* history: the last step consumed a token
    ictxt, icur, idepth, iphase, iterm, itoken, idocs, ireadOpts

It == INSTANCE HtmlContent
        WITH ctxt <- ictxt, currentNode <- icur, depth <- idepth,
             phase <- iphase, terminated <- iterm, token <- itoken,
             docs <- idocs, readOpts <- ireadOpts

ivars == <<ictxt, icur, idepth, iphase, iterm, itoken, idocs, ireadOpts>>
vars == <<rctxt, frames, next, called, consumed, synced, ivars>>

NoCall == -1

Tokens ==
    [kind : {"start"}, name : Tags, close : CloseKinds]
      \cup [kind : {"end"}, name : Tags, close : {"gt"}]
      \cup [kind : TextKinds \cup MarkupKinds, name : {NoName}, close : {"gt"}]
Eof == [kind |-> "eof", name |-> NoName, close |-> "gt"]

(* The iterative loop's iteration on the token tk. *)
ItStep(tk) ==
    CASE tk.kind = "start" -> It!StartTag(tk.name, tk.close)
      [] tk.kind = "end"   -> It!EndTag(tk.name)
      [] tk.kind = "text"  -> It!Text
      [] tk.kind = "lt"    -> It!StrayLt
      [] OTHER             -> It!Markup(tk.kind)

(* htmlParseElement is called with the input at a start tag, on the       *)
(* context the iterative loop starts from.                                 *)
Init ==
    /\ It!Init
    /\ rctxt = ictxt
    /\ frames = <<>>
    /\ next \in {t \in Tokens : t.kind = "start"}
    /\ called = FALSE
    /\ synced = TRUE

(* A step that consumes next, leaving the context s and the stack fs (the *)
(* first is the outermost call's).  A tag cut off before '>' runs to the  *)
(* end of the input.                                                       *)
Consume(s, fs) ==
    /\ consumed < MaxTokens
    /\ rctxt' = s
    /\ frames' = fs
    /\ next' \in IF next.close = "none" \/ consumed + 1 = MaxTokens
                 THEN {Eof} ELSE Tokens \cup {Eof}
    /\ ItStep(next)
    /\ synced' = TRUE
    /\ called' = TRUE

(* A step that consumes nothing. *)
Stay(s, fs) ==
    /\ rctxt' = s
    /\ frames' = fs
    /\ synced' = FALSE
    /\ UNCHANGED <<next, called, consumed, ivars>>

Top == frames[Len(frames)]
SetTop(f) == [frames EXCEPT ![Len(frames)] = f]

(***************************************************************************)
(* htmlParseElement.  Its start tag: htmlParseStartTag and the '/>',       *)
(* missing '>' and empty-element tails (as htmlParseElementInternal);      *)
(* an element left open gets the content loop, an elem frame.              *)
(***************************************************************************)
(* Mutant: htmlParseElement's own copy of the '/>', missing '>' and empty *)
(* element tails left out.                                                *)
ParseElementStartNoTail ==
    LET Opened(s) ==
            Consume(s,
                    IF next.close = "gt" /\ CurName(s) /= NoName
                       /\ CurName(s) \notin EmptyElements
                    THEN Append(frames, [kind |-> "elem", cur |-> CurName(s),
                                         d |-> Len(s.nameTab), at |-> NoCall])
                    ELSE frames)
    IN  Opened(htmlParseStartTag(rctxt, next.name))

ParseElementStart ==
    LET Opened(s) ==
            Consume(s,
                    IF next.close = "gt" /\ CurName(s) /= NoName
                       /\ CurName(s) \notin EmptyElements
                    THEN Append(frames, [kind |-> "elem", cur |-> CurName(s),
                                         d |-> Len(s.nameTab), at |-> NoCall])
                    ELSE frames)
    IN  Opened(ParseStartTagToken(rctxt, next.name, next.close))

(* The outermost call. *)
Call ==
    /\ ~called
    /\ ParseElementStart

(* Mutant: oldptr taken one token late. *)
ElemLoopAtLate ==
    /\ frames /= <<>>
    /\ Top.kind = "elem"
    /\ LET f == Top
           exit == \/ next = Eof
                   \/ f.at /= NoCall /\ (consumed = f.at \/ Len(rctxt.nameTab) < f.d)
       IN  IF exit
           THEN Stay(IF next = Eof THEN htmlAutoCloseOnEnd(rctxt) ELSE rctxt,
                     Front(frames))
           ELSE Stay(rctxt,
                     Append(SetTop([f EXCEPT !.at = consumed + 1]),
                            [kind |-> "content", cur |-> CurName(rctxt),
                             d |-> Len(rctxt.nameTab), at |-> NoCall]))

(* while (CUR != 0) { htmlParseContent; if no input was consumed or       *)
(* nameNr < depth, break }; then htmlAutoCloseOnEnd at CUR == 0, return.   *)
ElemLoop ==
    /\ frames /= <<>>
    /\ Top.kind = "elem"
    /\ LET f == Top
           exit == \/ next = Eof
                   \/ f.at /= NoCall /\ (consumed = f.at \/ Len(rctxt.nameTab) < f.d)
       IN  IF exit
           THEN Stay(IF next = Eof THEN htmlAutoCloseOnEnd(rctxt) ELSE rctxt,
                     Front(frames))
           ELSE Stay(rctxt,
                     Append(SetTop([f EXCEPT !.at = consumed]),
                            [kind |-> "content", cur |-> CurName(rctxt),
                             d |-> Len(rctxt.nameTab), at |-> NoCall]))

(***************************************************************************)
(* htmlParseContent: one iteration of its loop on the top content frame.   *)
(***************************************************************************)
InContent == frames /= <<>> /\ Top.kind = "content"

(* "</": htmlParseEndTag; return when it returned 1 and currentNode is set *)
(* or the stack is empty.                                                  *)
ContentEndTag ==
    /\ InContent
    /\ next.kind = "end"
    /\ LET Ended(s, ret) ==
               Consume(s, IF ret /\ (Top.cur /= NoName \/ s.nameTab = <<>>)
                          THEN Front(frames) ELSE frames)
       IN  Ended(htmlParseEndTag(rctxt, next.name),
                 htmlParseEndTagRet(rctxt, next.name))

(* The look-ahead: a start tag that auto-closes ctxt->name. *)
AheadCloses == next.kind = "start" /\ rctxt.nameTab /= <<>>
               /\ CheckAutoClose(next.name, CurName(rctxt))

ContentAutoClose ==
    /\ InContent
    /\ AheadCloses
    /\ Stay(htmlAutoClose(rctxt, next.name), frames)

(* "Has this node been popped out": return to the caller. *)
PoppedOutR ==
    /\ rctxt.nameTab /= <<>>
    /\ Top.d >= Len(rctxt.nameTab)
    /\ Top.cur /= CurName(rctxt)

ContentReturn ==
    /\ InContent
    /\ next.kind /= "end" /\ ~AheadCloses
    /\ PoppedOutR
    /\ Stay(rctxt, Front(frames))

(* The cases after the popped-out test, in the order of the code: script *)
(* or style content (as currentNode says) while CUR != 0, then '<!' and    *)
(* '<?', a sub-element (a recursive htmlParseElement), a stray '<', text or *)
(* a reference, and CUR == 0, which closes everything and returns.          *)
Body == /\ InContent
        /\ next.kind /= "end"
        /\ ~AheadCloses
        /\ ~PoppedOutR

ContentScript ==
    /\ Body
    /\ next /= Eof
    /\ Top.cur \in RawTextElements
    /\ Consume(ParseScriptData(rctxt), frames)

Markup == Body /\ Top.cur \notin RawTextElements

ContentMarkup ==
    /\ Markup
    /\ next.kind \in {"comment", "pi", "doctype"}
    /\ Consume(IF next.kind = "comment" THEN SaxComment(rctxt) ELSE rctxt, frames)

ContentElement == Markup /\ next.kind = "start" /\ ParseElementStart

ContentStrayLt == Markup /\ next.kind = "lt" /\ Consume(ParseStrayLt(rctxt), frames)

ContentText == Markup /\ next.kind = "text" /\ Consume(ParseText(rctxt), frames)

ContentEnd == Body /\ next = Eof /\ Stay(htmlAutoCloseOnEnd(rctxt), Front(frames))

(* The outermost htmlParseElement has returned. *)
Done == called /\ frames = <<>>

(* At the end of the input the iterative loop meets CUR == 0 too. *)
ItEnd ==
    /\ Done
    /\ next = Eof
    /\ It!EndOfInput
    /\ UNCHANGED <<rctxt, frames, next, called, consumed, synced>>

Next ==
    \/ Call
    \/ ItEnd
    \/ ElemLoop
    \/ ContentEndTag
    \/ ContentAutoClose
    \/ ContentReturn
    \/ ContentScript
    \/ ContentMarkup
    \/ ContentElement
    \/ ContentStrayLt
    \/ ContentText
    \/ ContentEnd

Spec == Init /\ [][Next]_vars

(***************************************************************************)
(* Properties.                                                             *)
(***************************************************************************)
TypeOK ==
    /\ rctxt.nameTab \in Seq(TagUniverse)
    /\ \A i \in DOMAIN frames :
          /\ frames[i].kind \in {"elem", "content"}
          /\ frames[i].cur \in TagUniverse \cup {NoName}
          /\ frames[i].d \in Nat
          /\ frames[i].at \in {NoCall} \cup 0..consumed
    /\ consumed \in 0..MaxTokens
    /\ next \in Tokens \cup {Eof}
    /\ called \in BOOLEAN
    /\ synced \in BOOLEAN

(* The recursive parser and the non-recursive loop that replaced it give  *)
(* the same parse: after every token both have consumed, the name stack,  *)
(* depth counter, html level and the SAX events they sent are the same,   *)
(* however the recursion unwinds on auto-closed, popped-out or cut-off    *)
(* elements; and once htmlParseElement has returned at the end of input,  *)
(* the iterative parse ends with what the caller's htmlAutoCloseOnEnd and  *)
(* endDocument add to it.                                                  *)
RecursiveAgrees ==
    /\ (synced /\ ~iterm) => rctxt = ictxt
    /\ (Done /\ next = Eof /\ iterm) =>
          SaxEndDocument(htmlAutoCloseOnEnd(rctxt)) = ictxt

=============================================================================

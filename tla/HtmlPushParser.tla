--------------------------- MODULE HtmlPushParser ---------------------------
(***************************************************************************)
(* The push parser of HTMLparser.c: htmlParseChunk appends a chunk to the  *)
(* input buffer and runs htmlParseTryOrFinish, whose loop dispatches on    *)
(* ctxt->instate, parses a construct only once the look-ups have found its *)
(* end in the buffer (or terminate is set), and otherwise jumps to done    *)
(* and returns, to resume when the next chunk arrives.                     *)
(*                                                                         *)
(* The caller feeds a document doc of the set Documents in chunks of any   *)
(* size, and sets terminate on the call with its last byte (or on an      *)
(* empty call after it).  One step of                                      *)
(* the loop (one switch case up to its break or goto done) is one step of  *)
(* the model; the done block and the tail of htmlParseChunk end the call.  *)
(***************************************************************************)
EXTENDS Naturals, Integers, Sequences, SequencesExt, FiniteSets, HtmlTokenizer

CONSTANTS
    Documents,  \* the documents a caller may push
    NoImplied   \* the caller passes HTML_PARSE_NOIMPLIED to htmlCtxtUseOptions

ASSUME Documents \subseteq Seq(Alphabet)
ASSUME NoImplied \in BOOLEAN

VARIABLES
    doc,      \* the whole document the caller will push
    fed,      \* how many of its bytes have been pushed
    p,        \* the parser record of HtmlTokenizer
    phase,    \* "idle" between calls, "loop" inside htmlParseTryOrFinish
    term      \* the terminate argument of the current (or last) call

vars == <<doc, fed, p, phase, term>>

InitParser ==
    [buf |-> <<>>, cur |-> 1, instate |-> "START", checkIndex |-> 0,
     ctxt |-> htmlCtxtUseOptions(InitCtxt,
                                 IF NoImplied THEN {"NOIMPLIED"} ELSE {})]

(***************************************************************************)
(* The ends of one loop iteration: Continue(q) goes round the while loop  *)
(* again (break); Done(q, az, t) is goto done, az telling whether the     *)
(* local avail it read was 0, which is what the done block tests.          *)
(***************************************************************************)
Continue(q) == [p |-> q, done |-> FALSE]

(* endDocument once the stack is empty, unless at EOF already. *)
EndIfEmpty(q) ==
    IF q.ctxt.nameTab = <<>> /\ q.instate /= "EOF"
    THEN [q EXCEPT !.instate = "EOF", !.ctxt = SaxEndDocument(@)]
    ELSE q

(* Mutant: the end-of-input close forgets htmlAutoCloseOnEnd. *)
CloseAtEnd_noAutoClose(q) == EndIfEmpty(q)

(* htmlAutoCloseOnEnd, then endDocument once the stack is empty. *)
CloseAtEnd(q) == EndIfEmpty([q EXCEPT !.ctxt = htmlAutoCloseOnEnd(@)])

Done(q, az, t) ==
    [p |-> IF az /\ t THEN CloseAtEnd(q) ELSE q, done |-> TRUE]

(* The record after a look-up l of q: with terminate set the code skips  *)
(* the look-up, so checkIndex is left alone.                               *)
Looked(q, l, t) == IF t THEN q ELSE l.p

IsComment(q) == At(q, 0) = "<" /\ At(q, 1) = "!" /\ At(q, 2) = "-" /\ At(q, 3) = "-"

(***************************************************************************)
(* The switch cases of htmlParseTryOrFinish.                               *)
(***************************************************************************)
StepStart(q, t) ==
    LET r == [SkipBlanks(q) EXCEPT !.ctxt = SaxStartDocument(@)]
    IN  Continue([r EXCEPT !.instate = "MISC"])

StepMisc(q0, t) ==
    LET q == SkipBlanks(q0)
        nx == IF Avail(q) < 2 THEN " " ELSE At(q, 1)
    IN  CASE Avail(q) < 1 -> Done(q, TRUE, t)
          [] Avail(q) < 2 /\ ~t -> Done(q, FALSE, t)
          [] At(q, 0) = "<" /\ nx = "!" /\ At(q, 2) = "-" /\ At(q, 3) = "-" ->
                 LET l == LookupCommentEnd(q) IN
                 IF ~t /\ l.idx < 0 THEN Done(l.p, FALSE, t)
                 ELSE Continue([ParseComment(Looked(q, l, t)) EXCEPT !.instate = "MISC"])
          [] At(q, 0) = "<" /\ nx = "!" /\ Avail(q) < 9 -> Done(q, FALSE, t)
          [] OTHER -> Continue([q EXCEPT !.instate = "CONTENT"])

StepEpilog(q, t) ==
    CASE Avail(q) < 1 -> Done(q, TRUE, t)
      [] At(q, 0) = " " -> Done(ParseCharData(q), FALSE, t)
      [] Avail(q) < 2 -> Done(q, FALSE, t)
      [] IsComment(q) ->
             LET l == LookupCommentEnd(q) IN
             IF ~t /\ l.idx < 0 THEN Done(l.p, FALSE, t)
             ELSE Continue([ParseComment(Looked(q, l, t)) EXCEPT !.instate = "EPILOG"])
      [] At(q, 0) = "<" /\ At(q, 1) = "!" /\ Avail(q) < 4 -> Done(q, FALSE, t)
      [] OTHER ->
             Done([q EXCEPT !.instate = "EOF", !.ctxt = SaxEndDocument(@)], FALSE, t)

(* Mutant: a parsed start tag leaves ctxt->instate at START_TAG. *)
StepStartTag_stay(q, t) ==
    LET nx == IF Avail(q) < 2 THEN " " ELSE At(q, 1)
        l  == LookupSequence(q, ">", Nul)
        r  == ParseStartTag(Looked(q, l, t))
    IN  CASE Avail(q) < 2 /\ ~t -> Done(q, FALSE, t)
          [] At(q, 0) /= "<" -> Continue([q EXCEPT !.instate = "CONTENT"])
          [] nx = "/" -> Continue([q EXCEPT !.instate = "END_TAG", !.checkIndex = 0])
          [] ~t /\ l.idx < 0 -> Done(l.p, FALSE, t)
          [] r.failed \/ CurName(r.p.ctxt) = NoName ->
                 Continue(IF At(r.p, 0) = ">" THEN Skip(r.p, 1) ELSE r.p)
          [] OTHER -> Continue(ElementTail(r.p))

StepStartTag(q, t) ==
    LET nx == IF Avail(q) < 2 THEN " " ELSE At(q, 1)
        l  == LookupSequence(q, ">", Nul)
        r  == ParseStartTag(Looked(q, l, t))
    IN  CASE Avail(q) < 2 /\ ~t -> Done(q, FALSE, t)
          [] At(q, 0) /= "<" -> Continue([q EXCEPT !.instate = "CONTENT"])
          [] nx = "/" -> Continue([q EXCEPT !.instate = "END_TAG", !.checkIndex = 0])
          [] ~t /\ l.idx < 0 -> Done(l.p, FALSE, t)
          [] r.failed \/ CurName(r.p.ctxt) = NoName ->
                 Continue(IF At(r.p, 0) = ">" THEN Skip(r.p, 1) ELSE r.p)
          [] OTHER -> Continue([ElementTail(r.p) EXCEPT !.instate = "CONTENT"])

(* Mutant: the last byte is consumed as two. *)
LastByte_skip2(q) ==
    [Skip(q, 2) EXCEPT
        !.checkIndex = 0,
        !.ctxt = IF At(q, 0) = " " THEN SaxWhitespace(@)
                 ELSE SaxCharacters(htmlCheckParagraph(@))]

(* The one byte left at the end of the input is text. *)
LastByte(q) ==
    [Skip(q, 1) EXCEPT
        !.checkIndex = 0,
        !.ctxt = IF At(q, 0) = " " THEN SaxWhitespace(@)
                 ELSE SaxCharacters(htmlCheckParagraph(@))]

StepScript(q, t) ==
    LET l   == LookupSequence(q, "<", "/")
        cut == ~t /\ l.idx >= 0 /\ At(q, l.idx + 2) = Nul
        r   == ParseScript(Looked(q, l, t))
    IN  CASE ~t /\ l.idx < 0 -> Done(l.p, FALSE, t)
          [] cut -> Done([l.p EXCEPT !.checkIndex = l.idx], FALSE, t)
          [] At(q, 0) = "<" /\ At(q, 1) = "/" ->
                 Continue([r EXCEPT !.instate = "END_TAG", !.checkIndex = 0])
          [] OTHER -> Continue(r)

StepMarkupDecl(q, t) ==
    IF IsComment(q)
    THEN LET l == LookupCommentEnd(q) IN
         IF ~t /\ l.idx < 0 THEN Done(l.p, FALSE, t)
         ELSE Continue([ParseComment(Looked(q, l, t)) EXCEPT !.instate = "CONTENT"])
    ELSE LET l == LookupSequence(q, ">", Nul) IN
         IF ~t /\ l.idx < 0 THEN Done(l.p, FALSE, t)
         ELSE Continue(SkipBogusComment(Looked(q, l, t)))

StepText(q, t) ==
    LET l == LookupSequence(q, "<", Nul) IN
    IF ~t /\ l.idx < 0 THEN Done(l.p, FALSE, t)
    ELSE Continue(ParseCharData([l.p EXCEPT !.checkIndex = 0]))

(* Mutant: the stray '<' is reported without NEXT. *)
StrayLt_noNext(q) == Continue([q EXCEPT !.ctxt = SaxCharacters(@)])

(* A '<' that starts no markup is the text "<". *)
StrayLt(q) == Continue([Skip(q, 1) EXCEPT !.ctxt = SaxCharacters(@)])

StepContent(q, t) ==
    CASE Avail(q) = 1 /\ t /\ At(q, 0) /= "<" -> Continue(LastByte(q))
      [] Avail(q) < 2 -> Done(q, FALSE, t)
      [] CurName(q.ctxt) \in RawTextElements -> StepScript(q, t)
      [] At(q, 0) = "<" /\ At(q, 1) = "!" ->
             IF Avail(q) < 4 THEN Done(q, FALSE, t) ELSE StepMarkupDecl(q, t)
      [] At(q, 0) = "<" /\ At(q, 1) = "/" ->
             Continue([q EXCEPT !.instate = "END_TAG", !.checkIndex = 0])
      [] At(q, 0) = "<" /\ At(q, 1) \in NameSyms ->
             Continue([q EXCEPT !.instate = "START_TAG", !.checkIndex = 0])
      [] At(q, 0) = "<" -> StrayLt(q)
      [] OTHER -> StepText(q, t)

StepEndTag(q, t) ==
    LET l == LookupSequence(q, ">", Nul)
        r == ParseEndTag(l.p)
    IN  CASE Avail(q) < 2 -> Done(q, FALSE, t)
          [] ~t /\ l.idx < 0 -> Done(l.p, FALSE, t)
          [] OTHER -> Continue([r EXCEPT
                          !.instate = IF r.ctxt.nameTab = <<>> THEN "EPILOG" ELSE "CONTENT",
                          !.checkIndex = 0])

(***************************************************************************)
(* One iteration of the while loop of htmlParseTryOrFinish: the           *)
(* end-of-input close, then the switch.  A state the switch does not       *)
(* handle (XML_PARSER_COMMENT, left by an unfinished comment) is the       *)
(* "HPP: internal error" default, which sets EOF.                          *)
(***************************************************************************)
TryStep(q0, t) ==
    LET q == IF Avail(q0) = 0 /\ t THEN CloseAtEnd(q0) ELSE q0 IN
    CASE Avail(q) < 1            -> Done(q, TRUE, t)
      [] q.instate = "EOF"       -> Done(q, FALSE, t)
      [] q.instate = "START"     -> StepStart(q, t)
      [] q.instate = "MISC"      -> StepMisc(q, t)
      [] q.instate = "EPILOG"    -> StepEpilog(q, t)
      [] q.instate = "START_TAG" -> StepStartTag(q, t)
      [] q.instate = "CONTENT"   -> StepContent(q, t)
      [] q.instate = "END_TAG"   -> StepEndTag(q, t)
      [] OTHER                   -> Continue([q EXCEPT !.instate = "EOF"])

(* The tail of htmlParseChunk after htmlParseTryOrFinish returned. *)
ChunkTail(q, t) ==
    IF ~t THEN q
    ELSE [q EXCEPT !.instate = "EOF",
                   !.ctxt = IF q.instate /= "EOF" THEN SaxEndDocument(@) ELSE @]

(* A whole htmlParseChunk call on a record whose buffer holds the chunk. *)
RECURSIVE RunCall(_, _)
RunCall(q, t) ==
    LET r == TryStep(q, t) IN
    IF r.done THEN ChunkTail(r.p, t) ELSE RunCall(r.p, t)

(* The events of one htmlParseChunk call over all of the bytes b. *)
OneShot(b, t) == RunCall([InitParser EXCEPT !.buf = b], t).ctxt.log

(***************************************************************************)
(* The specification.                                                      *)
(***************************************************************************)
Init ==
    /\ doc \in Documents
    /\ fed = 0
    /\ p = InitParser
    /\ phase = "idle"
    /\ term = FALSE

(* htmlParseChunk(ctxt, chunk, k, t): push the next k bytes of doc.  The  *)
(* caller makes no call after terminate, and an empty call only to        *)
(* terminate (an empty call without it repeats the previous loop).         *)
ParseChunk(k, t) ==
    /\ phase = "idle"
    /\ ~term
    /\ t => fed + k = Len(doc)
    /\ k > 0 \/ t
    /\ p' = [p EXCEPT !.buf = @ \o SubSeq(doc, fed + 1, fed + k)]
    /\ fed' = fed + k
    /\ term' = t
    /\ phase' = "loop"
    /\ UNCHANGED doc

(* One iteration of the loop; goto done also runs the tail of the call. *)
Step ==
    /\ phase = "loop"
    /\ LET r == TryStep(p, term) IN
       /\ p' = IF r.done THEN ChunkTail(r.p, term) ELSE r.p
       /\ phase' = IF r.done THEN "idle" ELSE "loop"
    /\ UNCHANGED <<doc, fed, term>>

Next ==
    \/ \E k \in 0..(Len(doc) - fed), t \in BOOLEAN : ParseChunk(k, t)
    \/ Step

(* The loop runs on the caller's thread until it returns: weak fairness  *)
(* of Step.  The caller owes nothing: ParseChunk is not fair.              *)
Spec == Init /\ [][Next]_vars /\ WF_vars(Step)

(* The safety part alone, for the runs that check no liveness. *)
SafetySpec == Init /\ [][Next]_vars

(***************************************************************************)
(* Properties.                                                             *)
(***************************************************************************)
Instates == {"START", "MISC", "CONTENT", "START_TAG", "END_TAG", "EPILOG",
             "COMMENT", "EOF"}

TypeOK ==
    /\ doc \in Seq(Alphabet)
    /\ fed \in 0..Len(doc)
    /\ p.buf = SubSeq(doc, 1, fed)
    /\ p.cur \in 1..(Len(p.buf) + 1)
    /\ p.instate \in Instates
    /\ p.checkIndex \in 0..Len(p.buf)
    /\ phase \in {"idle", "loop"}
    /\ term \in BOOLEAN

(* The events do not depend on how the caller cut the input into chunks: *)
(* whenever a call has returned, the consumer has received what a single   *)
(* htmlParseChunk call with all the bytes pushed so far, and the same      *)
(* terminate flag, delivers.  The look-ups that defer a construct until    *)
(* its end is in the buffer, and the checkIndex they resume from, are what *)
(* make this hold: a look-up that resumes past its target waits for input  *)
(* that is already there.                                                  *)
ChunkInvariance ==
    phase = "idle" =>
        p.ctxt.log = OneShot(p.buf, term)

(* endDocument is the last event, sent once every element the consumer    *)
(* saw started has been ended, and a terminating call always ends with it  *)
(* (the done block, the EPILOG case and the tail of htmlParseChunk).       *)
DocumentEnded ==
    LET L == p.ctxt.log IN
    /\ \A i \in DOMAIN L :
          L[i][1] = "enddoc" => i = Len(L) /\ p.ctxt.sinkOpen = <<>>
    /\ (term /\ phase = "idle") => L /= <<>> /\ Last(L) = <<"enddoc", NoName>>

(* Every htmlParseChunk call returns: no iteration of the loop of         *)
(* htmlParseTryOrFinish leaves its state unchanged without goto done.      *)
CallReturns == [](phase = "loop" => <>(phase = "idle"))

(* The loop variant behind CallReturns, checked on every document: an     *)
(* iteration that does not end the call consumes input, or else moves      *)
(* ctxt->instate down the order START, MISC, CONTENT/EPILOG, START_TAG/    *)
(* END_TAG, EOF (a case that changes state without consuming a byte).      *)
StateRank == [START |-> 4, MISC |-> 3, CONTENT |-> 2, EPILOG |-> 2,
              START_TAG |-> 1, END_TAG |-> 1, COMMENT |-> 0, EOF |-> 0]

LoopVariant ==
    [][phase = "loop" /\ phase' = "loop" =>
         \/ Avail(p') < Avail(p)
         \/ Avail(p') = Avail(p) /\ StateRank[p'.instate] < StateRank[p.instate]]_vars
=============================================================================

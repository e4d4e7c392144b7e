# TLA+ models of the libxml2 HTML parser (HTMLparser.c)

This directory holds TLA+ models of the HTML parser bundled with JavaFX WebKit,
`src/modules/javafx.web/src/main/native/Source/ThirdParty/libxml/src/HTMLparser.c`
(below, "the code"; line numbers refer to that file). The other files under `src/`
(JavaScriptCore JIT/B3/Wasm helpers and WebCore rendering, SVG and loader headers)
are outside the parser subsystem. `spec.md` puts them out of scope, and they are
listed as not modelled in `PROJECT.json`.

## 1. Inventory of the system

### Parts and how they interact

The parser turns bytes into SAX events: startElement, endElement, characters,
comment, and startDocument/endDocument. A consumer receives the events; this is
the "Sink" of `spec.md`.

| Part | Code | State | Operations |
|---|---|---|---|
| Element tables | `html40ElementTable` 699-976, `htmlStartClose` 986-1236, `htmlNoContentElements` 1245, `htmlEndPriority` 1290-1303 | read-only | `htmlTagLookup`, `htmlCheckAutoClose` 1388, `htmlGetEndPriority` 1353 |
| Open-element stack | `ctxt->nameTab/nameNr/name`, `ctxt->html`, `ctxt->depth` | mutable | `htmlnamePush` 117, `htmlnamePop` 149 |
| Tree constructor | the stack and the SAX callbacks | mutable | `htmlAutoClose` 1479, `htmlAutoCloseOnClose` 1410, `htmlAutoCloseOnEnd` 1453, `htmlCheckImplied` 1554, `htmlCheckParagraph` 1622, `htmlParseStartTag` 3765, `htmlParseEndTag` 3965 |
| Tokenizer | the input cursor | mutable | `htmlParseCharData` 3090, `htmlParseScript` 3004, `htmlParseComment` 3354, `htmlParseCharRef` 3480, `htmlParseReference` 4067 |
| Pull driver | the above, plus `currentNode` and `depth` locals | mutable | `htmlParseElementInternal` 4443, `htmlParseContentInternal` 4530, `htmlParseDocument` 4750 |
| Push driver | `ctxt->instate`, `ctxt->checkIndex`, `ctxt->endCheckState`, the input buffer | mutable, resumable | `htmlParseChunk` 5753, `htmlParseTryOrFinish` 5233, `htmlParseLookupSequence` 5125, `htmlParseLookupCommentEnd` 5198 |
| Scanner / encoding | the input buffer, `ctxt->charset` | mutable | `htmlCurrentChar`, `GROW`/`SHRINK` |
| Context lifecycle | `htmlInitParserCtxt` 4872, reset, options | mutable | init, reset, free |

The two drivers interact with the tree constructor as follows:

- **Pull driver.** The content loop looks at the next character and dispatches
  to the right handler:
  - `</` goes to the end-tag handler;
  - `<` followed by a letter goes to the element handler (start tag, then its tail);
  - any other `<` is reported as characters;
  - `&` goes to the reference handler;
  - NUL ends the input;
  - anything else is character data.

  Every handler goes through the tree constructor, which pushes and pops the
  stack and emits the matching SAX events.
- **Push driver.** It runs the same handlers from a state machine over
  `instate`. It first checks, with `htmlParseLookupSequence`, that the whole
  token is in the buffer. If it is not, it suspends and records where the scan
  stopped (`checkIndex`); the next `htmlParseChunk` resumes from there.

### Behaviours that make this code hard

- **Error recovery is a composition of four rules.** The rules are auto-close
  on a start tag, implied html/head/body/p, the end priority that limits what a
  mismatched end tag closes, and the discarding of misplaced html/head/body.
  Their interaction over sequences of tags is what a unit test rarely reaches.
- **Callers act on `ctxt->name` after `htmlParseStartTag` has returned.** They
  handle `/>`, a missing `>` and empty elements, assuming the new element is
  on top, which is false when the tag was discarded.
- **A sticky level, not the stack, decides whether to imply a body.**
  `ctxt->html` remembers that a body was once opened.
- **One shared counter for misplaced tags.** `ctxt->depth` counts misplaced
  html, head and body tags for all three names.
- **Chunk boundaries.**
  - The push parser must produce the same events however the input is split.
  - The resumable scans (`checkIndex`, `endCheckState`) must neither skip nor
    rescan bytes.
  - With `terminate`, the parse must end with exactly one endDocument.
- **Numeric edges.** These are the character reference accumulation and clamp
  (3489) and the lookup index bound `INT_MAX/2` (5149).
- **The encoding can change under a routine's feet.** With no encoding
  declared, the first byte >= 0x80 that `htmlCurrentChar` reads switches the
  input to Latin-1 and replaces the buffer. Every routine that keeps an
  offset or the last characters across a read must survive that. A meta tag
  can declare the encoding too, and only the first declaration counts.
- **Bounded output buffers.** The converters stop when the output is full
  and report how much input they used; a resumed conversion must neither
  skip nor repeat a character.

### Properties the parts should have

- **The SAX events describe the stack.** Every push is reported by
  startElement and every pop by endElement of the same name, so the consumer's
  open elements equal `nameTab` (`spec.md` §6).
- **The document skeleton stays well formed.** html is only at the root, head
  only directly in html, and at most one body is open.
- **A mismatched end tag closes only what its priority allows.** This is
  the guard of `htmlAutoCloseOnClose` itself, so no run checks it: a property
  stating it would restate the operator.
- **A discarded start tag leaves the stack alone.** The only exception is what
  it auto-closes before being discarded.
- **The push parser's events do not depend on the chunking.** It terminates
  with one endDocument, and the resumable scan finds what a one-shot scan finds.
- **A character reference yields the code point its digits denote,** or the
  replacement/error value when that code point is out of range.
- **Every lexical routine gives what its input means.** This covers text,
  attribute values, comments, PIs, DOCTYPE, script, and start-tag attributes
  (with the first of a repeated name kept). Each routine also leaves the
  input just after its construct.
- **The output converters round-trip.** What they write reads back as their
  input, and never exceeds the buffer.

## 2. Modules and how they correspond to the code

The modules form three groups. They share only `HtmlTables`.

- **Tree construction.** `HtmlTables` → `HtmlTreeOps` → `HtmlContent` (the pull
  content loop) → `HtmlRecursive` (the recursive pull parser, composed with
  `HtmlContent`). It works over tokens.
- **Push driver.** `HtmlTokenizer` → `HtmlPushParser` → `HtmlPushHistory`,
  which refines `AtomicPush`. It works over an abstract byte alphabet and uses
  `HtmlTreeOps` for the stack.
- **Lexical routines.** `HtmlScanner` → `HtmlMarkup`, `HtmlEncode` →
  `HtmlLexer`. They work over real bytes (0..255) and encodings.

| Module | Models |
|---|---|
| `HtmlTables` | The read-only tables, restricted to the 18 names in `TagUniverse` (`"x"` stands for an unknown tag): `EmptyElements`, `StartClose` (the `htmlStartClose` pairs among these names), `CheckAutoClose`, `GetEndPriority` (the whole `htmlEndPriority`), `HeadElements` and `FrameElements` (the name lists inside `htmlCheckImplied`), `NoContentElements`, `RawTextElements`. |
| `HtmlTreeOps` | The tree constructor as pure operators over a context record. Each operator is one C function, named as in the code, and returns the context the function leaves behind. |
| `HtmlContent` / `MCHtmlContent` | The pull parser `htmlParseDocument` and the life of its context. `Init` is `htmlReadDoc` on a new context; `PrologMisc` and `PrologDocType` are the comment/PI loops and the DOCTYPE before the content; every other token action is one iteration of `htmlParseContentInternal`; `EndOfInput` is `CUR == 0` with the final auto-close and endDocument; `CtxtReadDoc` and `CtxtParseDocument` start another document on the same context. The MC module holds the tag sets. |
| `HtmlRecursive` / `MCHtmlRecursive` | The recursive pull parser `htmlParseElement` with `htmlParseContent` (4144-4411), kept for old callers, run in lockstep with `HtmlContent` (an `INSTANCE ... WITH` on renamed variables) on the same tokens. `Call` is the outermost `htmlParseElement`; `ParseElementStart` its start tag and tail; `ElemLoop` one iteration of its `while (CUR != 0)` loop; `ContentEndTag`, `ContentAutoClose`, `ContentReturn`, `ContentScript`, `ContentMarkup`, `ContentElement`, `ContentStrayLt`, `ContentText` and `ContentEnd` the cases of `htmlParseContent`'s loop in the code's order. The MC module holds the tag set. |
| `HtmlTokenizer` | The byte-level scanners of the push parser as pure operators over a parser record `p` (`buf`, `cur`, `instate`, `checkIndex`, `ctxt`): names, start and end tags, character data, script text, comments, bogus comments, and the two look-ups with their `checkIndex` resume. |
| `HtmlPushParser` / `MCHtmlPushParser` | The push driver. `htmlParseChunk` is the action `ParseChunk`; one iteration of the `htmlParseTryOrFinish` loop is the action `Step`. The MC module holds the document sets. |
| `AtomicPush` | What `htmlParseChunk` promises: every call is one atomic step that delivers the events of a one-shot parse of everything pushed so far. |
| `HtmlPushHistory` / `MCHtmlPushAtomic` | `HtmlPushParser` with a history variable `owed` (the events the call in progress owes). It gives the refinement mapping to `AtomicPush` (`INSTANCE AtomicPush WITH ...`), checked as the property `AtomicChunks`. |
| `HtmlScanner` | `htmlCurrentChar` byte for byte, plus `htmlParseCharDataInternal`, `htmlParseCharRef`, `htmlParseName`/`htmlParseNameComplex`, the entity table with `htmlEntityLookup`, `htmlParseEntityRef` and `htmlParseReference`, over an input record `[buf, cur, hasEnc]` (`hasEnc` is `XML_INPUT_HAS_ENCODING`). |
| `HtmlMarkup` | `htmlSkipBlankChars`, `htmlParseComment`, `htmlParsePI`, `htmlParseDocTypeDecl` with `htmlParseExternalID`, `htmlParseSystemLiteral` and `htmlParsePubidLiteral`, and `htmlParseScript`. Each is an operator from an input record to the record after the call and its SAX events. |
| `HtmlEncode` | The output converters `UTF8ToHtml` and `htmlEncodeEntities` with `htmlEntityValueLookup`, as operators from input bytes and `*outlen` to `[ret, out, used]`. |
| `HtmlLexer` / `MCHtmlLexer` | The state machine around those routines. It covers the text loop of the CONTENT case (`htmlParseReference` / `htmlParseCharData`), `htmlParseAttValue` with `htmlParseHTMLAttribute`, one call of each markup routine, the start tag (`htmlParseHTMLName`, `htmlParseAttribute`, the attribute loop of `htmlParseStartTag`, `htmlCheckMeta`, `htmlCheckEncoding`), and converter calls resumed over bounded output buffers. The MC module holds the input sets. |

`HtmlTreeOps` in detail:

- The context record holds `nameTab` (with `ctxt->name` as its last element),
  `html`, `depth` and `options` (the `ctxt->options` bits the model reads:
  `NOIMPLIED`).
- `htmlCtxtUseOptions` ORs the passed bits into `options`; `htmlCtxtReset`
  empties the stack and resets `html` and `depth` but not `options`;
  `htmlCtxtParseDocument` sets `html = 1` and sends startDocument.
- It also holds the consumer's view of the events:
  - `sinkOpen` is the elements started and not ended;
  - `sinkBad` records an endElement that did not name the innermost open element;
- The RECURSIVE operators `htmlAutoClose`, `htmlAutoCloseOnEnd` and
  `CloseUntil` are the `while` loops of the code.
- `StartTagTail` is the tail of `htmlParseElementInternal` (4472-4517):
  - `/>` sends endElement and pops;
  - a missing `>` pops with no event;
  - an empty element sends endElement and pops;
  - in every case it acts on `ctxt->name`.

`HtmlContent` in detail:

- `currentNode` and `depth` are the loop's local copies of `ctxt->name` and
  `ctxt->nameNr`. They are refreshed where the code refreshes them: after an
  element, after an end tag that returned 1 (with `currentNode` set or the
  stack empty), and by the "popped out" test (`PoppedOut`, 4612), which
  `LocalName`/`LocalDepth` apply at the top of every non-end-tag iteration.
- The script/style test (4631) reads `currentNode`, not the stack: text,
  markup and tags inside script or style go to `htmlParseScript`
  (`ParseScriptData`). The start-tag look-ahead (4600-4605) runs before it, so
  a tag that auto-closes script or style (`noscript`, `body`) still closes it.
- `phase` is where `htmlParseDocument` is: the comment/PI loop before a
  DOCTYPE, the loop after it, or the content loop. A comment, PI or DOCTYPE in
  the content is `Markup`.
- `docs` counts the documents parsed with the context, up to `MaxDocs`;
  `readOpts` is the option set the caller passed for the current one (for a
  direct `htmlCtxtParseDocument`, the last one passed).

`HtmlRecursive` in detail:

- The C call stack is the sequence `frames`. An `elem` frame is one
  `htmlParseElement` call in its content loop: `d` is its `depth`, `at` the
  token count when it last called `htmlParseContent` (the `oldptr` of the
  no-progress test). A `content` frame is one `htmlParseContent` call: `cur`
  and `d` are its `currentNode` and `depth` copies.
- `next` is the token at the input position, which every frame reads as its
  look-ahead. A step that consumes it (`Consume`) runs the iterative loop's
  step on the same token (`ItStep`), so after each token both parsers have
  seen the same input; a step that only calls or returns (`Stay`) leaves the
  iterative side alone. `synced` records which kind of step came last.
- The start tag and its tail are `ParseStartTagToken`, shared with the
  iterative loop: `htmlParseElement` repeats the tail of
  `htmlParseElementInternal` line for line (4318-4381 against 4459-4515).

`HtmlContent` in detail:

- Actions:
  - `StartTag(name, close)`, where `close` says how the tag ended: `>`, `/>`,
    or cut off by NUL / end of input;
  - `EndTag(name)`;
  - `Text` (character data or a reference);
  - `StrayLt`;
  - `EndOfInput`.
- Variables:
  - `ctxt` is the context record;
  - `consumed` counts tokens;
  - `terminated` becomes TRUE when the loop leaves (CUR == 0);
  - `token` is a history variable holding the last token, used by the action
    properties.
- A tag cut off by the end of input ends in `htmlParserFinishElementParsing`,
  which calls `htmlAutoCloseOnEnd` (4427). The loop then leaves, so that step
  is terminal.

`HtmlTokenizer` in detail:

- The input alphabet is abstract. Each element name is one letter (`P` is p,
  `H` html, `S` script, `D` div, `X` a name the tables do not know); `1` is a
  character that is neither a letter, a blank nor markup; ` ` is a blank; and
  `<` `/` `>` `!` `-` are the markup bytes. Reading past the end of the buffer
  yields `Nul`, the NUL terminator the push buffer always has.
- `At(p, k)` is `NXT(k)`, `Avail(p)` is `in->end - in->cur`, `Skip(p, n)` is
  `SKIP(n)`. The `while` loops of the scanners are RECURSIVE operators
  (`RunLen`, `UntilGt`, `AttrEnd`, `ScriptLen`, `CommentScan`).
- `ParseStartTag` and `ParseEndTag` consume the bytes and apply the tree
  operators of `HtmlTreeOps`. Without quotes or `=` in the alphabet, the
  attribute loop of `htmlParseStartTag` ends at the first `>`, `/>` or NUL,
  which is what `AttrEnd` computes.
- `ParseCharData` reports a blank run as whitespace and any other run as
  characters after `htmlCheckParagraph`. Whether `areBlanks` picks
  `characters` or `ignorableWhitespace` for a blank run depends on the DOM
  the SAX2 handler built, which is not modelled; both leave the stack alone.
- `LookupSequence` is `htmlParseLookupSequence` without the quote tracking and
  without the `INT_MAX/2` guard. `LookupCommentEnd` is
  `htmlParseLookupCommentEnd`, with its retry loop as recursion.

`HtmlPushParser` in detail:

- Variables: `doc` is the document the caller will push (from the constant
  set `Documents`), `fed` how many of its bytes were pushed, `p` the parser
  record, `phase` is "loop" while `htmlParseTryOrFinish` runs and "idle"
  between calls, and `term` is the `terminate` argument of the current call.
- `ParseChunk(k, t)` appends the next `k` bytes and starts the loop. The caller
  makes no call after `terminate`, and makes an empty call only to terminate.
- `Step` runs `TryStep`: the end-of-input close at the top of the loop, then
  one case of the switch (`StepStart`, `StepMisc`, `StepContent`,
  `StepStartTag`, `StepEndTag`, `StepEpilog`). A case ends in `Continue`
  (`break`) or `Done` (`goto done`); `Done` also runs the done block, and the
  step that ends the loop also runs the tail of `htmlParseChunk` (`ChunkTail`).
- `Looked(q, l, t)` is the `(!terminate) && lookup(...) < 0` idiom: with
  `terminate` the look-up is not called, so `checkIndex` is left alone.
- `RunCall(q, t)` is a whole `htmlParseChunk` call as one operator; the
  properties use it for the single-call reference.
- `ctxt.log` (enabled by `KeepLog`) is the sequence of SAX events the
  consumer received. Adjacent characters for the same element are one entry,
  as the SAX2 tree builder merges adjacent text.

`HtmlLexer` in detail:

- **Constants.** `InputGroups` is a set of sets of input records, and `Init`
  picks one input of one group. The MC module keeps its input sets apart
  because TLC forms the union of large sets slowly.
- **Variables.**
  - `src` is the input record `[text, declared, ctx, recovery, quote]`. `ctx`
    says which routine runs: `text`, `attr`, `comment`, `pi`, `doctype`,
    `script`, `tag`, `tohtml` or `encode`.
  - `in` is the scanner's input record.
  - `out` holds the bytes handed to characters(), an attribute value, or the
    converter output.
  - `events` holds the SAX events of a call.
  - `atts` holds the pairs `startElement` received.
  - `encoding` is the name a meta tag switched the input to.
  - `called` says the routine has returned.
  - `room` is the `*outlen` of the last converter call.
- **Actions.**
  - `ParseReference` and `ParseCharData` are the two arms of the text loop.
  - `ParseAttValue` is one `htmlParseAttValue` call.
  - `CommentCall`, `PICall`, `DocTypeCall`, `ScriptCall` and `StartTagCall`
    are one call each.
  - `Convert` is one converter call, with any output size in `OutLens`,
    applied to the input not yet processed.
- **Loops.** The `while` loops of the code are RECURSIVE operators (`CharRun`,
  `AttrRun`, `CommentLoop`, `LiteralRun`, `ScriptRun`, `AttrLoop`,
  `ToHtmlLoop`, `EncodeLoop`, ...). They take the same branches in the same
  order as the code, with the NUL, end-of-buffer and encoding-switch paths.
- **Results passed as parameters.** A routine's result is passed to a small
  operator, such as `Named(n)` in `ParseStartTag` or `EntityAfterName(nm)`,
  and is not bound with `LET x == ...` and then read several times. The
  meaning is the same. TLC's coverage pass expands a `LET` name at every place
  it is used, so nested routines written with `LET` take that pass minutes.
- **The attribute path has its own reference code.** `AttrReference` follows
  the entity branch of `htmlParseHTMLAttribute`. `Reference` is
  `htmlParseReference`, which only the text loop calls.
- **Reference definitions.** Each property compares the code's result with a
  reference definition written from `spec.md` over Unicode scalars:
  `Resolve`, `AttValueMeaning`, `CommentMeaning`, `PIMeaning`,
  `DocTypeMeaning`, `ScriptMeaning`, `TagMeaning` and `MetaMeaning`.
- **Two routines outside this tree.**
  - `xmlNextChar` (NEXT outside ASCII) is `NextChar`, which advances by one
    UTF-8 character.
  - `xmlSetDeclaredEncoding` is `SetDeclaredEncoding`: the first name
    switches an input whose encoding was not declared. The decoding after
    that switch is not modelled, because the start-tag call ends there.
- **The start tag.** It is modelled for a tag that the tree side keeps. The
  discard and implication rules are in `HtmlTreeOps`.

What is abstracted, and why it does not matter here:

- **The tree and push models see tokens, not text.** Attributes, comment
  text, PIs and doctypes never touch the stack. Their byte-level routines are
  checked separately in the lexer group.
- **The text of character data is "a non-blank text token".** Blank text
  (`areBlanks`) neither calls `htmlCheckParagraph` nor changes the stack.
- **Node position tracking (`record_info`) is left out.** It is bookkeeping
  only.
- **The content loop's look-ahead auto-close (4601) is not a separate step.**
  It runs `htmlAutoClose` with the same name that `htmlParseStartTag` then
  passes to it again, so it has the same effect.
- **The lexer group reads one input of bounded length per behaviour.** There
  is no GROW or SHRINK. The push driver's look-ups
  (`htmlParseLookupSequence`) are what guarantee that a routine gets its
  whole construct; they are modelled in `HtmlTokenizer`.

## 3. Runs

Every cfg says `CHECK_DEADLOCK FALSE`. In each case a parse, or a single
routine call, really stops: after the end of the input, the terminating
`htmlParseChunk` call, the return of the outermost `htmlParseElement`, or
the return of the routine, there is nothing left to
do.

| Run | Module / cfg | Properties | Expect | Shows |
|---|---|---|---|---|
| `sink` | MCHtmlContent, html head body style script noscript p x, tags ended by `>`, `/>` or cut off, text, 7 tokens, one document | TypeOK, RawTextModeAgrees, StructureSkeleton, HtmlRootImplied | pass | The html/head/body skeleton stays well formed and rooted at html, even after `</html>`; the loop's cached `currentNode` never sends markup to the script parser or script text to the markup parser, including with truncated tags. |
| `recovery` | MCHtmlContent, body div table tr td p br, `>` `/>`, text, stray `<`, comments, PIs, DOCTYPE, 6 tokens over up to 2 documents on one context | SinkMirrorsStack | pass | Every stack change made by auto-close, implied tags, mismatched end tags and empty elements is reported to the consumer, also in a second document on a reused context. |
| `cutoff_unbalanced` | MCHtmlContent, `>` or cut off, 4 tokens | SinkMirrorsStack | violation | Finding F1. |
| `discard_selfclose` | MCHtmlContent, `>` `/>`, 5 tokens | DiscardedTagKeepsParents | violation | Finding F3. |
| `ctxt_reuse` | MCHtmlContent, `p`, 2 tokens, 2 documents, options {} or {NOIMPLIED} | HtmlRootImplied | violation | Finding F2. |
| `push_chunks` | MCHtmlPushAtomic, `<P>` then up to 3 of `<P>` `</P>` `<D>` `<!---->` `<S>` `</S>` `<1` `1` ` `, every chunking | TypeOK, DocumentEnded, LoopVariant, AtomicChunks | pass | The push parser implements `AtomicPush`: after every call, the events equal those of one call on everything pushed so far. Every loop iteration progresses, and terminate closes every element before endDocument. |
| `push_returns` | MCHtmlPushParser, `<P>` then `1`, `<` or `<1` | CallReturns | pass | Under weak fairness of `Step`, every `htmlParseChunk` call returns. |
| `push_bang_comment` | MCHtmlPushParser, `<P>` then up to 2 of `<!--!>` `<!---->` `1` | ChunkInvariance | violation | Finding F4. |
| `push_trailing_lt` | MCHtmlPushParser, `<P>` then up to 2 of `<` `1` | DocumentEnded | violation | Finding F5. |
| `lexer` | MCHtmlLexer, `PassInputs` (below) | TypeOK, TextMeaning, AttrMeaning, CommentAgrees, PIAgrees, DocTypeAgrees, ScriptAgrees, ToHtmlMeaning, RoundTrip, TagAgrees, MetaEncoding, LoopAdvances, OutputFits | pass (about 132k states, about a minute) | Every lexical routine gives what its input means. The text loop always progresses. The converters never overrun their buffer, and their output reads back as their input. |
| `name_switch` | MCHtmlLexer, `&`, `a`, `é`, `;`, up to 4, undeclared | TextMeaning | violation | Finding F6. |
| `recursive` | MCHtmlRecursive, html body script p div x, tags ended by `>`, `/>` or cut off, text, stray `<`, comments, 5 tokens starting with a start tag | TypeOK, RecursiveAgrees | pass (about 1.5M states, under two minutes) | The recursive parser and the iterative loop that replaced it agree after every token, however the recursion returns on end tags, auto-closes, popped-out elements and the end of input. |

The lexer inputs (`MCHtmlLexer`) are every sequence of up to three pieces
from these sets:

- **Text runs and attribute values.** References of every kind: known,
  unknown and unterminated names; decimal, hex, out-of-range, surrogate and
  empty character references. Also NUL, a control byte, `<` and a digit.
  Latin-1 bytes are used undeclared and UTF-8 characters of 2 to 4 bytes
  declared.
- **Comments.** Dashes, `>`, `!`, a letter, NUL and a control byte.
- **PIs.** A target, blanks, `>`, NUL, and non-ASCII characters.
- **DOCTYPEs.** SYSTEM and PUBLIC with literals that are closed, unclosed,
  empty or hold invalid characters.
- **Scripts.** End tags in both cases, with both `recovery` values.
- **Start tags.** `meta` in either case, another name, or a non-name, then:
  - `charset` in either case and quoting;
  - `http-equiv=Content-Type`;
  - contents with `charset` after a blank or inside a list;
  - attributes without a value and with blanks around `=`;
  - a bogus attribute;
  - `/>` and `>`.

  Both declared and undeclared inputs are used.
- **Converters.** `a`, a blank, U+0080, é, €, U+1F600, plus (for
  `htmlEncodeEntities`) a control byte, `& < > " '` with both quote
  characters. Output buffers are 4 and 10 bytes.

Why the bounds are enough:

- **Seven tokens reach every interaction of the tree rules.** They reach:
  - an implied html+head+body;
  - a p auto-closed by a div or table;
  - a td blocked by its priority;
  - a second html or body discarded.

  The counterexamples are 3 to 5 tokens long.
- **Every chunking of every push document is explored.** A cut can fall
  inside any token, so each look-up is seen failing (saving `checkIndex`)
  and resuming. `AtomicChunks` compares after every call, so a look-up that
  resumes past its target is caught even though `terminate` would parse the
  bytes anyway.
- **Three pieces put every pair of lexical cases next to each other.**
  Examples: a reference running into a name character, a NUL between two
  dashes, a repeated attribute after a bogus one, a charset attribute before
  or after an http-equiv content. Four bytes of output buffer are less than
  the largest entity (`&euro;`) needs, and ten bytes are more, so both the
  short-buffer return and the resume are reached.
- **Five tokens take the recursion through every way out of a call.** They
  cover an end tag that returns, a look-ahead auto-close (`<p><div>`), a
  popped-out return, a start tag inside script (kept as script text), and a `/>` or cut-off
  start tag inside an element. They also cover the end of input inside
  nested calls, and the empty-stack return after `</html>`. The recursive
  parser's copies of `ctxt->name` go stale on these paths.
- **The liveness run is small on purpose.** TLC evaluates the fairness
  condition on the heavy `Step` action without caching. `LoopVariant` carries
  the same termination argument, as a safety property, over the large
  document set.

Each property of a passing run has a mutant in `PROJECT.json`: a plausible bug
in the mapped operator, which TLC finds. Examples: an empty element
popped without its endElement, a look-up that does not reset `checkIndex`, `AttrLoop` without
the redefinition check, `htmlCheckMeta` handing over the content charset
first, and `UTF8ToHtml` counting in `*inlen` the character that did not fit.
`RecursiveAgrees` is broken by `htmlParseElement` leaving out its copy of
the `/>`, missing `>` and empty-element tails. It is not broken by the
popped-out test with no depth condition, by the content loop with no
`nameNr < depth` break, or by the script test reading `ctxt->name` instead
of `currentNode`. On the reachable paths these give the same events (see
the observation on recursion depth). `LoopAdvances` is broken by `htmlParseReference` emitting `&` for a
reference with no name and leaving the cursor on it. With `htmlParseEntityRef`
missing its `NEXT`, the attribute loop would never return, and TLC would
overflow its stack before it reported the text loop.

### Findings

- **F1 (4497, 5515).** A start tag cut off before `>` is popped without
  endElement, so the consumer keeps an element the parser dropped.
- **F2 (6300, 6147).** `htmlCtxtUseOptions` only ORs `HTML_PARSE_NOIMPLIED`
  (and NODEFDTD, NOBLANKS, PEDANTIC, HUGE, COMPACT, IGNORE_ENC) into
  `ctxt->options`, and `htmlCtxtReset` never clears `ctxt->options`. After a
  read with NOIMPLIED, `htmlCtxtReadDoc(ctxt, "<p>",
  ..., 0)` still parses with NOIMPLIED: `p` becomes the root, with no implied
  html and body. The trace: the first document ends, `CtxtReadDoc({})`, then
  `<p>`.
- **F3 (4480, 4497, 5496).** After a misplaced `<html>`/`<head>`/`<body>` is
  discarded, its `/>` (or a missing `>`) closes the parent instead. For
  example, `<html><html/>` pops the root.
- **F4 (5207).** `htmlParseLookupCommentEnd` takes the dashes of `<!--`
  itself as the `--` of `--!>`, so `<!--!>` is reported complete. But
  `htmlParseComment` treats it as unfinished and swallows the buffer.
  Whether the bytes after it become content depends on where the chunk ends.
- **F5 (5574).** A `<` as the last byte of a terminated document falls
  through to `avail < 2 -> goto done`. The done block closes elements only
  when `avail == 0`, so `htmlParseChunk` sends endDocument with html, body
  and p still open and no endElement for them.
- **F6 (2598).** With no encoding declared, an entity name whose ASCII start
  is followed by a byte >= 0x80 is read by `htmlParseNameComplex`. Its
  `htmlCurrentChar` call switches the input to Latin-1 and replaces the
  buffer, and the restart then reads the name from the switched position.
  The letters already read are lost: `&a` followed by the byte 0xE9 gives
  the text `&é` instead of `&aé`.

### Observations (traces seen while modelling, no run of their own)

- **Stray `<` (4691).** `characters("<")` skips `htmlCheckParagraph`, so text
  can arrive with no open element or directly in html. Adding `"lt"` to the
  sink run's `TextKinds`, with an invariant that text lands only in a content
  element, fails in two steps (`<` as the first character). No comment in the
  code says whether this is intended, and the 12 runs the check allows are
  taken, so it has no run of its own.
- **Raw text closed by a look-ahead (4601).** `<script><noscript>` and
  `<style><body>` close the script or style element, because the start-tag
  look-ahead runs before the script test. `spec.md` §4.3 says raw text is
  verbatim until `</`, and the push parser keeps such tags as script text.
- **Depth shared by html, head and body (4000).** In `<body><html></body>`,
  the misplaced `<html>` raises `ctxt->depth`, and the `</body>` is swallowed
  instead of the `</html>`: body stays open. `spec.md` §4.4 step 4 says the
  discarded tag's matching end tag is the one discarded. A direct
  `htmlCtxtParseDocument` on a used context does not reset `depth`, so the
  count carries into the next document (6336).

- **Body not re-implied (1591).** Once a body has been opened,
  `ctxt->html >= 10` stops body implication. Content after `</body>` or
  `</html>` lands in html or at the top level. This is deliberate libxml
  behaviour.
- **Text in EPILOG (5400).** After an end tag has emptied the stack, a blank
  hands the rest of the text to `htmlParseCharData`. Text arriving in a later
  chunk is one byte short of the two bytes EPILOG needs, or ends the
  document: `</p> ` then `1` delivers no text, where `</p> 1` in one chunk
  delivers `<p>1</p>`. `ChunkInvariance` fails on that split.
- **No tbody (1554).** No tbody (or any other `defaultsubelt`) is ever
  implied, although `spec.md` §8 says one is synthesised.
- **Invalid UTF-8 (491).** With an encoding known, an invalid UTF-8 byte is
  returned raw with length 1 and copied to the consumer as is. The spec says
  it becomes a space.
- **NUL in an attribute value (2663).** `&#;` in an attribute value encodes
  the value 0 as a NUL byte, so `&#;1` reads as the empty string.
  `AttrMeaning` fails when such references are included.
- **Script end-tag prefix (3024).** In recovery mode, `</scriptx` ends a
  script, because the name is compared over its own length only.
- **PI at the end of input (2545).** `htmlParseName` returns NULL for a name
  that runs to the end of the input, so `<?abc` at the end of a terminated
  document is not a PI.
- **Partial UTF-8 character in `UTF8ToHtml` (2104).** `C3 41 62` comes out as
  `03 62` with return value 0. `ToHtmlMeaning` fails on it; the converter
  inputs are valid UTF-8.
- **Meta content charset (3691).** In `<meta http-equiv=Content-Type
  content='a=b;charset =x'>`, the blank after `charset` makes
  `htmlCheckEncoding` search for the first `=` of the whole value. The
  declared encoding is `b;charset =x`; `MetaEncoding` (which expects `x`)
  fails on it. The start-tag inputs have no `=` before `charset`.
- **System literal in UTF-8 (2902).** `htmlParseSystemLiteral` advances by
  whole UTF-8 characters, but it copies as many bytes as it counted
  characters (the code's own `TODO: Handle UTF-8`). `SYSTEM "aéb"` gives the
  system ID `aé`, losing the `b`, and `SYSTEM "é"` gives the lone byte 0xC3.
  `DocTypeAgrees` fails on these inputs, so the lexer run's literals are ASCII.
- **Recursion depth of `htmlParseElement` (4196, 4244).** The popped-out
  test compares names, and it is skipped when `nameNr == 0`. A content
  loop whose element has been closed therefore keeps running:
  - after `</html>` has emptied the stack;
  - when the closed element's parent has the same name (`<x><x><html/>`,
    whose `/>` closes the inner `x`, see F3).

  Its next sub-element is then a nested call at the depth of a sibling. An
  invariant saying that a nested call starts deeper than its caller (or at
  the same depth on the same element, for a discarded tag) fails on
  `<x><x></html><x>` and on `<x><x><html/><p>`. So the C stack grows with
  the number of such elements, not with the nesting of the document. No
  depth limit exists (`htmlnamePush` grows `nameTab` without bound either).
  The events do not change, and `RecursiveAgrees` holds. `htmlParseElement`
  has no caller in this repository.
- **Long names (2457).** `htmlParseHTMLName` stops after 100 bytes without
  consuming the rest, so a longer attribute name becomes two attributes.

## 4. Fairness

- **The content loop and the lexical routines assume no fairness.** Their
  behaviours are finite, and the properties there are safety properties
  (including the action properties `LoopAdvances` and `LoopVariant`, which
  carry the termination argument).
- **The push liveness run assumes weak fairness of `Step`.** Its
  specification is `Init /\ [][Next]_vars /\ WF_vars(Step)`, and the code
  guarantees exactly that. Once `htmlParseChunk` has called
  `htmlParseTryOrFinish`, the loop runs on the caller's thread with nothing
  else touching the context (`spec.md` §5: one context, one thread), so an
  enabled iteration is taken.
- **`ParseChunk` gets no fairness.** The caller owes the parser nothing and
  may never push another byte.

## 5. Not modelled, and why

- **GROW/SHRINK, `htmlFindEncoding`, transcoding after a declared switch.**
  These are I/O-buffer management. The lexer inputs are whole constructs, and
  the sniff is taken to find nothing.
- **An invalid element name after `<` in the recursive parser.** This is
  the `htmlParseHTMLName_nonInvasive` NULL return (4171-4181). The token
  alphabet has only valid names.
- **The rest of `htmlParseDocument` and of the context set-up.** Encoding
  detection, the `<?xm` switch and the default DTD after endDocument read or
  write nothing the models track. Of the options only NOIMPLIED changes the
  tree; the others change error reporting, length limits or blank handling.
  `htmlReadFile`/`htmlReadMemory`/`htmlReadFd` and their `htmlCtxtRead*`
  twins differ from `htmlReadDoc`/`htmlCtxtReadDoc` only in how the input is
  made.
- **Node info and position tracking, DOM helpers** (`htmlAutoCloseTag`,
  `htmlNodeStatus`, `htmlNewDoc`, ...). These are bookkeeping and stateless
  queries.
- **Allocation failure.** The `htmlnamePush` `-1` path is listed as a hazard;
  it needs a failure choice on every push.
- **The JavaScriptCore and WebCore files.** They are outside the parser.

## 6. Plan

Done so far:

1. **Tree constructor and pull content loop.** `HtmlTables`,
   `HtmlTreeOps`, `HtmlContent`.
2. **The push driver over chunks.** `HtmlTokenizer`, `HtmlPushParser`, and
   its refinement of `AtomicPush` via `HtmlPushHistory`.
3. **Document and context lifecycle.** `htmlParseDocument`'s prolog, the
   loop's cached locals and the script branch, and context reuse with
   options (`CtxtReadDoc`, `CtxtParseDocument`).
4. **The lexical routines at byte level.** `HtmlScanner`, `HtmlMarkup`,
   `HtmlEncode`, `HtmlLexer`: text and references, attribute values, comments,
   PIs, DOCTYPE, script, start-tag attributes and the meta charset, and the
   output converters.
5. **The recursive pull parser.** `HtmlRecursive`, an explicit call stack
   run in lockstep with `HtmlContent`.

Next, in order:

1. **The depth-counter hazard (4000).** A property relating each swallowed
   end tag to an earlier discarded start tag of the same name.
2. **Composition of the two groups.** Feed `HtmlTokenizer`'s tag tokens
   through `ParseStartTag` of `HtmlLexer` so that attributes reach the tree
   side, and give the push alphabet a `?` and `&` for PIs and references in
   push mode.
3. **A NOIMPLIED passing run,** and pull/push equivalence composing
   `HtmlContent` and `HtmlPushParser`.
4. **Larger instances.** Four pieces per lexer input, on the converters
   first.

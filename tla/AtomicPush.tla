----------------------------- MODULE AtomicPush -----------------------------
(***************************************************************************)
(* What htmlParseChunk promises its caller, with the chunking abstracted  *)
(* away: every call is one atomic step after which the consumer has        *)
(* received exactly the events of one parse of all the bytes pushed so     *)
(* far, with the call's terminate flag.  Parse(bytes, terminate) is that   *)
(* one-shot parse.  The caller pushes a prefix of its document doc that   *)
(* grows with every call, and makes no call after a terminating one.       *)
(***************************************************************************)
EXTENDS Naturals, Sequences

CONSTANTS
    Documents,   \* the documents a caller may push
    Parse(_, _)  \* the events of a one-shot parse of a byte sequence

VARIABLES
    doc,         \* the document being pushed
    pushed,      \* the bytes pushed so far
    done,        \* a terminating call has been made
    events       \* what the consumer has received

avars == <<doc, pushed, done, events>>

AInit ==
    /\ doc \in Documents
    /\ pushed = <<>>
    /\ done = FALSE
    /\ events = <<>>

(* One call pushing the next k bytes, terminating when t. *)
Push(k, t) ==
    /\ ~done
    /\ t => Len(pushed) + k = Len(doc)
    /\ k > 0 \/ t
    /\ pushed' = SubSeq(doc, 1, Len(pushed) + k)
    /\ done' = t
    /\ events' = Parse(pushed', t)
    /\ UNCHANGED doc

ANext == \E k \in 0..(Len(doc) - Len(pushed)), t \in BOOLEAN : Push(k, t)

ASpec == AInit /\ [][ANext]_avars
=============================================================================

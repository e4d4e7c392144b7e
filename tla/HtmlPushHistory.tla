-------------------------- MODULE HtmlPushHistory ---------------------------
(***************************************************************************)
(* HtmlPushParser with one auxiliary (history) variable, owed: the events *)
(* the htmlParseChunk call in progress owes its caller on return, fixed    *)
(* when the call starts.  owed never influences a step of the parser; it  *)
(* only gives the refinement mapping to AtomicPush something to map the    *)
(* abstract events to while a call is half done.                           *)
(***************************************************************************)
EXTENDS HtmlPushParser

VARIABLE owed

hvars == <<vars, owed>>

HInit == Init /\ owed = <<>>

HNext ==
    \/ \E k \in 0..(Len(doc) - fed), t \in BOOLEAN :
          ParseChunk(k, t) /\ owed' = OneShot(p'.buf, t)
    \/ Step /\ UNCHANGED owed

HSpec == HInit /\ [][HNext]_hvars

(***************************************************************************)
(* The refinement mapping: between calls the abstract events are what the *)
(* consumer has received; inside a call they are what the call owes.  The  *)
(* abstract step is the implementation's ParseChunk; the loop steps of     *)
(* htmlParseTryOrFinish, the last one included, are stuttering steps.      *)
(***************************************************************************)
Owed == IF phase = "idle" THEN p.ctxt.log ELSE owed

Atomic == INSTANCE AtomicPush WITH
              pushed <- p.buf, done <- term, events <- Owed, Parse <- OneShot

(* Every behaviour of the push parser, with the input cut into chunks     *)
(* however the caller likes, is a behaviour of AtomicPush: each            *)
(* htmlParseChunk call returns having delivered the events of a one-shot   *)
(* parse of everything pushed so far, and no iteration of the loop of      *)
(* htmlParseTryOrFinish changes what the call owes.                        *)
AtomicChunks == Atomic!ASpec
=============================================================================

---------------------------- MODULE MessageEvents ----------------------------
(***************************************************************************)
(* What a client of the Claude messages API may read on a stream: a start, *)
(* content blocks numbered from 0, each opened, extended by deltas of its  *)
(* own kind and closed before the next, then message_delta and             *)
(* message_stop; an error may come instead, but never inside a block.      *)
(***************************************************************************)
EXTENDS Integers

CONSTANT Kinds

VARIABLE last  \* the last event on the wire

Event(type, kind, index) == [type |-> type, kind |-> kind, index |-> index]

Mark(type) == Event(type, "none", 0)

Starts(index) == {Event("content_block_start", kind, index) : kind \in Kinds}

Follows(e) ==
  CASE e.type = "none" -> {Mark("message_start"), Mark("error")}
    [] e.type = "message_start" -> Starts(0) \cup {Mark("error")}
    [] e.type \in {"content_block_start", "content_block_delta"} ->
         {Event("content_block_delta", e.kind, e.index),
          Event("content_block_stop", "none", e.index)}
    [] e.type = "content_block_stop" ->
         Starts(e.index + 1) \cup {Mark("message_delta"), Mark("error")}
    [] e.type = "message_delta" -> {Mark("message_stop")}
    [] OTHER -> {}

Init == last = Mark("none")

Next == last' \in Follows(last)

Spec == Init /\ [][Next]_last
=============================================================================

----------------------------- MODULE ClaudeStream -----------------------------
(***************************************************************************)
(* One streamed request of the Claude adapter: ClaudeController.Handle-    *)
(* Messages and ClaudeService.GenerateMessageStream, which turns the       *)
(* provider's thinking and content events into content blocks, or, when    *)
(* the request has tools, buffers the answer and sends what it reads out   *)
(* of it.  Every write may find the client gone, and then every later one  *)
(* does (the writer's error is sticky).                                    *)
(***************************************************************************)
EXTENDS Integers

CONSTANTS
  MaxEvents,  \* bound: provider events and text chunks
  MaxUses     \* bound: tool calls of one answer

ASSUME BoundsAssumption == MaxEvents \in Nat /\ MaxUses \in Nat

Kinds == {"thinking", "text", "tool_use"}

VARIABLES
  pc,
  hasTools,
  event,        \* the kind of block the current provider event belongs to
  inThinking, blockOpen, contentIndex,
  uses,         \* tool calls still to be sent
  seen,
  streamErr,    \* what the service returns to the controller
  last,         \* the last event on the wire
  connected,
  status        \* of the request's record

reading == <<event, inThinking, blockOpen, contentIndex, seen>>
wire == <<last, connected>>
vars == <<pc, hasTools, reading, uses, streamErr, wire, status>>

Events == INSTANCE MessageEvents

Init ==
  /\ pc = "start" /\ hasTools \in BOOLEAN
  /\ event = "text" /\ inThinking = FALSE /\ blockOpen = FALSE /\ contentIndex = 0
  /\ uses = 0 /\ seen = 0 /\ streamErr = FALSE
  /\ last = Events!Mark("none") /\ connected = TRUE /\ status = "none"

Goto(label) == pc' = label

(* onEvent, SendSSEChunk: the event is written, or the client is gone.     *)
Written(e) == connected /\ last' = e /\ UNCHANGED connected
Lost == connected' = FALSE /\ UNCHANGED last

Block(type, kind) == Events!Event(type, kind, contentIndex)
BlockStop == Events!Event("content_block_stop", "none", contentIndex)

-----------------------------------------------------------------------------
(* The request has nothing to send, or an attachment cannot be had. *)
Refuse ==
  /\ pc = "start"
  /\ streamErr' = TRUE /\ Goto("error")
  /\ UNCHANGED <<hasTools, reading, uses, wire, status>>

Begin ==
  /\ pc = "start"
  /\ Goto(IF hasTools THEN "buffer" ELSE "greet")
  /\ UNCHANGED <<hasTools, reading, uses, streamErr, wire, status>>

Greet ==
  /\ pc = "greet"
  /\ \/ Written(Events!Mark("message_start")) /\ Goto(IF hasTools THEN "use" ELSE "stream")
     \/ Lost /\ Goto("log")
  /\ UNCHANGED <<hasTools, reading, uses, streamErr, status>>

(* handleStreamEvent, up to its first write. *)
Receive(kind) ==
  /\ pc = "stream" /\ seen < MaxEvents
  /\ event' = kind /\ seen' = seen + 1
  /\ Goto(IF inThinking = (kind = "thinking") /\ (inThinking \/ blockOpen) THEN "delta"
          ELSE IF blockOpen THEN "close" ELSE "open")
  /\ UNCHANGED <<hasTools, inThinking, blockOpen, contentIndex, uses, streamErr, wire, status>>

(* Mutant of CloseBlock: the next block takes the same index. *)
CloseBlockInPlace ==
  /\ pc = "close"
  /\ blockOpen' = FALSE
  /\ \/ Written(BlockStop) /\ inThinking' = FALSE /\ UNCHANGED contentIndex /\ Goto("open")
     \/ Lost /\ UNCHANGED <<contentIndex, inThinking>> /\ Goto("left")
  /\ UNCHANGED <<hasTools, event, seen, uses, streamErr, status>>

(* closeBlock before a block of the other kind. *)
CloseBlock ==
  /\ pc = "close"
  /\ blockOpen' = FALSE
  /\ \/ /\ Written(BlockStop)
        /\ contentIndex' = contentIndex + 1 /\ inThinking' = FALSE /\ Goto("open")
     \/ Lost /\ UNCHANGED <<contentIndex, inThinking>> /\ Goto("left")
  /\ UNCHANGED <<hasTools, event, seen, uses, streamErr, status>>

OpenBlock ==
  /\ pc = "open"
  /\ \/ /\ Written(Block("content_block_start", event))
        /\ blockOpen' = TRUE /\ inThinking' = (event = "thinking") /\ Goto("delta")
     \/ Lost /\ UNCHANGED <<blockOpen, inThinking>> /\ Goto("left")
  /\ UNCHANGED <<hasTools, event, contentIndex, seen, uses, streamErr, status>>

(* A thinking event may carry no text. *)
Delta ==
  /\ pc = "delta"
  /\ \/ Written(Block("content_block_delta", event)) /\ Goto("stream")
     \/ event = "thinking" /\ UNCHANGED wire /\ Goto("stream")
     \/ Lost /\ Goto("left")
  /\ UNCHANGED <<hasTools, reading, uses, streamErr, status>>

(* Mutant of Streaming: the stream outlives a client that has left. *)
StreamingOnly == pc \in {"stream", "buffer"}

Streaming == pc \in {"stream", "left", "buffer"}

(* GenerateContentStreamForOpenAI returns: at its end, in error, or after  *)
(* the handler refused an event ("left"); a buffered answer is read.       *)
StreamEnds ==
  /\ Streaming
  /\ \E err \in BOOLEAN, n \in 0..MaxUses :
       /\ streamErr' = err
       /\ IF pc = "buffer"
          THEN uses' = n /\ Goto(IF err THEN "error" ELSE "greet")
          ELSE UNCHANGED uses /\ Goto("last")
  /\ UNCHANGED <<hasTools, reading, wire, status>>

(* Mutant of AfterLast: a broken stream ends like a whole one. *)
AfterLastAlways(index) == IF index = 0 THEN "empty" ELSE "finish"

AfterLast(index) ==
  IF streamErr THEN "error" ELSE IF index = 0 THEN "empty" ELSE "finish"

(* closeBlock once the stream is over. *)
CloseLast ==
  /\ pc = "last"
  /\ blockOpen' = FALSE
  /\ \/ ~blockOpen /\ Goto(AfterLast(contentIndex)) /\ UNCHANGED <<contentIndex, wire, streamErr>>
     \/ /\ blockOpen /\ Written(BlockStop)
        /\ contentIndex' = contentIndex + 1
        /\ Goto(AfterLast(contentIndex + 1)) /\ UNCHANGED streamErr
     \/ /\ blockOpen /\ Lost /\ streamErr' = FALSE
        /\ Goto("log") /\ UNCHANGED contentIndex
  /\ UNCHANGED <<hasTools, event, inThinking, seen, uses, status>>

(* Nothing was received: an empty text block. *)
EmptyBlock ==
  /\ pc = "empty"
  /\ \/ Written(Block("content_block_start", "text")) /\ Goto("emptystop")
     \/ Lost /\ Goto("log")
  /\ UNCHANGED <<hasTools, reading, uses, streamErr, status>>

EmptyBlockStop ==
  /\ pc = "emptystop"
  /\ \/ Written(BlockStop) /\ Goto("finish")
     \/ Lost /\ Goto("log")
  /\ UNCHANGED <<hasTools, reading, uses, streamErr, status>>

-----------------------------------------------------------------------------
(* streamWithToolBridge, after message_start: a block for each tool call,  *)
(* or one for the text, in chunks of which there is at least one.          *)
UseKind == IF uses > 0 THEN "tool_use" ELSE "text"

UseBlock ==
  /\ pc = "use"
  /\ \/ Written(Block("content_block_start", UseKind)) /\ Goto("input")
     \/ Lost /\ Goto("log")
  /\ UNCHANGED <<hasTools, reading, uses, streamErr, status>>

UseDelta ==
  /\ pc = "input"
  /\ \/ /\ Written(Block("content_block_delta", UseKind))
        /\ \/ Goto("usestop") /\ UNCHANGED seen
           \/ uses = 0 /\ seen < MaxEvents /\ seen' = seen + 1 /\ UNCHANGED pc
     \/ Lost /\ Goto("log") /\ UNCHANGED seen
  /\ UNCHANGED <<hasTools, event, inThinking, blockOpen, contentIndex, uses, streamErr, status>>

UseBlockStop ==
  /\ pc = "usestop"
  /\ \/ /\ Written(BlockStop)
        /\ contentIndex' = contentIndex + 1
        /\ uses' = IF uses > 0 THEN uses - 1 ELSE 0
        /\ Goto(IF uses > 1 THEN "use" ELSE "finish")
     \/ Lost /\ Goto("log") /\ UNCHANGED <<contentIndex, uses>>
  /\ UNCHANGED <<hasTools, event, inThinking, blockOpen, seen, streamErr, status>>

-----------------------------------------------------------------------------
Finish ==
  /\ pc = "finish"
  /\ \/ Written(Events!Mark("message_delta")) /\ Goto("stop")
     \/ Lost /\ Goto("log")
  /\ UNCHANGED <<hasTools, reading, uses, streamErr, status>>

Stop ==
  /\ pc = "stop"
  /\ \/ Written(Events!Mark("message_stop")) \/ Lost
  /\ Goto("log")
  /\ UNCHANGED <<hasTools, reading, uses, streamErr, status>>

(* The controller tells the client of an error. *)
SendError ==
  /\ pc = "error"
  /\ \/ Written(Events!Mark("error")) \/ Lost
  /\ Goto("log")
  /\ UNCHANGED <<hasTools, reading, uses, streamErr, status>>

LogRequest ==
  /\ pc = "log"
  /\ status' = IF streamErr THEN "error" ELSE "success"
  /\ Goto("done")
  /\ UNCHANGED <<hasTools, reading, uses, streamErr, wire>>

Next ==
  \/ Refuse \/ Begin \/ Greet
  \/ \E kind \in {"thinking", "text"} : Receive(kind)
  \/ CloseBlock \/ OpenBlock \/ Delta
  \/ StreamEnds \/ CloseLast \/ EmptyBlock \/ EmptyBlockStop
  \/ UseBlock \/ UseDelta \/ UseBlockStop
  \/ Finish \/ Stop \/ SendError \/ LogRequest

(* Every step is one of the goroutine that serves the request; that the    *)
(* provider's stream ends is what module StreamRead shows.                 *)
Spec == Init /\ [][Next]_vars /\ WF_vars(Next)

-----------------------------------------------------------------------------
(* Properties. *)

(* The variables hold values of their types. *)
TypeOK ==
  /\ pc \in {"start", "greet", "stream", "close", "open", "delta", "left", "buffer", "last",
             "empty", "emptystop", "use", "input", "usestop", "finish", "stop", "error",
             "log", "done"}
  /\ hasTools \in BOOLEAN /\ inThinking \in BOOLEAN /\ blockOpen \in BOOLEAN
  /\ event \in {"thinking", "text"}
  /\ contentIndex \in Nat /\ uses \in 0..MaxUses /\ seen \in 0..MaxEvents
  /\ streamErr \in BOOLEAN /\ connected \in BOOLEAN
  /\ status \in {"none", "success", "error"}

(* Whatever the provider sends, fails to send or repeats, what the client  *)
(* reads is a run of the message protocol.                                 *)
Implements == Events!Spec

(* A client that stayed reads an end that agrees with the record of the    *)
(* request: message_stop for a success, an error event otherwise.          *)
EndAgrees ==
  pc = "done" /\ connected =>
    last.type = IF status = "success" THEN "message_stop" ELSE "error"

(* Every request is answered to its end and recorded. *)
RequestEnds == <>(pc = "done")
=============================================================================

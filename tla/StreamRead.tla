----------------------------- MODULE StreamRead -----------------------------
(***************************************************************************)
(* One generation, streamed (generateContentStreamInternal) or not         *)
(* (GenerateContent): the attempts at sending the request, the goroutine   *)
(* that reads the response body into a channel of one slot                 *)
(* (readStreamChunks), the loop that takes chunks from it beside two       *)
(* timers and the caller's context, and what is recorded about the Gemini  *)
(* conversation.                                                           *)
(*                                                                         *)
(* What a line of the stream says is a nondeterministic choice, made when  *)
(* the parser visits it.  A text is a sequence of pieces, so that "the     *)
(* candidate grew" is the prefix order.  The metadata is reduced to the    *)
(* conversation id, the only part that is ever compared.                   *)
(***************************************************************************)
EXTENDS Integers, SequencesExt

CONSTANTS
  MaxRetries,     \* Client.maxRetries
  FinishIdle,     \* each TRUE when the timeout of that name is positive
  FirstActivity,
  ProgressIdle,
  Pieces,
  Texts,          \* candidate texts of a line; <<>> is "no text"
  Cids,           \* conversation ids of Gemini
  NoCid,          \* ""
  MaxReads        \* bound: chunks the upstream sends before it ends or stalls

ASSUME RetriesAssumption == MaxRetries \in Int
ASSUME TimeoutAssumption ==
  {FinishIdle, FirstActivity, ProgressIdle} \subseteq BOOLEAN
ASSUME TextsAssumption == Texts \subseteq Seq(Pieces)
ASSUME CidsAssumption == NoCid \notin Cids
ASSUME ReadsAssumption == MaxReads \in Nat

(* A request is attempted once or twice, whatever is configured. *)
Attempts == IF MaxRetries <= 0 THEN 1 ELSE IF MaxRetries > 2 THEN 2 ELSE MaxRetries

(* What one visit of the parser finds in the complete lines it is given. *)
Blocks ==
  [text: Texts,        \* the latest candidate
   cid: Cids \cup {NoCid},
   thinking: BOOLEAN,  \* a reasoning text not seen before
   terminal: BOOLEAN]  \* the transport's closing "e" entry

VARIABLES
  pc, attempt,
  written,    \* requestWritten, set by the transport once the request is out
  result,     \* what the call returned
  source,     \* the completion source it recorded
  lines,      \* visits left in the chunk being parsed
  err,        \* streamReadResult.err of that chunk
  lastText,
  activity,   \* firstActivityObserved
  terminal,   \* terminalObserved
  bard,       \* the bytes kept so far hold a BardErrorInfo
  streaming,  \* which of the two calls this is
  named,      \* the request carries a conversation id
  expected,   \* expectedConversationCID
  stored,     \* metadataStored
  metadata,   \* the cid in streamMetadata
  record,     \* the cid this client has for the conversation
  untrusted,  \* conversationUntrusted
  reader, held, channel, reads,
  stopped,    \* stopReader was called
  bodyOpen,
  ctxDone,    \* the caller's context is over
  emitted,    \* the deltas the caller was given, joined
  sent        \* history: attempts that reached the upstream connection

request == <<attempt, written, sent>>
outcome == <<result, source>>
chunk == <<lines, err>>
answer == <<lastText, emitted>>
seen == <<activity, terminal, bard>>
conversation == <<stored, metadata, record, untrusted>>
fixed == <<streaming, named, expected>>
pipe == <<reader, held, channel, reads>>
cleanup == <<stopped, bodyOpen>>
stream == <<chunk, answer, seen, conversation>>
io == <<pipe, cleanup, ctxDone>>
vars == <<pc, request, outcome, stream, fixed, io>>

Init ==
  /\ pc = "prepare" /\ attempt = 1 /\ written = FALSE /\ sent = 0
  /\ result = "none" /\ source = "none"
  /\ lines = 0 /\ err = "none"
  /\ lastText = <<>> /\ emitted = <<>>
  /\ activity = FALSE /\ terminal = FALSE /\ bard = FALSE
  /\ streaming \in BOOLEAN
  /\ named \in BOOLEAN /\ expected = NoCid
  /\ stored = FALSE /\ metadata = NoCid /\ untrusted = FALSE
  /\ record \in IF named THEN Cids \cup {NoCid} ELSE {NoCid}
  /\ reader = "off" /\ held = "none" /\ channel = <<>> /\ reads = 0
  /\ stopped = FALSE /\ bodyOpen = FALSE
  /\ ctxDone = FALSE

Return(r) == pc' = "returned" /\ result' = r

(* checkConversationContinuity: the upstream answers in a conversation     *)
(* other than the one the request continued.                               *)
Mismatch(cid) == named /\ expected # NoCid /\ cid \notin {NoCid, expected}

(* updateConversation: a metadata without an id changes no id. *)
Record(cid) == record' = IF named /\ cid # NoCid THEN cid ELSE record

-----------------------------------------------------------------------------
(* Sending the request. *)

(* Without a session token, or when an upload fails, nothing is sent.      *)
PrepareFails ==
  /\ pc = "prepare"
  /\ Return("error")
  /\ UNCHANGED <<request, source, stream, fixed, io>>

Prepare ==
  /\ pc = "prepare"
  /\ expected' = record
  /\ pc' = "attempt"
  /\ UNCHANGED <<request, outcome, stream, streaming, named, io>>

(* ConsumeRetryBudget refuses: module RetryBudget. *)
BudgetSpent ==
  /\ pc = "attempt"
  /\ Return("error")
  /\ UNCHANGED <<request, source, stream, fixed, io>>

Dispatch ==
  /\ pc = "attempt"
  /\ pc' = "do"
  /\ written' = FALSE
  /\ UNCHANGED <<attempt, sent, outcome, stream, fixed, io>>

(* The transport's own goroutine: the httptrace hook WroteRequest. *)
WroteRequest ==
  /\ pc = "do"
  /\ ~written
  /\ written' = TRUE
  /\ sent' = sent + 1
  /\ UNCHANGED <<pc, attempt, outcome, stream, fixed, io>>

(* Mutant of Retryable: any transport error is retried. *)
RetryableAlways == attempt < Attempts

Retryable == ~written /\ attempt < Attempts

(* Mutant of DoFails: the attempt is not counted. *)
DoFailsUncounted ==
  /\ pc = "do"
  /\ IF Retryable
     THEN pc' = "backoff" /\ UNCHANGED result
     ELSE Return("error")
  /\ UNCHANGED <<request, source, stream, fixed, io>>

DoFails ==
  /\ pc = "do"
  /\ IF Retryable
     THEN pc' = "backoff" /\ attempt' = attempt + 1 /\ UNCHANGED result
     ELSE Return("error") /\ UNCHANGED attempt
  /\ UNCHANGED <<written, sent, source, stream, fixed, io>>

BackoffEnds ==
  /\ pc = "backoff"
  /\ pc' = "attempt"
  /\ UNCHANGED <<request, outcome, stream, fixed, io>>

BackoffCancelled ==
  /\ pc = "backoff"
  /\ ctxDone
  /\ Return("cancelled")
  /\ UNCHANGED <<request, source, stream, fixed, io>>

(* The body of an answer that is not 200 is closed before the return. *)
StatusFails ==
  /\ pc = "do"
  /\ Return("error")
  /\ UNCHANGED <<request, source, stream, fixed, io>>

(* Without streaming the body is read to its end and parsed: an unreadable *)
(* body or one without a candidate, an answer from another conversation,   *)
(* or an answer.                                                           *)
WholeFails ==
  /\ pc = "do" /\ written /\ ~streaming
  /\ \E r \in {"error", "bard"} : Return(r)
  /\ UNCHANGED <<request, source, stream, fixed, io>>

WholeRejected ==
  /\ pc = "do" /\ written /\ ~streaming
  /\ \E cid \in Cids : Mismatch(cid)
  /\ untrusted' = TRUE
  /\ Return("mismatch")
  /\ UNCHANGED <<request, source, chunk, answer, seen, stored, metadata, record,
                 fixed, io>>

WholeAnswer ==
  /\ pc = "do" /\ written /\ ~streaming
  /\ \E cid \in Cids \cup {NoCid}, text \in Texts :
       /\ ~Mismatch(cid)
       /\ Record(cid)
       /\ lastText' = text /\ emitted' = text
  /\ Return("ok")
  /\ UNCHANGED <<request, source, chunk, seen, stored, metadata, untrusted,
                 fixed, io>>

(* The headers of a 200, which answers the whole request: the reader       *)
(* starts.                                                                 *)
Responds ==
  /\ pc = "do" /\ written /\ streaming
  /\ pc' = "read"
  /\ reader' = "reading"
  /\ bodyOpen' = TRUE
  /\ UNCHANGED <<request, outcome, stream, fixed, held, channel, reads, stopped, ctxDone>>

-----------------------------------------------------------------------------
(* readStreamChunks: the reader, and the channel it closes when it ends.   *)

(* What the upstream does: a chunk, the end, a broken connection, or       *)
(* nothing for as long as it likes.                                        *)
ReadReturns ==
  /\ reader = "reading"
  /\ bodyOpen
  /\ \E e \in {"none", "eof", "fail"} :
       /\ e = "none" => reads < MaxReads
       /\ held' = e
       /\ reads' = IF e = "none" THEN reads + 1 ELSE reads
  /\ reader' = "sending"
  /\ UNCHANGED <<pc, request, outcome, stream, fixed, channel, cleanup, ctxDone>>

(* A closed body, or a context that is over, fails the pending Read.       *)
ReadAborted ==
  /\ reader = "reading"
  /\ ~bodyOpen \/ ctxDone
  /\ held' = "fail"
  /\ reader' = "sending"
  /\ UNCHANGED <<pc, request, outcome, stream, fixed, channel, reads, cleanup,
                 ctxDone>>

SendChunk ==
  /\ reader = "sending"
  /\ channel = <<>>
  /\ channel' = <<held>>
  /\ reader' = IF held = "none" THEN "reading" ELSE "gone"
  /\ UNCHANGED <<pc, request, outcome, stream, fixed, held, reads, cleanup,
                 ctxDone>>

(* readCtx is derived from the caller's context. *)
SendAborted ==
  /\ reader = "sending"
  /\ stopped \/ ctxDone
  /\ reader' = "gone"
  /\ UNCHANGED <<pc, request, outcome, stream, fixed, held, channel, reads,
                 cleanup, ctxDone>>

Reader == ReadAborted \/ SendChunk \/ SendAborted

-----------------------------------------------------------------------------
(* The read loop. *)

(* Mutant of CleanUp: the body is closed and the reader's context is not   *)
(* cancelled.                                                              *)
CleanUpBodyOnly == bodyOpen' = FALSE /\ UNCHANGED stopped

CleanUp == stopped' = TRUE /\ bodyOpen' = FALSE

(* finalizeStreamConversation, always called with content emitted: it      *)
(* cannot fail.  When no visit found metadata, the raw bytes are searched  *)
(* once more, with those of the unfinished line.                           *)
Finalize ==
  \E cid \in IF metadata = NoCid THEN Cids \cup {NoCid} ELSE {metadata} :
    /\ untrusted' = (untrusted \/ Mismatch(cid))
    /\ Record(cid)
    /\ UNCHANGED <<stored, metadata>>

Complete(how) ==
  /\ CleanUp
  /\ Return("ok")
  /\ source' = how
  /\ Finalize

Abort(r) ==
  /\ CleanUp
  /\ Return(r)
  /\ UNCHANGED source

IdleFires ==
  /\ pc = "read"
  /\ FinishIdle
  /\ lastText # <<>>
  /\ Complete("idle_fallback")
  /\ UNCHANGED <<request, chunk, answer, seen, fixed, pipe, ctxDone>>

(* Mutant of ActivityFires: the timer is not armed again after the first   *)
(* activity.                                                               *)
ActivityFiresOnce ==
  /\ pc = "read"
  /\ ~activity /\ FirstActivity
  /\ Abort("unknown")
  /\ UNCHANGED <<request, stream, fixed, pipe, ctxDone>>

(* The first-activity timer, or after a first activity the progress timer. *)
ActivityFires ==
  /\ pc = "read"
  /\ IF activity THEN ProgressIdle /\ lastText = <<>> ELSE FirstActivity
  /\ Abort("unknown")
  /\ UNCHANGED <<request, stream, fixed, pipe, ctxDone>>

Cancelled ==
  /\ pc = "read"
  /\ ctxDone
  /\ Abort("cancelled")
  /\ UNCHANGED <<request, stream, fixed, pipe, ctxDone>>

(* A chunk ends at most one run of complete lines, and with the last one   *)
(* the parser also visits what was left without a newline.                 *)
Receive ==
  /\ pc = "read"
  /\ channel # <<>>
  /\ channel' = <<>>
  /\ err' = channel[1]
  /\ lines' \in 0..(IF err' = "none" THEN 1 ELSE 2)
  /\ bard' \in {bard, TRUE}
  /\ pc' = "feed"
  /\ UNCHANGED <<request, outcome, answer, activity, terminal, conversation,
                 fixed, reader, held, reads, cleanup, ctxDone>>

(* The stream is over: by EOF, or because the channel was closed. *)
FinishStream ==
  IF lastText # <<>>
  THEN Complete("eof")
  ELSE /\ Abort(IF bard THEN "bard" ELSE "empty")
       /\ untrusted' = (untrusted \/ (bard /\ named))
       /\ UNCHANGED <<stored, metadata, record>>

ChannelClosed ==
  /\ pc = "read"
  /\ channel = <<>>
  /\ reader = "gone"
  /\ FinishStream
  /\ UNCHANGED <<request, chunk, answer, seen, fixed, pipe, ctxDone>>

-----------------------------------------------------------------------------
(* One visit of the parser, and the end of the chunk. *)

(* Mutant of Delta: a candidate that is not a continuation is sent whole. *)
DeltaRewrites(previous, current) ==
  IF IsPrefix(previous, current)
  THEN SubSeq(current, Len(previous) + 1, Len(current))
  ELSE current

(* streamTextDelta: only what extends the text already sent. *)
Delta(previous, current) ==
  IF IsPrefix(previous, current)
  THEN SubSeq(current, Len(previous) + 1, Len(current))
  ELSE <<>>

(* The first conversation id of the stream.  It is looked for until it is  *)
(* checked and stored, and both happen in the visit that finds it.         *)
Acknowledges(b) == ~stored /\ b.cid # NoCid

(* Mutant of Acknowledge: a mismatch after content is not recorded. *)
AcknowledgeQuietly(b) ==
  IF Acknowledges(b)
  THEN /\ stored' = TRUE
       /\ metadata' = b.cid
       /\ Record(b.cid)
       /\ UNCHANGED untrusted
  ELSE UNCHANGED conversation

Acknowledge(b) ==
  IF Acknowledges(b)
  THEN /\ stored' = TRUE
       /\ metadata' = b.cid
       /\ Record(b.cid)
       /\ untrusted' = (untrusted \/ Mismatch(b.cid))
  ELSE UNCHANGED conversation

(* Before any content a mismatch is an error. *)
Rejected(b) == Acknowledges(b) /\ Mismatch(b.cid) /\ lastText = <<>>

(* Reasoning is forwarded until the first content. *)
Thinks(b) == b.thinking /\ lastText = <<>>

(* Mutant of Rejects: the metadata is stored before it is checked. *)
RejectsStored(b) ==
  /\ pc = "feed" /\ lines > 0
  /\ Rejected(b)
  /\ untrusted' = TRUE
  /\ record' = b.cid
  /\ Abort("mismatch")
  /\ UNCHANGED <<request, chunk, answer, seen, stored, metadata, fixed, pipe,
                 ctxDone>>

Rejects(b) ==
  /\ pc = "feed" /\ lines > 0
  /\ Rejected(b)
  /\ untrusted' = TRUE
  /\ Abort("mismatch")
  /\ UNCHANGED <<request, chunk, answer, seen, stored, metadata, record, fixed,
                 pipe, ctxDone>>

(* The caller returns false from the event of a reasoning text or of a     *)
(* delta: the call ends without an error.                                  *)
CallerStops(b) ==
  /\ pc = "feed" /\ lines > 0
  /\ ~Rejected(b)
  /\ LET delta == Delta(lastText, b.text)
     IN \/ Thinks(b) /\ UNCHANGED answer
        \/ /\ delta # <<>>
           /\ lastText' = b.text
           /\ emitted' = emitted \o delta
  /\ Acknowledge(b)
  /\ Abort("stopped")
  /\ UNCHANGED <<request, chunk, seen, fixed, pipe, ctxDone>>

Visit(b) ==
  /\ pc = "feed" /\ lines > 0
  /\ ~Rejected(b)
  /\ Acknowledge(b)
  /\ LET delta == Delta(lastText, b.text)
     IN /\ lastText' = IF delta = <<>> THEN lastText ELSE b.text
        /\ emitted' = emitted \o delta
        /\ activity' = (activity \/ Acknowledges(b) \/ Thinks(b) \/ delta # <<>>)
  /\ terminal' = (terminal \/ b.terminal)
  /\ lines' = lines - 1
  /\ UNCHANGED <<pc, request, outcome, err, bard, fixed, io>>

ChunkDone ==
  /\ pc = "feed" /\ lines = 0
  /\ ~terminal /\ err = "none"
  /\ pc' = "read"
  /\ UNCHANGED <<request, outcome, stream, fixed, io>>

(* The terminal entry ends the stream, whatever the read returned. *)
TerminalEntry ==
  /\ pc = "feed" /\ lines = 0
  /\ terminal
  /\ IF lastText # <<>>
     THEN Complete("terminal_entry")
     ELSE Abort(IF bard THEN "bard" ELSE "empty") /\ UNCHANGED conversation
  /\ UNCHANGED <<request, chunk, answer, seen, fixed, pipe, ctxDone>>

ReadFails ==
  /\ pc = "feed" /\ lines = 0
  /\ ~terminal /\ err = "fail"
  /\ Abort("error")
  /\ UNCHANGED <<request, stream, fixed, pipe, ctxDone>>

EndOfFile ==
  /\ pc = "feed" /\ lines = 0
  /\ ~terminal /\ err = "eof"
  /\ FinishStream
  /\ UNCHANGED <<request, chunk, answer, seen, fixed, pipe, ctxDone>>

(* The client goes away, or its deadline passes. *)
ContextEnds ==
  /\ pc # "returned"
  /\ ~ctxDone
  /\ ctxDone' = TRUE
  /\ UNCHANGED <<pc, request, outcome, stream, fixed, pipe, cleanup>>

-----------------------------------------------------------------------------
Loop ==
  \/ IdleFires \/ ActivityFires \/ Cancelled \/ Receive \/ ChannelClosed
  \/ \E b \in Blocks : Rejects(b) \/ CallerStops(b) \/ Visit(b)
  \/ ChunkDone \/ TerminalEntry \/ ReadFails \/ EndOfFile

Send ==
  \/ PrepareFails \/ Prepare \/ BudgetSpent \/ Dispatch
  \/ BackoffEnds \/ BackoffCancelled

Upstream ==
  \/ WroteRequest \/ DoFails \/ StatusFails
  \/ WholeFails \/ WholeRejected \/ WholeAnswer
  \/ Responds \/ ReadReturns

Next == Send \/ Loop \/ Reader \/ Upstream \/ ContextEnds

Spec == Init /\ [][Next]_vars

(* The two goroutines run, their timers fire, and the transport fails a    *)
(* call whose context is over.  Nothing is assumed of the upstream.        *)
FairSpec ==
  /\ Spec
  /\ WF_vars(Send) /\ WF_vars(Loop) /\ WF_vars(Reader)
  /\ WF_vars(ctxDone /\ DoFails)

-----------------------------------------------------------------------------
TypeOK ==
  /\ pc \in {"prepare", "attempt", "do", "backoff", "read", "feed", "returned"}
  /\ attempt \in 1..Attempts /\ written \in BOOLEAN /\ sent \in 0..Attempts
  /\ result \in {"none", "ok", "stopped", "error", "cancelled", "unknown",
                 "mismatch", "bard", "empty"}
  /\ source \in {"none", "terminal_entry", "idle_fallback", "eof"}
  /\ lines \in 0..2 /\ err \in {"none", "eof", "fail"}
  /\ lastText \in Texts \cup {<<>>} /\ emitted \in Seq(Pieces)
  /\ {activity, terminal, bard} \subseteq BOOLEAN
  /\ {streaming, named, stored, untrusted} \subseteq BOOLEAN
  /\ {expected, metadata, record} \subseteq Cids \cup {NoCid}
  /\ reader \in {"off", "reading", "sending", "gone"}
  /\ held \in {"none", "eof", "fail"}
  /\ channel \in Seq({"none", "eof", "fail"}) /\ Len(channel) <= 1
  /\ reads \in 0..MaxReads
  /\ {stopped, bodyOpen, ctxDone} \subseteq BOOLEAN

(* A request that reached Gemini's connection is never sent a second time, *)
(* and so the turn is not appended twice.                                  *)
SentOnce == sent <= 1

(* However the candidates grow, shrink and change, what the caller joins   *)
(* is one candidate the upstream sent, whole.                              *)
AnswerComposes == emitted = lastText

(* This client's record of a continued conversation moves to another id    *)
(* only together with the untrusted flag.                                  *)
ForeignConversationFlagged ==
  pc # "prepare" /\ expected # NoCid /\ record # expected => untrusted

(* The mismatch error, on which the service starts the turn again in a     *)
(* fresh conversation, means that no content was given to the caller, that *)
(* the conversation is flagged, and that the record was left alone.        *)
MismatchRestartable ==
  result = "mismatch" => emitted = <<>> /\ untrusted /\ record = expected

(* On every path out of the call the reader goroutine ends. *)
ReaderEnds == pc = "returned" ~> reader \in {"off", "gone"}

(* With both timeouts on, an upstream that goes silent before the first    *)
(* content holds the request for a bounded time.                           *)
SilenceEnds == pc = "read" ~> pc = "returned" \/ lastText # <<>>

(* A context that is over ends the call, in whatever phase it is. *)
CancelEnds == ctxDone ~> pc = "returned"

-----------------------------------------------------------------------------
(* What the documentation says and the code does not keep. *)

(* "eof" is recorded when the body ended (docs/                            *)
(* openai-gemini-stream-pipeline.md:179): a cut stream is not complete.    *)
EofMeansEof == source = "eof" => err = "eof"

(* A Bard error flags the conversation (comment on                         *)
(* markConversationUntrusted).                                             *)
BardErrorFlags == result = "bard" /\ named => untrusted
=============================================================================

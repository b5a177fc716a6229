-------------------------- MODULE StreamReadProofs --------------------------
(***************************************************************************)
(* Proofs about StreamRead, for every number of retries, choice of         *)
(* timeouts, set of texts and of conversations, and length of the stream.  *)
(***************************************************************************)
EXTENDS StreamRead, TLAPS

(* A text and its delta make the longer text. *)
LEMMA PrefixAndRest ==
  ASSUME NEW S, NEW s \in Seq(S), NEW t \in Seq(S), IsPrefix(s, t)
  PROVE  s \o SubSeq(t, Len(s) + 1, Len(t)) = t
<1> DEFINE r == SubSeq(t, Len(s) + 1, Len(t))
<1>1. Len(s) \in Nat /\ Len(t) \in Nat /\ Len(s) <= Len(t)
  BY DEF IsPrefix
<1>2. r \in Seq(S) /\ Len(r) = Len(t) - Len(s)
  BY <1>1
<1>3. s \o r \in Seq(S) /\ Len(s \o r) = Len(t)
  BY <1>1, <1>2
<1>4. ASSUME NEW i \in 1..Len(t) PROVE (s \o r)[i] = t[i]
  <2>1. CASE i <= Len(s)
    <3>1. (s \o r)[i] = s[i]
      BY <1>1, <1>2, <2>1
    <3>2. SubSeq(s, 1, Len(s))[i] = s[i] /\ SubSeq(t, 1, Len(s))[i] = t[i]
      BY <1>1, <2>1
    <3> QED
      BY <3>1, <3>2 DEF IsPrefix
  <2>2. CASE i > Len(s)
    <3>1. (s \o r)[i] = r[i - Len(s)]
      BY <1>1, <1>2, <2>2
    <3>2. r[i - Len(s)] = t[i]
      BY <1>1, <2>2
    <3> QED
      BY <3>1, <3>2
  <2> QED
    BY <1>1, <2>1, <2>2
<1> QED
  BY <1>1, <1>3, <1>4

(* A delta that is not empty extends the text to the candidate. *)
LEMMA DeltaExtends ==
  ASSUME NEW s \in Seq(Pieces), NEW t \in Texts, Delta(s, t) # <<>>
  PROVE  s \o Delta(s, t) = t
<1>1. t \in Seq(Pieces)
  BY TextsAssumption
<1>2. IsPrefix(s, t)
  BY DEF Delta
<1> QED
  BY <1>1, <1>2, PrefixAndRest DEF Delta

-----------------------------------------------------------------------------
(***************************************************************************)
(* The request is sent once.  Until a dispatch nothing has been sent, and  *)
(* a dispatch that ends in a retry has sent nothing either: that is what   *)
(* Retryable tests.                                                        *)
(***************************************************************************)
SentInv ==
  /\ sent \in {0, 1}
  /\ written \in BOOLEAN
  /\ pc \in {"prepare", "attempt", "backoff"} => sent = 0
  /\ pc = "do" => sent = 0 \/ written

(* The actions that leave pc, the attempts and what was sent alone. *)
LEMMA SentReader ==
  ASSUME Reader \/ ReadReturns \/ ContextEnds
  PROVE  UNCHANGED <<pc, request>>
BY DEF Reader, ReadReturns, ReadAborted, SendChunk, SendAborted, ContextEnds,
       request

(* The read loop never goes back to sending. *)
LEMMA SentLoop ==
  ASSUME Loop
  PROVE  pc' \in {"read", "feed", "returned"} /\ UNCHANGED request
<1> USE DEF Complete, Abort, Return, FinishStream
<1>1. ASSUME NEW b \in Blocks, Rejects(b) \/ CallerStops(b) \/ Visit(b)
      PROVE  pc' \in {"read", "feed", "returned"} /\ UNCHANGED request
  BY <1>1 DEF Rejects, CallerStops, Visit
<1>2. CASE IdleFires \/ ActivityFires \/ Cancelled \/ Receive
  BY <1>2 DEF IdleFires, ActivityFires, Cancelled, Receive
<1>3. CASE ChannelClosed
  BY <1>3 DEF ChannelClosed
<1>4. CASE ChunkDone \/ TerminalEntry
  BY <1>4 DEF ChunkDone, TerminalEntry
<1>5. CASE ReadFails \/ EndOfFile
  BY <1>5 DEF ReadFails, EndOfFile
<1> QED
  BY <1>1, <1>2, <1>3, <1>4, <1>5 DEF Loop

LEMMA SentStep == SentInv /\ [Next]_vars => SentInv'
<1> SUFFICES ASSUME SentInv, [Next]_vars PROVE SentInv'
  OBVIOUS
<1> USE DEF SentInv, Return, request
<1>1. CASE PrepareFails \/ Prepare
  BY <1>1 DEF PrepareFails, Prepare
<1>2. CASE BudgetSpent \/ Dispatch
  BY <1>2 DEF BudgetSpent, Dispatch
<1>3. CASE BackoffEnds \/ BackoffCancelled
  BY <1>3 DEF BackoffEnds, BackoffCancelled
<1>4. CASE WroteRequest
  BY <1>4 DEF WroteRequest
<1>5. CASE DoFails
  BY <1>5 DEF DoFails, Retryable
<1>6. CASE StatusFails \/ WholeFails \/ WholeRejected \/ WholeAnswer \/ Responds
  BY <1>6 DEF StatusFails, WholeFails, WholeRejected, WholeAnswer, Responds
<1>7. CASE Reader \/ ReadReturns \/ ContextEnds
  BY <1>7, SentReader
<1>8. CASE Loop
  BY <1>8, SentLoop
<1>9. CASE UNCHANGED vars
  BY <1>9 DEF vars
<1> QED
  BY <1>1, <1>2, <1>3, <1>4, <1>5, <1>6, <1>7, <1>8, <1>9 DEF Next, Send, Upstream

(* No request is sent to Gemini a second time once it was written to the   *)
(* connection, whatever failed after that (requestWritten).                *)
THEOREM SentAtMostOnce == Spec => []SentOnce
<1>1. Init => SentInv
  BY DEF Init, SentInv
<1>2. SentInv => SentOnce
  BY DEF SentInv, SentOnce
<1> QED
  BY <1>1, <1>2, SentStep, PTL DEF Spec

-----------------------------------------------------------------------------
(***************************************************************************)
(* The answer.  What the caller has joined and what the loop holds as the  *)
(* last text change together, and only to a candidate they are a prefix    *)
(* of.                                                                     *)
(***************************************************************************)
AnswerInv == emitted \in Seq(Pieces) /\ lastText = emitted

LEMMA AnswerStep == AnswerInv /\ [Next]_vars => AnswerInv'
<1> SUFFICES ASSUME AnswerInv, [Next]_vars PROVE AnswerInv'
  OBVIOUS
<1> USE DEF AnswerInv
<1>1. ASSUME UNCHANGED answer PROVE AnswerInv'
  BY <1>1 DEF answer
<1>2. CASE WholeAnswer
  BY <1>2, TextsAssumption DEF WholeAnswer
<1>3. ASSUME NEW b \in Blocks, CallerStops(b) PROVE AnswerInv'
  <2>1. b.text \in Texts /\ b.text \in Seq(Pieces)
    BY TextsAssumption DEF Blocks
  <2>2. CASE UNCHANGED answer
    BY <2>2, <1>1
  <2>3. CASE /\ Delta(lastText, b.text) # <<>>
             /\ lastText' = b.text
             /\ emitted' = emitted \o Delta(lastText, b.text)
    BY <2>1, <2>3, DeltaExtends
  <2> QED
    BY <1>3, <2>2, <2>3 DEF CallerStops
<1>4. ASSUME NEW b \in Blocks, Visit(b) PROVE AnswerInv'
  <2> DEFINE delta == Delta(lastText, b.text)
  <2>1. b.text \in Texts /\ b.text \in Seq(Pieces)
    BY TextsAssumption DEF Blocks
  <2>2. /\ lastText' = IF delta = <<>> THEN lastText ELSE b.text
        /\ emitted' = emitted \o delta
    BY <1>4 DEF Visit
  <2>3. CASE delta = <<>>
    BY <2>2, <2>3
  <2>4. CASE delta # <<>>
    BY <2>1, <2>2, <2>4, DeltaExtends
  <2> QED
    BY <2>3, <2>4
<1>5. CASE Send
  <2>1. UNCHANGED answer
    BY <1>5 DEF Send, PrepareFails, Prepare, BudgetSpent, Dispatch, BackoffEnds,
                BackoffCancelled, stream
  <2> QED
    BY <2>1, <1>1
<1>6. CASE Upstream
  <2>1. CASE WroteRequest \/ DoFails \/ StatusFails \/ Responds \/ ReadReturns
    <3>1. UNCHANGED answer
      BY <2>1 DEF WroteRequest, DoFails, StatusFails, Responds, ReadReturns, stream
    <3> QED
      BY <3>1, <1>1
  <2>2. CASE WholeFails \/ WholeRejected
    <3>1. UNCHANGED answer
      BY <2>2 DEF WholeFails, WholeRejected, stream
    <3> QED
      BY <3>1, <1>1
  <2> QED
    BY <1>2, <1>6, <2>1, <2>2 DEF Upstream
<1>7. CASE Reader \/ ContextEnds
  <2>1. UNCHANGED answer
    BY <1>7 DEF Reader, ReadAborted, SendChunk, SendAborted, ContextEnds, stream
  <2> QED
    BY <2>1, <1>1
<1>8. CASE Loop
  <2>1. CASE IdleFires \/ ActivityFires \/ Cancelled \/ Receive \/ ChannelClosed
    <3>1. UNCHANGED answer
      BY <2>1 DEF IdleFires, ActivityFires, Cancelled, Receive, ChannelClosed, stream
    <3> QED
      BY <3>1, <1>1
  <2>2. CASE ChunkDone \/ TerminalEntry \/ ReadFails \/ EndOfFile
    <3>1. UNCHANGED answer
      BY <2>2 DEF ChunkDone, TerminalEntry, ReadFails, EndOfFile, stream
    <3> QED
      BY <3>1, <1>1
  <2>3. ASSUME NEW b \in Blocks, Rejects(b) PROVE AnswerInv'
    BY <2>3, <1>1 DEF Rejects
  <2> QED
    BY <1>3, <1>4, <1>8, <2>1, <2>2, <2>3 DEF Loop
<1>9. CASE UNCHANGED vars
  BY <1>9, <1>1 DEF vars, stream
<1> QED
  BY <1>5, <1>6, <1>7, <1>8, <1>9 DEF Next

(* The deltas join to one candidate of the upstream (streamTextDelta).     *)
THEOREM DeltasJoin == Spec => []AnswerComposes
<1>1. Init => AnswerInv
  BY DEF Init, AnswerInv
<1>2. AnswerInv => AnswerComposes
  BY DEF AnswerInv, AnswerComposes
<1> QED
  BY <1>1, <1>2, AnswerStep, PTL DEF Spec

-----------------------------------------------------------------------------
(***************************************************************************)
(* The conversation.  The record is what the request expects until the     *)
(* stream has acknowledged a conversation; from then on it may differ, and *)
(* the step that makes it differ sets the flag.  A rejection happens       *)
(* before the acknowledgement and before any content.                      *)
(***************************************************************************)
Sending == {"prepare", "attempt", "do", "backoff"}

Untouched ==
  /\ pc = "prepare" => expected = NoCid
  /\ pc \in Sending => ~stored /\ lastText = <<>>
  /\ pc \notin {"prepare", "returned"} /\ ~stored => record = expected

Rejection == result = "mismatch" => pc = "returned" /\ MismatchRestartable

ConvInv ==
  /\ AnswerInv
  /\ stored \in BOOLEAN /\ untrusted \in BOOLEAN
  /\ Untouched
  /\ ForeignConversationFlagged
  /\ Rejection

LEMMA ConvInit == Init => ConvInv
<1> SUFFICES ASSUME Init PROVE ConvInv
  OBVIOUS
<1>1. AnswerInv
  BY DEF Init, AnswerInv
<1>2. /\ pc = "prepare" /\ result = "none" /\ expected = NoCid
      /\ stored = FALSE /\ untrusted = FALSE /\ lastText = <<>>
  BY DEF Init
<1> QED
  BY <1>1, <1>2 DEF ConvInv, Untouched, ForeignConversationFlagged, Rejection

(* A step that returns, or goes on, and changes nothing else of the        *)
(* conversation keeps the invariant.                                       *)
LEMMA ConvFrame ==
  ASSUME ConvInv, AnswerInv', UNCHANGED <<expected, stored, record, untrusted>>,
         pc # "returned", pc' # "prepare",
         pc = "prepare" => pc' = "returned",
         result' # "mismatch",
         pc' \in Sending => pc \in Sending /\ UNCHANGED lastText
  PROVE  ConvInv'
BY DEF ConvInv, AnswerInv, Untouched, ForeignConversationFlagged, Rejection,
       Sending, MismatchRestartable

(* So does a step that touches neither the answer nor the outcome. *)
LEMMA ConvSame ==
  ASSUME ConvInv,
         UNCHANGED <<pc, result, expected, stored, record, untrusted, answer>>
  PROVE  ConvInv'
BY DEF ConvInv, AnswerInv, Untouched, ForeignConversationFlagged, Rejection,
       Sending, MismatchRestartable, answer

LEMMA ConvSend == ConvInv /\ Send => ConvInv'
<1> SUFFICES ASSUME ConvInv, Send PROVE ConvInv'
  OBVIOUS
<1>1. result # "mismatch" /\ UNCHANGED answer /\ AnswerInv'
  BY DEF Send, PrepareFails, Prepare, BudgetSpent, Dispatch, BackoffEnds,
         BackoffCancelled, ConvInv, Rejection, AnswerInv, stream, answer
<1>2. CASE Prepare
  BY <1>1, <1>2 DEF Prepare, ConvInv, Untouched, ForeignConversationFlagged,
     Rejection, MismatchRestartable, Sending, stream, answer, conversation, outcome
<1>3. CASE PrepareFails \/ BudgetSpent \/ BackoffCancelled
  BY <1>1, <1>3, ConvFrame DEF PrepareFails, BudgetSpent, BackoffCancelled,
     Return, Sending, stream, answer, conversation, fixed
<1>4. CASE Dispatch \/ BackoffEnds
  BY <1>1, <1>4, ConvFrame DEF Dispatch, BackoffEnds, Sending, stream, answer,
     conversation, outcome, fixed
<1> QED
  BY <1>2, <1>3, <1>4 DEF Send

LEMMA ConvUpstream == ConvInv /\ Upstream => ConvInv'
<1> SUFFICES ASSUME ConvInv, Upstream PROVE ConvInv'
  OBVIOUS
<1>1. CASE WroteRequest \/ ReadReturns
  BY <1>1, ConvSame DEF WroteRequest, ReadReturns, stream, conversation, fixed, outcome
<1>2. CASE DoFails \/ StatusFails \/ WholeFails \/ Responds
  <2>1. UNCHANGED answer /\ AnswerInv'
    BY <1>2 DEF DoFails, StatusFails, WholeFails, Responds, stream, answer,
                ConvInv, AnswerInv
  <2>2. pc = "do" /\ result # "mismatch" /\ result' # "mismatch"
    BY <1>2 DEF DoFails, StatusFails, WholeFails, Responds, Return, outcome,
                ConvInv, Rejection
  <2> QED
    BY <1>2, <2>1, <2>2, ConvFrame DEF DoFails, StatusFails, WholeFails, Responds,
       Return, Sending, stream, answer, conversation, fixed
<1>3. CASE WholeRejected
  BY <1>3 DEF WholeRejected, Mismatch, Return, ConvInv, AnswerInv, Untouched,
     ForeignConversationFlagged, Rejection, MismatchRestartable, Sending, answer, fixed
<1>4. CASE WholeAnswer
  <2>1. AnswerInv'
    BY <1>4, TextsAssumption DEF WholeAnswer, AnswerInv
  <2>2. PICK cid \in Cids \cup {NoCid} : ~Mismatch(cid) /\ Record(cid)
    BY <1>4 DEF WholeAnswer
  <2>3. expected # NoCid => record' \in {record, expected}
    BY <2>2 DEF Mismatch, Record
  <2> QED
    BY <1>4, <2>1, <2>3 DEF WholeAnswer, Return, ConvInv, Untouched,
       ForeignConversationFlagged, Rejection, MismatchRestartable, Sending, fixed
<1> QED
  BY <1>1, <1>2, <1>3, <1>4 DEF Upstream

(* The end of a stream with an answer: whatever id it leaves in the        *)
(* record, the flag covers it.                                             *)
LEMMA ConvComplete ==
  ASSUME ConvInv, NEW how, Complete(how), pc \notin Sending,
         UNCHANGED <<answer, fixed>>
  PROVE  ConvInv'
<1>1. PICK cid : /\ untrusted' = (untrusted \/ Mismatch(cid))
                 /\ Record(cid)
                 /\ UNCHANGED stored
  BY DEF Complete, Finalize
<1>2. untrusted' \in BOOLEAN /\ (untrusted => untrusted') /\ (Mismatch(cid) => untrusted')
  BY <1>1 DEF ConvInv
<1>3. ForeignConversationFlagged'
  BY <1>1, <1>2 DEF Mismatch, Record, ConvInv, ForeignConversationFlagged, Complete,
     Return, Sending, fixed
<1> QED
  BY <1>1, <1>2, <1>3 DEF Complete, Return, ConvInv, AnswerInv, Untouched, Rejection,
     MismatchRestartable, Sending, answer, fixed

(* The end of a stream without one. *)
LEMMA ConvAbort ==
  ASSUME ConvInv, NEW r, r # "mismatch", Abort(r), pc \notin Sending,
         UNCHANGED <<answer, fixed, stored, record>>,
         untrusted' \in BOOLEAN, untrusted => untrusted'
  PROVE  ConvInv'
BY DEF Abort, Return, ConvInv, AnswerInv, Untouched, ForeignConversationFlagged,
       Rejection, MismatchRestartable, Sending, answer, fixed

LEMMA ConvLoop == ConvInv /\ Loop => ConvInv'
<1> SUFFICES ASSUME ConvInv, Loop PROVE ConvInv'
  OBVIOUS
<1>1. CASE IdleFires
  BY <1>1, ConvComplete DEF IdleFires, Sending
<1>2. CASE ActivityFires \/ Cancelled \/ ReadFails
  BY <1>2, ConvAbort DEF ActivityFires, Cancelled, ReadFails, Sending, ConvInv,
     stream, conversation
<1>3. ASSUME FinishStream, pc \notin Sending, UNCHANGED <<answer, fixed>>
      PROVE  ConvInv'
  <2>1. CASE lastText # <<>>
    BY <1>3, <2>1, ConvComplete DEF FinishStream
  <2>2. CASE lastText = <<>>
    <3>1. PICK r \in {"bard", "empty"} : Abort(r)
      BY <1>3, <2>2 DEF FinishStream
    <3>2. untrusted' = (untrusted \/ (bard /\ named)) /\ UNCHANGED <<stored, record>>
      BY <1>3, <2>2 DEF FinishStream
    <3>3. untrusted' \in BOOLEAN /\ (untrusted => untrusted')
      BY <3>2 DEF ConvInv
    <3> QED
      BY <1>3, <3>1, <3>2, <3>3, ConvAbort
  <2> QED
    BY <2>1, <2>2
<1>4. CASE ChannelClosed
  BY <1>3, <1>4 DEF ChannelClosed, Sending
<1>5. CASE EndOfFile
  BY <1>3, <1>5 DEF EndOfFile, Sending
<1>6. CASE TerminalEntry
  <2>1. CASE lastText # <<>>
    BY <1>6, <2>1, ConvComplete DEF TerminalEntry, Sending
  <2>2. CASE lastText = <<>>
    <3>1. PICK r \in {"bard", "empty"} : Abort(r)
      BY <1>6, <2>2 DEF TerminalEntry
    <3> QED
      BY <1>6, <2>2, <3>1, ConvAbort DEF TerminalEntry, Sending, ConvInv, conversation
  <2> QED
    BY <2>1, <2>2
<1>7. CASE Receive
  BY <1>7, ConvFrame DEF Receive, Sending, conversation, fixed, outcome, answer,
     ConvInv, AnswerInv, Rejection
<1>8. CASE ChunkDone
  BY <1>8, ConvFrame DEF ChunkDone, Sending, stream, conversation, fixed, outcome,
     answer, ConvInv, AnswerInv, Rejection
<1>9. ASSUME NEW b \in Blocks, Rejects(b) PROVE ConvInv'
  <2>1. ~stored /\ lastText = <<>> /\ Mismatch(b.cid)
    BY <1>9 DEF Rejects, Rejected, Acknowledges
  <2> QED
    BY <1>9, <2>1 DEF Rejects, Abort, Return, ConvInv, AnswerInv, Untouched, Rejection,
       ForeignConversationFlagged, MismatchRestartable, Sending, answer, fixed
<1>10. ASSUME NEW b \in Blocks, Acknowledge(b), UNCHANGED fixed, AnswerInv',
              pc = "feed", pc' \in {"feed", "returned"}, result' # "mismatch"
       PROVE  ConvInv'
  <2>1. CASE Acknowledges(b)
    <3>1. /\ stored' = TRUE
          /\ Record(b.cid)
          /\ untrusted' = (untrusted \/ Mismatch(b.cid))
      BY <1>10, <2>1 DEF Acknowledge
    <3>2. /\ untrusted' \in BOOLEAN
          /\ untrusted => untrusted'
          /\ Mismatch(b.cid) => untrusted'
      BY <3>1 DEF ConvInv
    <3>3. ForeignConversationFlagged'
      BY <1>10, <3>1, <3>2 DEF Mismatch, Record, ConvInv, ForeignConversationFlagged, fixed
    <3> QED
      BY <1>10, <3>1, <3>2, <3>3 DEF ConvInv, Untouched, Rejection, Sending
  <2>2. CASE ~Acknowledges(b)
    BY <1>10, <2>2 DEF Acknowledge, ConvInv, Untouched, ForeignConversationFlagged,
       Rejection, Sending, fixed, conversation
  <2> QED
    BY <2>1, <2>2
<1>11. AnswerInv'
  BY AnswerStep DEF ConvInv, Next
<1>12. ASSUME NEW b \in Blocks, CallerStops(b) PROVE ConvInv'
  BY <1>10, <1>11, <1>12 DEF CallerStops, Abort, Return
<1>13. ASSUME NEW b \in Blocks, Visit(b) PROVE ConvInv'
  BY <1>10, <1>11, <1>13 DEF Visit, outcome, ConvInv, Rejection
<1> QED
  BY <1>1, <1>2, <1>4, <1>5, <1>6, <1>7, <1>8, <1>9, <1>12, <1>13 DEF Loop

LEMMA ConvStep == ConvInv /\ [Next]_vars => ConvInv'
<1> SUFFICES ASSUME ConvInv, [Next]_vars PROVE ConvInv'
  OBVIOUS
<1>1. CASE Reader \/ ContextEnds
  BY <1>1, ConvSame DEF Reader, ReadAborted, SendChunk, SendAborted, ContextEnds,
     stream, conversation, fixed, outcome
<1>2. CASE UNCHANGED vars
  BY <1>2, ConvSame DEF vars, stream, conversation, fixed, outcome
<1> QED
  BY <1>1, <1>2, ConvSend, ConvUpstream, ConvLoop DEF Next

(* The record never leaves the conversation a request continued without    *)
(* the untrusted flag (checkConversationContinuity, updateConversation).   *)
THEOREM ForeignIsFlagged == Spec => []ForeignConversationFlagged
<1>1. ConvInv => ForeignConversationFlagged
  BY DEF ConvInv
<1> QED
  BY <1>1, ConvInit, ConvStep, PTL DEF Spec

(* A rejected conversation can be started again: nothing was emitted and   *)
(* nothing was recorded (checkConversationContinuity).                     *)
THEOREM RejectionIsRestartable == Spec => []MismatchRestartable
<1>1. ConvInv => MismatchRestartable
  BY DEF ConvInv, Rejection, MismatchRestartable
<1> QED
  BY <1>1, ConvInit, ConvStep, PTL DEF Spec
=============================================================================

------------------------- MODULE ClaudeStreamProofs -------------------------
(***************************************************************************)
(* Proofs about ClaudeStream, for every number of provider events, text    *)
(* chunks and tool calls.                                                  *)
(***************************************************************************)
EXTENDS ClaudeStream, TLAPS

(* The flags and the labels. *)
FlagsOK ==
  /\ hasTools \in BOOLEAN /\ inThinking \in BOOLEAN /\ blockOpen \in BOOLEAN
  /\ event \in {"thinking", "text"}
  /\ streamErr \in BOOLEAN /\ connected \in BOOLEAN
  /\ status \in {"none", "success", "error"}

Labels ==
  {"start", "greet", "stream", "close", "open", "delta", "left", "buffer", "last",
   "empty", "emptystop", "use", "input", "usestop", "finish", "stop", "error",
   "log", "done"}

CountsOK == contentIndex \in Nat /\ uses \in 0..MaxUses /\ seen \in 0..MaxEvents

LEMMA FlagsStep == FlagsOK /\ [Next]_vars => FlagsOK'
<1> SUFFICES ASSUME FlagsOK, [Next]_vars PROVE FlagsOK'
  OBVIOUS
<1> USE DEF FlagsOK, Written, Lost, reading, wire
<1>1. CASE Refuse \/ Begin \/ Greet
  BY <1>1 DEF Refuse, Begin, Greet
<1>2. ASSUME NEW kind \in {"thinking", "text"}, Receive(kind) PROVE FlagsOK'
  BY <1>2 DEF Receive
<1>3. CASE CloseBlock
  BY <1>3 DEF CloseBlock
<1>4. CASE OpenBlock
  BY <1>4 DEF OpenBlock
<1>5. CASE StreamEnds
  BY <1>5 DEF StreamEnds
<1>6. CASE CloseLast
  BY <1>6 DEF CloseLast
<1>7. CASE EmptyBlock \/ EmptyBlockStop \/ Delta
  BY <1>7 DEF EmptyBlock, EmptyBlockStop, Delta
<1>8. CASE UseBlock \/ UseDelta \/ UseBlockStop
  BY <1>8 DEF UseBlock, UseDelta, UseBlockStop
<1>9. CASE Finish \/ Stop \/ SendError \/ LogRequest
  BY <1>9 DEF Finish, Stop, SendError, LogRequest
<1>10. CASE UNCHANGED vars
  BY <1>10 DEF vars
<1> QED
  BY <1>1, <1>2, <1>3, <1>4, <1>5, <1>6, <1>7, <1>8, <1>9, <1>10 DEF Next

LEMMA LabelsStep == pc \in Labels /\ [Next]_vars => pc' \in Labels
<1> SUFFICES ASSUME pc \in Labels, [Next]_vars PROVE pc' \in Labels
  OBVIOUS
<1> USE DEF Labels, Goto
<1>1. CASE Refuse \/ Begin \/ Greet
  BY <1>1 DEF Refuse, Begin, Greet
<1>2. ASSUME NEW kind \in {"thinking", "text"}, Receive(kind) PROVE pc' \in Labels
  BY <1>2 DEF Receive
<1>3. CASE CloseBlock \/ OpenBlock \/ Delta
  BY <1>3 DEF CloseBlock, OpenBlock, Delta
<1>4. CASE StreamEnds \/ CloseLast
  BY <1>4 DEF StreamEnds, CloseLast, AfterLast
<1>5. CASE EmptyBlock \/ EmptyBlockStop \/ UseBlock
  BY <1>5 DEF EmptyBlock, EmptyBlockStop, UseBlock
<1>6. CASE UseDelta \/ UseBlockStop
  BY <1>6 DEF UseDelta, UseBlockStop
<1>7. CASE Finish \/ Stop \/ SendError \/ LogRequest
  BY <1>7 DEF Finish, Stop, SendError, LogRequest
<1>8. CASE UNCHANGED vars
  BY <1>8 DEF vars
<1> QED
  BY <1>1, <1>2, <1>3, <1>4, <1>5, <1>6, <1>7, <1>8 DEF Next

LEMMA CountsStep == CountsOK /\ [Next]_vars => CountsOK'
<1> SUFFICES ASSUME CountsOK, [Next]_vars PROVE CountsOK'
  OBVIOUS
<1> USE BoundsAssumption DEF CountsOK, reading
<1>1. CASE Refuse \/ Begin \/ Greet
  BY <1>1 DEF Refuse, Begin, Greet
<1>2. ASSUME NEW kind \in {"thinking", "text"}, Receive(kind) PROVE CountsOK'
  BY <1>2 DEF Receive
<1>3. CASE CloseBlock
  BY <1>3 DEF CloseBlock
<1>4. CASE OpenBlock \/ Delta \/ EmptyBlock \/ EmptyBlockStop \/ UseBlock
  BY <1>4 DEF OpenBlock, Delta, EmptyBlock, EmptyBlockStop, UseBlock
<1>5. CASE StreamEnds
  BY <1>5 DEF StreamEnds
<1>6. CASE CloseLast
  BY <1>6 DEF CloseLast
<1>7. CASE UseDelta
  BY <1>7 DEF UseDelta
<1>8. CASE UseBlockStop
  BY <1>8 DEF UseBlockStop
<1>9. CASE Finish \/ Stop \/ SendError \/ LogRequest
  BY <1>9 DEF Finish, Stop, SendError, LogRequest
<1>10. CASE UNCHANGED vars
  BY <1>10 DEF vars
<1> QED
  BY <1>1, <1>2, <1>3, <1>4, <1>5, <1>6, <1>7, <1>8, <1>9, <1>10 DEF Next

(* The variables keep their types, whatever the provider and the client do. *)
THEOREM TypeCorrect == Spec => []TypeOK
<1> DEFINE Inv == FlagsOK /\ pc \in Labels /\ CountsOK
<1>1. Init => FlagsOK
  BY DEF Init, FlagsOK
<1>2. Init => pc \in Labels
  BY DEF Init, Labels
<1>3. Init => CountsOK
  BY BoundsAssumption DEF Init, CountsOK
<1>4. Init => Inv
  BY <1>1, <1>2, <1>3
<1>5. Inv /\ [Next]_vars => Inv'
  BY FlagsStep, LabelsStep, CountsStep
<1>6. Inv => TypeOK
  BY DEF FlagsOK, Labels, CountsOK, TypeOK
<1> QED
  BY <1>4, <1>5, <1>6, PTL DEF Spec

-----------------------------------------------------------------------------
(***************************************************************************)
(* Where a client that is still there is in the protocol, for every place  *)
(* the service can be in.  A client that has left reads nothing, so there  *)
(* is nothing to say of it.                                                *)
(***************************************************************************)
Kind == IF inThinking THEN "thinking" ELSE "text"

Untold == last = Events!Mark("none")

Between ==
  \/ contentIndex = 0 /\ last = Events!Mark("message_start")
  \/ /\ contentIndex > 0
     /\ last = Events!Event("content_block_stop", "none", contentIndex - 1)

Inside(kind) ==
  \/ last = Events!Event("content_block_start", kind, contentIndex)
  \/ last = Events!Event("content_block_delta", kind, contentIndex)

Place ==
  /\ pc \in {"start", "buffer", "greet"} =>
       Untold /\ contentIndex = 0 /\ ~blockOpen /\ ~inThinking
  /\ pc \in {"stream", "last"} => IF blockOpen THEN Inside(Kind) ELSE Between
  /\ pc \in {"stream", "close", "open", "delta"} => (inThinking => blockOpen)
  /\ pc = "close" => blockOpen /\ Inside(Kind)
  /\ pc = "open" => ~blockOpen /\ Between
  /\ pc = "delta" => blockOpen /\ Kind = event /\ Inside(event)
  /\ pc = "left" => FALSE
  /\ pc = "empty" => contentIndex = 0 /\ Between
  /\ pc = "emptystop" => Inside("text")
  /\ pc = "use" => Between
  /\ pc \in {"input", "usestop"} => Inside(UseKind)
  /\ pc = "finish" => /\ last.index \in Nat
                      /\ last = Events!Event("content_block_stop", "none", last.index)
  /\ pc = "stop" => last = Events!Mark("message_delta")
  /\ pc = "error" => streamErr /\ (Untold \/ Between)
  /\ pc \in {"start", "buffer", "greet", "stream", "close", "open", "delta", "empty",
             "emptystop", "use", "input", "usestop", "finish", "stop"} => ~streamErr
  /\ pc \in {"log", "done"} => last.type = IF streamErr THEN "error" ELSE "message_stop"
  /\ pc = "done" => status = IF streamErr THEN "error" ELSE "success"

PlaceInv == connected => Place

(* A step that leaves a client connected finds it connected. *)
LEMMA StaysConnected == [Next]_vars /\ connected' => connected
BY DEF Next, vars, Written, Lost, wire, Refuse, Begin, Greet, Receive, CloseBlock,
       OpenBlock, Delta, StreamEnds, CloseLast, EmptyBlock, EmptyBlockStop, UseBlock,
       UseDelta, UseBlockStop, Finish, Stop, SendError, LogRequest

LEMMA PlaceStep == FlagsOK /\ CountsOK /\ PlaceInv /\ [Next]_vars => PlaceInv'
<1> SUFFICES ASSUME FlagsOK, CountsOK, Place, connected, [Next]_vars, connected'
             PROVE  Place'
  BY StaysConnected DEF PlaceInv
<1> USE DEF FlagsOK, CountsOK, Place, Untold, Between, Inside, Kind, UseKind, Goto, Written, Lost,
            reading, wire, Block, BlockStop, Events!Event, Events!Mark
<1>1. CASE Refuse
  BY <1>1 DEF Refuse
<1>2. CASE Begin
  BY <1>2 DEF Begin
<1>3. CASE Greet
  BY <1>3 DEF Greet
<1>4. CASE CloseBlock
  BY <1>4 DEF CloseBlock
<1>5. CASE OpenBlock
  BY <1>5 DEF OpenBlock
<1>6. CASE Delta
  BY <1>6 DEF Delta
<1>7. CASE StreamEnds
  BY <1>7 DEF StreamEnds, Streaming
<1>8. CASE CloseLast
  BY <1>8 DEF CloseLast, AfterLast
<1>9. CASE EmptyBlock
  BY <1>9 DEF EmptyBlock
<1>10. CASE EmptyBlockStop
  BY <1>10 DEF EmptyBlockStop
<1>11. CASE UseBlock
  BY <1>11 DEF UseBlock
<1>12. CASE UseDelta
  BY <1>12 DEF UseDelta
<1>13. CASE UseBlockStop
  BY <1>13 DEF UseBlockStop
<1>14. CASE Finish
  BY <1>14 DEF Finish
<1>15. CASE Stop
  BY <1>15 DEF Stop
<1>16. CASE SendError
  BY <1>16 DEF SendError
<1>17. CASE LogRequest
  BY <1>17 DEF LogRequest
<1>18. ASSUME NEW kind \in {"thinking", "text"}, Receive(kind) PROVE Place'
  BY <1>18 DEF Receive
<1>19. CASE UNCHANGED vars
  BY <1>19 DEF vars
<1> QED
  BY <1>1, <1>2, <1>3, <1>4, <1>5, <1>6, <1>7, <1>8, <1>9, <1>10, <1>11, <1>12, <1>13, <1>14, <1>15, <1>16, <1>17, <1>18, <1>19 DEF Next

(* The steps that write nothing, or find the client gone. *)
LEMMA Silent ==
  ASSUME Refuse \/ Begin \/ (\E kind \in {"thinking", "text"} : Receive(kind))
         \/ StreamEnds \/ LogRequest \/ UNCHANGED vars
  PROVE  UNCHANGED last
BY DEF Refuse, Begin, Receive, StreamEnds, LogRequest, vars, wire

(* What is written in its place is what the protocol lets follow. *)
LEMMA WrittenFollows ==
  ASSUME FlagsOK, CountsOK, PlaceInv, [Next]_vars
  PROVE  last' = last \/ last' \in Events!Follows(last)
<1> SUFFICES ASSUME last' # last PROVE last' \in Events!Follows(last)
  OBVIOUS
<1> USE DEF FlagsOK, CountsOK, Untold, Between, Inside, Kind, UseKind, Written, Lost,
            wire, Block, BlockStop, PlaceInv, Kinds,
            Events!Event, Events!Mark, Events!Starts, Events!Follows
<1>1. CASE Greet
  BY <1>1 DEF Greet, Place
<1>2. CASE CloseBlock
  BY <1>2 DEF CloseBlock, Place
<1>3. CASE OpenBlock
  BY <1>3 DEF OpenBlock, Place
<1>4. CASE Delta
  BY <1>4 DEF Delta, Place
<1>5. CASE CloseLast
  BY <1>5 DEF CloseLast, Place
<1>6. CASE EmptyBlock
  BY <1>6 DEF EmptyBlock, Place
<1>7. CASE EmptyBlockStop
  BY <1>7 DEF EmptyBlockStop, Place
<1>8. CASE UseBlock
  BY <1>8 DEF UseBlock, Place
<1>9. CASE UseDelta
  BY <1>9 DEF UseDelta, Place
<1>10. CASE UseBlockStop
  BY <1>10 DEF UseBlockStop, Place
<1>11. CASE Finish
  BY <1>11 DEF Finish, Place
<1>12. CASE Stop
  BY <1>12 DEF Stop, Place
<1>13. CASE SendError
  BY <1>13 DEF SendError, Place
<1> QED
  BY Silent, <1>1, <1>2, <1>3, <1>4, <1>5, <1>6, <1>7, <1>8, <1>9, <1>10, <1>11, <1>12, <1>13 DEF Next

LEMMA Inductive == Spec => [](FlagsOK /\ CountsOK /\ PlaceInv)
<1>1. Init => FlagsOK
  BY DEF Init, FlagsOK
<1>2. Init => CountsOK
  BY BoundsAssumption DEF Init, CountsOK
<1>3. Init => PlaceInv
  BY DEF Init, PlaceInv, Place, Untold
<1>4. FlagsOK /\ CountsOK /\ PlaceInv /\ [Next]_vars => (FlagsOK /\ CountsOK /\ PlaceInv)'
  BY FlagsStep, CountsStep, PlaceStep
<1> QED
  BY <1>1, <1>2, <1>3, <1>4, PTL DEF Spec

(* What the client reads is a run of the message protocol: blocks are      *)
(* numbered in order and never overlap, and nothing follows the end.       *)
THEOREM ProtocolKept == Spec => Implements
<1>1. Init => Events!Init
  BY DEF Init, Events!Init
<1>2. FlagsOK /\ CountsOK /\ PlaceInv /\ [Next]_vars => [Events!Next]_last
  BY WrittenFollows DEF Events!Next
<1> QED
  BY <1>1, <1>2, Inductive, PTL DEF Spec, Events!Spec, Implements

(* The end a client reads and the status that is recorded agree. *)
THEOREM EndsAgree == Spec => []EndAgrees
<1>1. FlagsOK /\ CountsOK /\ PlaceInv => EndAgrees
  BY DEF FlagsOK, PlaceInv, Place, EndAgrees
<1> QED
  BY <1>1, Inductive, PTL
=============================================================================

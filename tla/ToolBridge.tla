----------------------------- MODULE ToolBridge -----------------------------
(***************************************************************************)
(* The tool bridge of OpenAIService: Gemini Web has no tool calling, so a  *)
(* request that declares tools asks the model to answer with a JSON        *)
(* object, and the answer is read back as tool calls, as a message or as   *)
(* nothing usable.                                                         *)
(*                                                                         *)
(* A request is [messages, stream, tools, choice, forced]: the names of    *)
(* the declared functions, the tool_choice mode and, for mode "function",  *)
(* the function's name.  An answer is [opens, text, objects]: how it       *)
(* begins, its text, and the top-level JSON objects found in it in order   *)
(* (after a code fence is stripped).  An object is [status, calls,         *)
(* content], a call [name, fits], where "fits" says that its arguments     *)
(* parse and satisfy the schema of the tool.                               *)
(***************************************************************************)
EXTENDS Integers, SequencesExt

NoText == <<>>

IsToolResult(ms) == ms # <<>> /\ Last(ms).role = "tool"

HasTools(req) == req.tools # {} /\ req.choice # "none"

(* shouldUseToolBridge *)
UsesBridge(req) ==
  /\ HasTools(req)
  /\ ~IsToolResult(req.messages)
  /\ req.messages # <<>> /\ Last(req.messages).role = "user"

(* toolBridgeRequiresToolCall, mustBufferToolBridge *)
RequiresCall(req) == req.choice \in {"required", "function"}

(* Whether the text of a stream reaches the client as it arrives:          *)
(* classifyToolBridgeStreamPrefix holds back all that may be a tool call.  *)
Shows(req, answer) ==
  \/ ~UsesBridge(req)
  \/ ~RequiresCall(req) /\ answer.opens = "prose"

(* A planner result: [ok, calls, content]; calls is empty for a message.   *)
Unusable(content) == [ok |-> FALSE, calls |-> <<>>, content |-> content]
Message(content) == [ok |-> TRUE, calls |-> <<>>, content |-> content]

(* One call of an object; HasTools holds, so there are declared tools.     *)
CallAllowed(req, call) ==
  /\ call.name \in req.tools
  /\ req.choice = "function" => call.name = req.forced
  /\ call.fits

(* validateToolBridgePayload *)
Validated(req, object, text) ==
  CASE object.status = "no_tool" ->
         IF RequiresCall(req) THEN Unusable(NoText) ELSE Message(NoText)
    [] object.status = "message" ->
         IF RequiresCall(req) THEN Unusable(object.content)
                              ELSE Message(object.content)
    [] object.status = "tool_calls" ->
         IF /\ object.calls # <<>>
            /\ \A i \in DOMAIN object.calls : CallAllowed(req, object.calls[i])
         THEN [ok |-> TRUE, calls |-> object.calls, content |-> ""]
         ELSE Unusable(NoText)
    [] OTHER -> Unusable(text)

(* parseToolBridgePlan: the first object that validates. *)
Parsed(req, answer) ==
  LET result(i) == Validated(req, answer.objects[i], answer.text)
      First(i) == result(i).ok /\ \A j \in 1..(i - 1) : ~result(j).ok
  IN IF \E i \in DOMAIN answer.objects : First(i)
     THEN result(CHOOSE i \in DOMAIN answer.objects : First(i))
     ELSE Unusable(IF answer.opens = "blank" THEN NoText ELSE answer.text)

(* looksLikeToolPlannerOutput: the words "status" and "tool_calls" count   *)
(* wherever they stand.                                                    *)
LooksLikePlan(answer) ==
  answer.opens \in {"brace", "fence"} \/ answer.objects # <<>>

(* Mutant of NeedsRepair: an answer in prose is let through. *)
NeedsRepairUnlessProse(req, answer) ==
  ~Parsed(req, answer).ok /\ LooksLikePlan(answer)

(* resolveToolBridgeOutput asks the model again for an answer it cannot    *)
(* use, unless no call is required and the answer is plain text.           *)
NeedsRepair(req, answer) ==
  /\ ~Parsed(req, answer).ok
  /\ RequiresCall(req) \/ LooksLikePlan(answer)

(* What the first answer amounts to when it needs no repair. *)
Resolved(req, answer) ==
  IF Parsed(req, answer).ok THEN Parsed(req, answer) ELSE Message(answer.text)

(* What is left when the repair brought nothing usable: an error for a     *)
(* required call, else the content of the first reading.                   *)
Unrepaired(req, answer) ==
  IF RequiresCall(req) THEN Unusable(NoText) ELSE Message(Parsed(req, answer).content)
=============================================================================

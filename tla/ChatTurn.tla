------------------------------ MODULE ChatTurn ------------------------------
(***************************************************************************)
(* Chat completions of OpenAIService, streamed or not: a client keeps a    *)
(* chat and sends it (or only its newest message) with every turn; the     *)
(* service finds the Gemini conversation that already holds the chat and   *)
(* sends it the newest message alone, or starts a conversation with the    *)
(* whole history; it moves a rejected conversation to a fresh one, reads   *)
(* tool calls out of the answer, and records the turn.  A request takes    *)
(* contextMu once per lookup and per update, and other requests run in     *)
(* between.                                                                *)
(*                                                                         *)
(* The provider is reduced to what this layer can tell: which conversation *)
(* ids a client holds a record for, and which of them are flagged.  How    *)
(* much a Gemini conversation has been told is history, kept for the       *)
(* properties.                                                             *)
(***************************************************************************)
EXTENDS ChatContexts, ToolBridge

CONSTANTS
  Chats,
  Styles,      \* how a chat may use the API: [explicit, whole,
               \* opens, streams, tools, choices, turns]
  Casts,       \* the styles of the chats that run beside each other
  Exposed,     \* bound: the styles whose conversations may break or be lost
  Outputs,     \* what Gemini may answer a request with tools
  Plain,       \* its answer to a request without
  MaxTurns,    \* bound: user messages of all chats
  MaxFaults,   \* bound: generations that fail and records that are lost
  MaxBranches, \* bound: times a client goes back in its chat
  KeptUsers,   \* bound: user messages it keeps when it does
  MaxIds,      \* bound: conversation ids issued
  MaxTime,     \* bound on the clock
  MaxConversations, \* maxConversationCacheEntries
  Racy         \* a record may be lost and time may pass under a request

ASSUME StylesAssumption ==
  /\ Exposed \subseteq Styles
  /\ Styles \subseteq [explicit : BOOLEAN, whole : BOOLEAN, opens : Nat,
                       streams : SUBSET BOOLEAN, tools : SUBSET (SUBSET STRING), choices : SUBSET STRING,
                       turns : Nat]
  /\ Casts \subseteq [Chats -> Styles]

Ids == 1..MaxIds

ASSUME BoundsAssumption == {MaxIds, MaxFaults, MaxTime, MaxConversations} \subseteq Nat

(* The ids clients bring are not those the service makes. *)
ASSUME IdsAssumption == NoId \notin Ids \cup Chats /\ Chats \cap Ids = {}

VARIABLES
  store,      \* the maps of module ChatContexts
  clock,
  records,    \* Client.conversations, conversationSeen
  untrusted,  \* Client.conversationUntrusted
  issued,     \* newAutoProviderConversationID, so far
  log,        \* the chat as its client has it
  style,
  pc,
  req,        \* the request, see ToolBridge
  lookups,    \* those still to be tried
  plan,       \* openAIContextPlan: [id, client, auto, prompt, main, light]
  opened,     \* the conversation id in opts, which a migration leaves alone
  attempt,    \* 1, or 2 after a migration
  observed,   \* upstreamOutputObserved
  output,     \* response.Text, completionText
  outcome,    \* the toolBridgePlan the client gets
  known,      \* history: what the conversation of an id was told
  told,       \* history: the tool sets it was told
  shown,      \* history: attempts whose text went to the client
  home,       \* history: the conversation of the chat's last turn
  faults, branches

provider == <<records, untrusted>>
client == <<log, style, home, branches>>
request == <<req, lookups, plan, opened>>
progress == <<attempt, observed, output, outcome, shown>>
upstream == <<known, told>>
bounds == <<clock, faults>>
vars == <<store, provider, issued, client, pc, request, progress, upstream, bounds>>

NoPlan == [id |-> NoId, client |-> <<>>, auto |-> FALSE, prompt |-> {},
           main |-> <<>>, light |-> FALSE]
NoReq == [messages |-> <<>>, stream |-> FALSE, tools |-> {},
          choice |-> "none", forced |-> ""]
NoHome == [id |-> NoId, at |-> 0]

System == [role |-> "system", text |-> <<"persona">>]

Init ==
  /\ store = EmptyStore
  /\ clock = 0 /\ faults = 0 /\ issued = 0
  /\ records = Empty /\ untrusted = {}
  /\ style \in Casts
  /\ log = [c \in Chats |-> IF style[c].whole THEN <<System>> ELSE <<>>]
  /\ home = [c \in Chats |-> NoHome]
  /\ branches = [c \in Chats |-> 0]
  /\ pc = [c \in Chats |-> "idle"]
  /\ req = [c \in Chats |-> NoReq]
  /\ lookups = [c \in Chats |-> <<>>]
  /\ plan = [c \in Chats |-> NoPlan]
  /\ opened = [c \in Chats |-> NoId]
  /\ attempt = [c \in Chats |-> 1]
  /\ observed = [c \in Chats |-> FALSE]
  /\ output = [c \in Chats |-> Plain]
  /\ outcome = [c \in Chats |-> Message(NoText)]
  /\ shown = [c \in Chats |-> {}]
  /\ known = [id \in Ids |-> {}]
  /\ told = [id \in Ids |-> {}]

Goto(c, label) == pc' = [pc EXCEPT ![c] = label]

(* The request is over; what it held is garbage. *)
Over(c) ==
  /\ Goto(c, "idle")
  /\ req' = [req EXCEPT ![c] = NoReq]
  /\ lookups' = [lookups EXCEPT ![c] = <<>>]
  /\ plan' = [plan EXCEPT ![c] = NoPlan]
  /\ opened' = [opened EXCEPT ![c] = NoId]
  /\ attempt' = [attempt EXCEPT ![c] = 1]
  /\ observed' = [observed EXCEPT ![c] = FALSE]
  /\ output' = [output EXCEPT ![c] = Plain]
  /\ outcome' = [outcome EXCEPT ![c] = Message(NoText)]
  /\ shown' = [shown EXCEPT ![c] = {}]

Quiet == \A c \in Chats : pc[c] = "idle"

-----------------------------------------------------------------------------
(* The clients. *)

Users(ms) == Cardinality({i \in DOMAIN ms : IsUser(ms[i])})

AwaitsTool(ms) == ms # <<>> /\ Last(ms).role = "calls"

LastAt(ms, role) == CHOOSE i \in DOMAIN ms :
                      /\ ms[i].role = role
                      /\ \A j \in (i + 1)..Len(ms) : ms[j].role # role

(* The turns of all chats, finished and under way; one for every branch. *)
Begun ==
  MapThenSumSet(LAMBDA c : Users(log[c]) + branches[c] + (IF pc[c] = "idle" THEN 0 ELSE 1), Chats)

(* The text of the user message n of a chat.  Several chats may open with  *)
(* the same words, and what the service keeps is keyed by words alone.     *)
Words(c, n) == IF n <= style[c].opens THEN <<"opening", n>> ELSE <<c, n, branches[c]>>

(* What the client adds to its chat next. *)
NewMessage(c) ==
  IF AwaitsTool(log[c])
  THEN [role |-> "tool", text |-> <<c, Users(log[c]), branches[c], "result">>]
  ELSE [role |-> "user", text |-> Words(c, Users(log[c]) + 1)]

(* A client that does not send its whole chat sends the newest exchange.   *)
Messages(c) ==
  LET chat == Append(log[c], NewMessage(c))
  IN IF style[c].whole THEN chat ELSE SubSeq(chat, LastAt(chat, "user"), Len(chat))

Request(c, stream, tools, choice) ==
  [messages |-> Messages(c), stream |-> stream, tools |-> tools,
   choice |-> IF tools = {} THEN "none" ELSE choice,
   forced |-> IF tools # {} /\ choice = "function" THEN CHOOSE t \in tools : TRUE ELSE ""]

-----------------------------------------------------------------------------
(* Planning: planRequestContext, planToolResultContext. *)

Continues(ms) == Len(ms) >= 2 /\ IsUser(Last(ms))

(* The index of the user message the tool calls answer. *)
Asked(ms) == LastAt(ms, "calls") - 1

Tries(kinds, ms) == [i \in DOMAIN kinds |-> [kind |-> kinds[i], messages |-> ms]]

Lookups(c, ms) ==
  IF IsToolResult(ms)
  THEN Tries(<<"transcript", "suffix", "window", "root">>, SubSeq(ms, 1, Asked(ms) - 1))
       \o Tries(<<"any", "suffix", "window", "root">>, SubSeq(ms, 1, Asked(ms)))
  ELSE IF Continues(ms)
  THEN Tries(<<"transcript", "suffix", "window", "root">>, Front(ms))
  ELSE IF style[c].explicit THEN Tries(<<"explicit", "self">>, <<c>>)
  ELSE <<>>

(* The messages a prompt carries: the tool results with their question,    *)
(* the newest message, or the chat.                                        *)
Prompt(ms, auto) ==
  IF IsToolResult(ms) THEN Range(SubSeq(ms, Asked(ms), Len(ms)))
  ELSE IF auto THEN {Last(ms)}
  ELSE Range(ms)

Planned(c, id, auto) ==
  LET ms == req[c].messages
  IN [id |-> id,
      client |-> IF style[c].explicit /\ ~IsToolResult(ms) THEN <<c>> ELSE <<>>,
      auto |-> auto,
      prompt |-> Prompt(ms, auto),
      main |-> IF IsToolResult(ms) THEN SubSeq(ms, 1, Asked(ms)) ELSE ms,
      light |-> FALSE]


(* providerConversationReady, with OPENAI_CONTEXT_LOCAL_FALLBACK on. *)
Ready == DOMAIN records \ untrusted

(* The tools of a request that brings tool results are not looked at. *)
Ask(c) ==
  /\ pc[c] = "idle"
  /\ \/ AwaitsTool(log[c])
     \/ Begun < MaxTurns /\ Users(log[c]) < style[c].turns
  /\ \E stream \in style[c].streams, choice \in style[c].choices,
        tools \in (IF AwaitsTool(log[c]) THEN {{}} ELSE style[c].tools) :
       req' = [req EXCEPT ![c] = Request(c, stream, tools, choice)]
  /\ lookups' = [lookups EXCEPT ![c] = Lookups(c, Messages(c))]
  /\ Goto(c, "plan")
  /\ UNCHANGED <<store, provider, issued, client, plan, opened, progress, upstream, bounds>>

(* One providerConversationFor... call. *)
LookUp(c) ==
  /\ pc[c] = "plan" /\ lookups[c] # <<>>
  /\ LET l == Head(lookups[c])
         id == Found(store, l, Ready, clock)
     IN /\ store' = LookedUp(store, l, Ready, clock)
        /\ IF id = NoId
           THEN /\ lookups' = [lookups EXCEPT ![c] = Tail(@)]
                /\ UNCHANGED <<pc, plan, opened>>
           ELSE /\ plan' = [plan EXCEPT ![c] = Planned(c, id, TRUE)]
                /\ opened' = [opened EXCEPT ![c] = id]
                /\ lookups' = [lookups EXCEPT ![c] = <<>>]
                /\ Goto(c, "prompt")
  /\ UNCHANGED <<provider, issued, client, req, progress, upstream, bounds>>

(* Nothing was found: a new id, with the history unless the client sent    *)
(* an id of its own and its newest message alone.                          *)
PlanNew(c) ==
  /\ pc[c] = "plan" /\ lookups[c] = <<>>
  /\ issued < MaxIds
  /\ issued' = issued + 1
  /\ LET ms == req[c].messages
         auto == style[c].explicit /\ ~IsToolResult(ms) /\ ~Continues(ms)
     IN plan' = [plan EXCEPT ![c] = Planned(c, issued + 1, auto)]
  /\ opened' = [opened EXCEPT ![c] = issued + 1]
  /\ Goto(c, "prompt")
  /\ UNCHANGED <<store, provider, client, req, lookups, progress, upstream, bounds>>

(* Mutant of BuildPrompt: any conversation with an id knows the tools. *)
BuildPromptById(c) ==
  /\ pc[c] = "prompt"
  /\ plan' = [plan EXCEPT ![c].light = UsesBridge(req[c]) /\ plan[c].auto]
  /\ Goto(c, "send")
  /\ UNCHANGED <<store, provider, issued, client, req, lookups, opened, progress, upstream, bounds>>

(* buildToolBridgePromptForPlan: the tools are described unless the        *)
(* conversation was given this very set.                                   *)
BuildPrompt(c) ==
  /\ pc[c] = "prompt"
  /\ plan' = [plan EXCEPT ![c].light =
                /\ UsesBridge(req[c])
                /\ plan[c].auto
                /\ ToolsKnown(store, plan[c].id, req[c].tools)]
  /\ Goto(c, "send")
  /\ UNCHANGED <<store, provider, issued, client, req, lookups, opened, progress, upstream, bounds>>

-----------------------------------------------------------------------------
(* The provider answers. *)

(* What the conversation of id holds once text is sent to it: without a    *)
(* record the upstream starts a new conversation under the same id.        *)
Continued(history, id, text) ==
  [history EXCEPT ![id] = (IF id \in DOMAIN records THEN @ ELSE {}) \cup text]

Send(c) ==
  /\ pc[c] = "send"
  /\ LET tools == IF UsesBridge(req[c]) /\ ~plan[c].light THEN {req[c].tools} ELSE {}
     IN /\ known' = Continued(known, plan[c].id, plan[c].prompt)
        /\ told' = Continued(told, plan[c].id, tools)
  /\ Goto(c, "wait")
  /\ UNCHANGED <<store, provider, issued, client, request, progress, bounds>>

Answers(c) == IF UsesBridge(req[c]) THEN Outputs ELSE {Plain}

(* handleStreamEvent: the stream has brought text, which may be held back. *)
Emit(c) ==
  /\ pc[c] = "wait"
  /\ req[c].stream /\ ~observed[c]
  /\ observed' = [observed EXCEPT ![c] = TRUE]
  /\ \E answer \in Answers(c) :
       /\ output' = [output EXCEPT ![c] = answer]
       /\ shown' = [shown EXCEPT ![c] =
                      IF Shows(req[c], answer) THEN @ \cup {attempt[c]} ELSE @]
  /\ UNCHANGED <<store, provider, issued, client, pc, request, attempt, outcome, upstream, bounds>>

(* updateConversation, pruneConversationsLocked, after markConversation-   *)
(* Untrusted for the ids in flagged.                                       *)
Updated(id, flagged) ==
  LET stale == Stale(records, clock)
      young == Drop(records, stale)
  IN \E surplus \in Oldest(young, MaxConversations) :
       /\ records' = Put(Drop(young, surplus), {id}, id, clock)
       /\ untrusted' = (untrusted \cup flagged) \ (stale \cup surplus)

(* The generation succeeds; a stream that brought no text would be an      *)
(* error.                                                                  *)
Answered(c, answer) ==
  /\ pc[c] = "wait"
  /\ req[c].stream => observed[c] /\ answer = output[c]
  /\ answer \in Answers(c)
  /\ output' = [output EXCEPT ![c] = answer]
  /\ IF UsesBridge(req[c])
     THEN Goto(c, "tools") /\ UNCHANGED outcome
     ELSE /\ Goto(c, "remember")
          /\ outcome' = [outcome EXCEPT ![c] = Message(answer.text)]
  /\ UNCHANGED <<store, issued, client, request, attempt, observed, shown, clock>>

Answer(c) ==
  /\ \E answer \in Outputs \cup {Plain} : Answered(c, answer)
  /\ Updated(plan[c].id, {})
  /\ UNCHANGED <<upstream, faults>>

(* The conversation id changes after text was shown: the turn succeeds and *)
(* the conversation is flagged (checkConversationContinuity).              *)
AnswerElsewhere(c) ==
  /\ style[c] \in Exposed /\ faults < MaxFaults
  /\ req[c].stream
  /\ plan[c].id \in DOMAIN records
  /\ \E answer \in Outputs \cup {Plain} : Answered(c, answer)
  /\ Updated(plan[c].id, {plan[c].id})
  /\ known' = [known EXCEPT ![plan[c].id] = plan[c].prompt]
  /\ told' = [told EXCEPT ![plan[c].id] = {}]
  /\ faults' = faults + 1

(* Any error that does not call for a migration. *)
Fail(c) ==
  /\ pc[c] \in {"send", "wait"}
  /\ faults < MaxFaults /\ faults' = faults + 1
  /\ style[c] \in Exposed \/ attempt[c] = 1
  /\ Over(c)
  /\ UNCHANGED <<store, provider, issued, client, upstream, clock>>

(* Mutant of Migrates: text the client has seen does not matter. *)
MigratesAlways(c) == attempt[c] = 1

Migrates(c) == attempt[c] = 1 /\ ~observed[c]

(* Bard error 1097 or a continuity mismatch: shouldMigrateProvider-        *)
(* Conversation.  Not every path flags the conversation.                   *)
Reject(c) ==
  /\ pc[c] = "wait"
  /\ faults < MaxFaults /\ faults' = faults + 1
  /\ style[c] \in Exposed \/ (attempt[c] = 1 /\ ~observed[c])
  /\ \E flagged \in SUBSET {plan[c].id} : untrusted' = untrusted \cup flagged
  /\ IF Migrates(c)
     THEN Goto(c, "recover") /\ UNCHANGED <<request, progress>>
     ELSE Over(c)
  /\ UNCHANGED <<store, records, issued, client, upstream, clock>>

(* recoveryMessagesForProvider *)
Recover(c) ==
  /\ pc[c] = "recover"
  /\ \E pruned \in Pruned(store, clock) :
       LET ms == Merged(Retained(pruned, plan[c].id), req[c].messages)
       IN /\ store' = pruned
          /\ plan' = [plan EXCEPT ![c].main = ms, ![c].prompt = Range(ms)]
  /\ Goto(c, "forget")
  /\ UNCHANGED <<provider, issued, client, req, lookups, opened, progress, upstream, bounds>>

(* forgetProviderConversation, fallbackOptionsWithFreshConversation *)
Forget(c) ==
  /\ pc[c] = "forget"
  /\ issued < MaxIds
  /\ issued' = issued + 1
  /\ store' = Forgotten(store, plan[c].id)
  /\ plan' = [plan EXCEPT ![c].id = issued + 1, ![c].auto = FALSE, ![c].light = FALSE]
  /\ attempt' = [attempt EXCEPT ![c] = 2]
  /\ home' = [home EXCEPT ![c] = NoHome]
  /\ Goto(c, "send")
  /\ UNCHANGED <<provider, log, style, branches, req, lookups, opened, observed, output,
                 outcome, shown, upstream, bounds>>

-----------------------------------------------------------------------------
(* Reading the answer and recording the turn. *)

(* rememberToolBridgeContext, then resolveToolBridgeOutput unless the text *)
(* was streamed as it came.                                                *)
ReadAnswer(c) ==
  /\ pc[c] = "tools"
  /\ store' = ToolsRemembered(store, plan[c].id, req[c].tools, clock)
  /\ LET streamed == req[c].stream /\ Shows(req[c], output[c])
     IN IF ~streamed /\ NeedsRepair(req[c], output[c])
        THEN Goto(c, "repair") /\ UNCHANGED outcome
        ELSE /\ Goto(c, "remember")
             /\ outcome' = [outcome EXCEPT ![c] =
                  IF streamed THEN Message(output[c].text)
                              ELSE Resolved(req[c], output[c])]
  /\ UNCHANGED <<provider, issued, client, request, attempt, observed, output,
                 shown, upstream, bounds>>

(* The repair is settled: an error ends the request. *)
Settled(c, result) ==
  IF result.ok
  THEN /\ outcome' = [outcome EXCEPT ![c] = result]
       /\ Goto(c, "remember")
       /\ UNCHANGED <<request, attempt, observed, output, shown>>
  ELSE Over(c)

(* The model is asked again, in the conversation of opts.  Its repaired    *)
(* answer replaces the first for the client, not for the record.           *)
Repair(c) ==
  /\ pc[c] = "repair"
  /\ known' = Continued(known, opened[c], {})
  /\ told' = Continued(told, opened[c], {req[c].tools})
  /\ \E again \in Outputs :
       Settled(c, IF Parsed(req[c], again).ok THEN Parsed(req[c], again)
                  ELSE Unrepaired(req[c], output[c]))
  /\ Updated(opened[c], {})
  /\ UNCHANGED <<store, issued, client, bounds>>

RepairFails(c) ==
  /\ pc[c] = "repair"
  /\ faults < MaxFaults /\ faults' = faults + 1
  /\ Settled(c, Unrepaired(req[c], output[c]))
  /\ UNCHANGED <<store, provider, issued, client, upstream, clock>>

Reply(c) ==
  IF outcome[c].calls # <<>> THEN [role |-> "calls", text |-> <<"calls">>]
  ELSE [role |-> "assistant", text |-> outcome[c].content]

(* plan.ResponseText: a stream records the message it read out of a JSON   *)
(* answer, a call that does not stream records the JSON.                   *)
Recorded(c) ==
  IF /\ req[c].stream /\ ~Shows(req[c], output[c])
     /\ outcome[c].calls = <<>> /\ outcome[c].content # NoText
  THEN outcome[c].content ELSE output[c].text

(* rememberRequestContext, and the client has its answer. *)
Remember(c) ==
  /\ pc[c] = "remember"
  /\ IF plan[c].id \in DOMAIN records /\ Recorded(c) # NoText
     THEN /\ \E pruned \in Pruned(store, clock) :
               store' = Remembered(pruned,
                 [id |-> plan[c].id, client |-> plan[c].client, main |-> plan[c].main,
                  reply |-> [role |-> "assistant", text |-> Recorded(c)]], clock)
          /\ home' = [home EXCEPT ![c] = [id |-> plan[c].id, at |-> clock]]
     ELSE /\ UNCHANGED store
          /\ home' = [home EXCEPT ![c] = NoHome]
  /\ log' = [log EXCEPT ![c] = @ \o <<NewMessage(c), Reply(c)>>]
  /\ Over(c)
  /\ UNCHANGED <<provider, issued, style, branches, upstream, bounds>>

-----------------------------------------------------------------------------
(* The environment. *)

(* The client goes back to an earlier point of its chat. *)
Branch(c) ==
  /\ pc[c] = "idle" /\ style[c].whole /\ style[c] \in Exposed
  /\ branches[c] < MaxBranches
  /\ \E i \in DOMAIN log[c] :
       /\ IsUser(log[c][i])
       /\ Users(SubSeq(log[c], 1, i - 1)) <= KeptUsers
       /\ log' = [log EXCEPT ![c] = SubSeq(@, 1, i - 1)]
  /\ branches' = [branches EXCEPT ![c] = @ + 1]
  /\ home' = [home EXCEPT ![c] = NoHome]
  /\ UNCHANGED <<store, provider, issued, style, pc, request, progress, upstream, bounds>>

Disturbable ==
  \/ Racy
  \/ Quiet /\ \A c \in Chats : style[c] \in Exposed

(* The account that holds the record leaves, or loses it. *)
LoseRecord(id) ==
  /\ Disturbable
  /\ faults < MaxFaults /\ faults' = faults + 1
  /\ id \in DOMAIN records
  /\ records' = Drop(records, {id})
  /\ untrusted' = untrusted \ {id}
  /\ UNCHANGED <<store, issued, client, pc, request, progress, upstream, clock>>

Tick ==
  /\ Disturbable
  /\ clock < MaxTime
  /\ clock' = clock + 1
  /\ UNCHANGED <<store, provider, issued, client, pc, request, progress, upstream, faults>>

Turn(c) ==
  \/ Ask(c) \/ LookUp(c) \/ PlanNew(c) \/ BuildPrompt(c) \/ Send(c) \/ Emit(c)
  \/ Answer(c) \/ AnswerElsewhere(c) \/ Fail(c) \/ Reject(c) \/ Recover(c)
  \/ Forget(c) \/ ReadAnswer(c) \/ Repair(c) \/ RepairFails(c) \/ Remember(c)

Next ==
  \/ \E c \in Chats : Turn(c) \/ Branch(c)
  \/ \E id \in Ids : LoseRecord(id)
  \/ Tick

Spec == Init /\ [][Next]_vars

-----------------------------------------------------------------------------
(* Properties. *)

TypeOK ==
  /\ clock \in 0..MaxTime /\ faults \in 0..MaxFaults /\ issued \in 0..MaxIds
  /\ DOMAIN records \subseteq 1..issued /\ untrusted \subseteq 1..issued
  /\ \A c \in Chats :
       /\ plan[c].id \in {NoId} \cup 1..issued
       /\ opened[c] \in {NoId} \cup 1..issued
       /\ attempt[c] \in {1, 2}
       /\ shown[c] \subseteq 1..attempt[c]
       /\ pc[c] \in {"idle", "plan", "prompt", "send", "wait", "recover", "forget",
                     "tools", "repair", "remember"}

(* What the people and tools of a chat have said; what the model said it   *)
(* knows itself.                                                           *)
Said(messages) == {m \in messages : m.role \notin {"assistant", "calls"}}

Chat(c) == Said(Range(log[c] \o req[c].messages))


(* And with nothing else: a conversation that is continued holds no        *)
(* message of another chat and none of a branch the client has left.       *)
NothingElse ==
  \A c \in Chats :
    pc[c] = "wait" /\ plan[c].auto => Said(known[plan[c].id]) \subseteq Chat(c)

(* A chat in words of its own is not moved to another conversation while   *)
(* the one that answered its last turn is at hand.                         *)
StaysPut ==
  \A c \in Chats :
    (/\ style[c].opens = 0
     /\ pc[c] = "send" /\ attempt[c] = 1
     /\ home[c].id \in Ready /\ home[c].at = clock)
    => plan[c].id = home[c].id

(* A prompt that leaves the tools out goes to a conversation that was told *)
(* these very tools.                                                       *)
LightPromptKnown ==
  \A c \in Chats :
    pc[c] = "wait" /\ plan[c].light => req[c].tools \in told[plan[c].id]

(* The text of a stream comes from one generation: nothing is sent again   *)
(* once the client has seen some of it.                                    *)
OneAttempt ==
  \A c \in Chats :
    /\ \A i, j \in shown[c] : i = j
    /\ attempt[c] = 2 => 1 \notin shown[c]

(* The answer honours tool_choice on every path: calls name declared tools *)
(* (the forced one), and a required call is never replaced or preceded by  *)
(* text.                                                                   *)
ToolChoiceHonoured ==
  \A c \in Chats :
    pc[c] = "remember" /\ UsesBridge(req[c]) =>
      /\ \A i \in DOMAIN outcome[c].calls :
           LET name == outcome[c].calls[i].name
           IN /\ name \in req[c].tools
              /\ req[c].choice = "function" => name = req[c].forced
      /\ RequiresCall(req[c]) => outcome[c].calls # <<>> /\ shown[c] = {}

(* A turn after its conversation was flagged is answered with the whole    *)
(* chat.  The code does not ensure it for a client that sends its newest   *)
(* message alone.                                                          *)
FlaggedRebuilt ==
  \A c \in Chats :
    pc[c] = "wait" /\ attempt[c] = 1 /\ home[c].id \in untrusted
    => Chat(c) \subseteq known[plan[c].id]

(* A repair is asked for in the conversation that holds the answer.  The   *)
(* code does not ensure it: a migration leaves the id in opts alone.       *)
RepairInPlace ==
  \A c \in Chats : pc[c] = "repair" => opened[c] = plan[c].id
=============================================================================

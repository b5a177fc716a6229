--------------------------- MODULE AccountRouter ---------------------------
(***************************************************************************)
(* How ClientPool routes requests: the active account and its stay window, *)
(* the bindings of conversations to accounts, the retry of a failed        *)
(* request on a second account, the account removed or added under it, and *)
(* the state file that carries the window over a restart.                  *)
(*                                                                         *)
(* A step is one critical section of the pool's mutex, or one event of a   *)
(* request.  HasConversationState and IsConversationUntrusted look at the  *)
(* accounts outside the mutex, so they are two steps.  An account is up or *)
(* down (Client.IsHealthy); AccountRecovery says how it gets there, here   *)
(* it may change at any time.  Deadlines are abstracted to whether they    *)
(* have passed.                                                            *)
(***************************************************************************)
EXTENDS Integers, Sequences, SequencesExt, FiniteSetsExt

CONSTANTS
  Declared,    \* accounts of the configuration, by descending priority
  Addable,     \* accounts the console may add
  Convs,       \* conversation ids
  Requests,    \* goroutines that serve requests
  Operations,  \* what happens in this deployment
  NoAccount,
  NoConv,      \* a request without conversation_id
  StateFileFails  \* writes of the state file may fail

AllOperations ==
  {"lookup", "send", "stateless", "outage", "age", "forget", "remove", "add", "restart"}

Accounts == ToSet(Declared) \cup ToSet(Addable)

ASSUME DeclaredAssumption ==
  /\ Declared \in Seq(Accounts) /\ Addable \in Seq(Accounts)
  /\ IsInjective(Declared \o Addable)
ASSUME OperationsAssumption == Operations \subseteq AllOperations
ASSUME StateFileAssumption == StateFileFails \in BOOLEAN
ASSUME NoAssumption == NoAccount \notin Accounts /\ NoConv \notin Convs

VARIABLES
  clients,       \* ClientPool.clients
  healthy,       \* accounts whose client is healthy
  activeIndex,   \* counted from 0, -1: none
  windowOpen,    \* now.Before(activeUntil)
  saved,         \* the state file: active account, and its activeUntil ahead
  conversationTo,
  conversationSeen, \* "old": last used more than 12 hours ago
  state,         \* Client.conversations of every account
  phase,         \* of ClientPool.Init: "running", "some" up, "done"
  op, pc, conv,  \* operation, next step and conversation of each request
  client,        \* the account it was sent to, or looked up
  attempt,       \* times it was sent
  spoke,         \* accounts whose text its caller has seen
  owed           \* history: the account in its window when the process died

active == <<activeIndex, windowOpen, saved>>
bindings == <<conversationTo, conversationSeen>>
request == <<op, pc, conv, client, attempt, spoke>>
vars == <<clients, healthy, active, bindings, state, phase, request, owed>>

(* The accounts in S, in the order they have in s.                         *)
Kept(s, S) ==
  {q \in SetToSeqs(ToSet(s) \cap S) :
     \A i, j \in DOMAIN q :
       i < j => \E k, l \in DOMAIN s : k < l /\ s[k] = q[i] /\ s[l] = q[j]}

InPool(a) == a \in ToSet(clients)
Up(a) == InPool(a) /\ a \in healthy
ActiveAccount == IF activeIndex = -1 THEN NoAccount ELSE clients[activeIndex + 1]

Init ==
  /\ clients = Declared
  /\ healthy = {}
  /\ activeIndex = -1
  /\ windowOpen = FALSE
  /\ saved = [account |-> NoAccount, ahead |-> FALSE]
  /\ conversationTo = [c \in Convs |-> NoAccount]
  /\ conversationSeen = [c \in Convs |-> "none"]
  /\ state = [a \in Accounts |-> {}]
  /\ phase = "running"
  /\ op = [r \in Requests |-> "none"]
  /\ pc = [r \in Requests |-> "idle"]
  /\ conv = [r \in Requests |-> NoConv]
  /\ client = [r \in Requests |-> NoAccount]
  /\ attempt = [r \in Requests |-> 0]
  /\ spoke = [r \in Requests |-> {}]
  /\ owed = NoAccount

-----------------------------------------------------------------------------
(* Requests: beginning, ending. *)

Goto(r, label) == pc' = [pc EXCEPT ![r] = label]

Begin(r, o, c) ==
  /\ (IF c = NoConv THEN "stateless" ELSE o) \in Operations
  /\ pc[r] = "idle"
  /\ op' = [op EXCEPT ![r] = o]
  /\ conv' = [conv EXCEPT ![r] = c]
  /\ Goto(r, IF o = "send" THEN "select" ELSE "read")
  /\ UNCHANGED <<clients, healthy, active, bindings, state, phase, client, attempt, spoke, owed>>

Finish(r) ==
  /\ op' = [op EXCEPT ![r] = "none"]
  /\ conv' = [conv EXCEPT ![r] = NoConv]
  /\ client' = [client EXCEPT ![r] = NoAccount]
  /\ attempt' = [attempt EXCEPT ![r] = 0]
  /\ spoke' = [spoke EXCEPT ![r] = {}]
  /\ Goto(r, "idle")

-----------------------------------------------------------------------------
(* HasConversationState, IsConversationUntrusted. *)

ReadBinding(r) ==
  /\ pc[r] = "read"
  /\ client' = [client EXCEPT ![r] = conversationTo[conv[r]]]
  /\ Goto(r, "look")
  /\ UNCHANGED <<clients, healthy, active, bindings, state, phase, op, conv, attempt, spoke, owed>>

(* The owner is up, or no account that is up knows the conversation. *)
LookAndReturn(r) ==
  /\ pc[r] = "look"
  /\ IF client[r] # NoAccount
       THEN Up(client[r])
       ELSE \A a \in ToSet(clients) : Up(a) => conv[r] \notin state[a]
  /\ Finish(r)
  /\ UNCHANGED <<clients, healthy, active, bindings, state, phase, owed>>

LookAndUnbind(r) ==
  /\ pc[r] = "look"
  /\ client[r] # NoAccount
  /\ ~Up(client[r])
  /\ Goto(r, "unbind")
  /\ UNCHANGED <<clients, healthy, active, bindings, state, phase, op, conv, client, attempt, spoke, owed>>

(* The first account that is up and knows the conversation. *)
LookAndBind(r) ==
  /\ pc[r] = "look"
  /\ client[r] = NoAccount
  /\ \E i \in 1..Len(clients) :
       LET knows(a) == Up(a) /\ conv[r] \in state[a]
       IN  /\ knows(clients[i])
           /\ \A j \in 1..(i - 1) : ~knows(clients[j])
           /\ client' = [client EXCEPT ![r] = clients[i]]
  /\ Goto(r, "bind")
  /\ UNCHANGED <<clients, healthy, active, bindings, state, phase, op, conv, attempt, spoke, owed>>

Unbind(r) ==
  /\ pc[r] = "unbind"
  /\ conversationTo' = [conversationTo EXCEPT ![conv[r]] = NoAccount]
  /\ conversationSeen' = [conversationSeen EXCEPT ![conv[r]] = "none"]
  /\ Finish(r)
  /\ UNCHANGED <<clients, healthy, active, state, phase, owed>>

Bind(r) ==
  /\ pc[r] = "bind"
  /\ conversationTo' = [conversationTo EXCEPT ![conv[r]] = client[r]]
  /\ conversationSeen' = [conversationSeen EXCEPT ![conv[r]] = "fresh"]
  /\ Finish(r)
  /\ UNCHANGED <<clients, healthy, active, state, phase, owed>>

-----------------------------------------------------------------------------
(* selectActiveLocked *)

ActiveUsable == activeIndex # -1 /\ windowOpen /\ Up(ActiveAccount)

(* The i-th account after the active one, cyclically. *)
After(i) == (activeIndex + 1 + i) % Len(clients)

(* The index of the next account that is up. *)
NextUp ==
  LET up(i) == Up(clients[After(i) + 1])
  IN  After(CHOOSE i \in 0..(Len(clients) - 1) : up(i) /\ \A j \in 0..(i - 1) : ~up(j))

SomeUp == \E a \in ToSet(clients) : Up(a)

(* saveActiveStateLocked: a failed write of the file is only logged. *)
Save(index) ==
  \/ saved' = [account |-> clients[index + 1], ahead |-> TRUE]
  \/ StateFileFails /\ UNCHANGED saved

(* Mutant of Rotate: the file is written before the index moves. *)
RotateSavesFirst(index) ==
  /\ activeIndex' = index
  /\ windowOpen' = TRUE
  /\ saved' = [account |-> ActiveAccount, ahead |-> TRUE]

Rotate(index) ==
  /\ activeIndex' = index
  /\ windowOpen' = TRUE
  /\ Save(index)

(* Mutant of Select: the scan starts at the first account every time. *)
SelectFirst ==
  IF ActiveUsable
    THEN UNCHANGED active
    ELSE Rotate(Min({i \in 0..(Len(clients) - 1) : Up(clients[i + 1])}))

Select == IF ActiveUsable THEN UNCHANGED active ELSE Rotate(NextUp)

Selected == IF ActiveUsable THEN ActiveAccount ELSE clients[NextUp + 1]

-----------------------------------------------------------------------------
(* clientForOptions and the calls that follow it. *)

Owner(r) == IF conv[r] = NoConv THEN NoAccount ELSE conversationTo[conv[r]]

(* Mutant of BindAndPrune: every other binding is pruned. *)
BindAndPruneAll(r, a) ==
  IF conv[r] = NoConv
    THEN UNCHANGED bindings
    ELSE /\ conversationTo' = [c \in Convs |-> IF c = conv[r] THEN a ELSE NoAccount]
         /\ conversationSeen' = [c \in Convs |-> IF c = conv[r] THEN "fresh" ELSE "none"]

(* Bind r's conversation to a, and prune the bindings not used for long. *)
BindAndPrune(r, a) ==
  IF conv[r] = NoConv
    THEN UNCHANGED bindings
    ELSE /\ conversationTo' =
              [c \in Convs |-> CASE c = conv[r] -> a
                                 [] conversationSeen[c] = "old" -> NoAccount
                                 [] OTHER -> conversationTo[c]]
         /\ conversationSeen' =
              [c \in Convs |-> CASE c = conv[r] -> "fresh"
                                 [] conversationSeen[c] = "old" -> "none"
                                 [] OTHER -> conversationSeen[c]]

DropBinding(r) ==
  IF Owner(r) = NoAccount
    THEN UNCHANGED bindings
    ELSE /\ conversationTo' = [conversationTo EXCEPT ![conv[r]] = NoAccount]
         /\ conversationSeen' = [conversationSeen EXCEPT ![conv[r]] = "none"]

(* Mutant of Dispatch: attempts are not counted. *)
DispatchUncounted(r, a) ==
  /\ client' = [client EXCEPT ![r] = a]
  /\ attempt' = [attempt EXCEPT ![r] = 1]
  /\ Goto(r, "call")
  /\ UNCHANGED <<op, conv, spoke>>

(* The request goes to a.  A retry that would go to the account that has   *)
(* just failed is given up.                                                *)
Dispatch(r, a) ==
  IF attempt[r] = 1 /\ client[r] = a
    THEN Finish(r)
    ELSE /\ client' = [client EXCEPT ![r] = a]
         /\ attempt' = [attempt EXCEPT ![r] = @ + 1]
         /\ Goto(r, "call")
         /\ UNCHANGED <<op, conv, spoke>>

(* Mutant of Reuse: the owner is not looked up in the pool. *)
ReuseUnchecked(r) ==
  /\ pc[r] = "select"
  /\ Owner(r) # NoAccount
  /\ Owner(r) \in healthy
  /\ conversationSeen' = [conversationSeen EXCEPT ![conv[r]] = "fresh"]
  /\ Dispatch(r, Owner(r))
  /\ UNCHANGED <<clients, healthy, active, conversationTo, state, phase, owed>>

Reuse(r) ==
  /\ pc[r] = "select"
  /\ Owner(r) # NoAccount
  /\ Up(Owner(r))
  /\ conversationSeen' = [conversationSeen EXCEPT ![conv[r]] = "fresh"]
  /\ Dispatch(r, Owner(r))
  /\ UNCHANGED <<clients, healthy, active, conversationTo, state, phase, owed>>

UseActive(r) ==
  /\ pc[r] = "select"
  /\ Owner(r) = NoAccount \/ ~Up(Owner(r))
  /\ SomeUp
  /\ Select
  /\ BindAndPrune(r, Selected)
  /\ Dispatch(r, Selected)
  /\ UNCHANGED <<clients, healthy, state, phase, owed>>

(* No account at all: the request fails. *)
PoolEmpty(r) ==
  /\ pc[r] = "select"
  /\ clients = <<>>
  /\ DropBinding(r)
  /\ Finish(r)
  /\ UNCHANGED <<clients, healthy, active, state, phase, owed>>

(* The mutex is released while recoverNoHealthyAccount runs. *)
NoneUp(r) ==
  /\ pc[r] = "select"
  /\ clients # <<>>
  /\ ~SomeUp
  /\ DropBinding(r)
  /\ Goto(r, "recover")
  /\ UNCHANGED <<clients, healthy, active, state, phase, op, conv, client, attempt, spoke, owed>>

Reselect(r) ==
  /\ pc[r] = "recover"
  /\ SomeUp
  /\ Select
  /\ BindAndPrune(r, Selected)
  /\ Dispatch(r, Selected)
  /\ UNCHANGED <<clients, healthy, state, phase, owed>>

StillNoneUp(r) ==
  /\ pc[r] = "recover"
  /\ ~SomeUp
  /\ Finish(r)
  /\ UNCHANGED <<clients, healthy, active, bindings, state, phase, owed>>

Learn(r) == state' = [state EXCEPT ![client[r]] = @ \cup ({conv[r]} \ {NoConv})]

(* A part of a streamed answer: the conversation's metadata, or text. *)
StreamMetadata(r) ==
  /\ pc[r] = "call"
  /\ Learn(r)
  /\ UNCHANGED <<clients, healthy, active, bindings, phase, request, owed>>

StreamText(r) ==
  /\ pc[r] = "call"
  /\ spoke' = [spoke EXCEPT ![r] = @ \cup {client[r]}]
  /\ UNCHANGED <<clients, healthy, active, bindings, state, phase, op, pc, conv, client, attempt, owed>>

Answer(r) ==
  /\ pc[r] = "call"
  /\ Learn(r)
  /\ Finish(r)
  /\ UNCHANGED <<clients, healthy, active, bindings, phase, owed>>

(* An error that says nothing of the account, or the caller went away. *)
CallFails(r) ==
  /\ pc[r] = "call"
  /\ Finish(r)
  /\ UNCHANGED <<clients, healthy, active, bindings, state, phase, owed>>

(* Mutant of AuthError: the wrapper does not record that text went out. *)
AuthErrorForgetsText(r) ==
  /\ pc[r] = "call"
  /\ healthy' = healthy \ {client[r]}
  /\ IF attempt[r] = 2 \/ conv[r] \in state[client[r]]
       THEN Finish(r)
       ELSE Goto(r, "select") /\ UNCHANGED <<op, conv, client, attempt, spoke>>
  /\ UNCHANGED <<clients, active, bindings, state, phase, owed>>

(* isAuthOrSessionError: markClientError, then a retry elsewhere of a      *)
(* first attempt that has shown no text and has no upstream conversation.  *)
AuthError(r) ==
  /\ pc[r] = "call"
  /\ healthy' = healthy \ {client[r]}
  /\ IF attempt[r] = 2 \/ spoke[r] # {} \/ conv[r] \in state[client[r]]
       THEN Finish(r)
       ELSE Goto(r, "select") /\ UNCHANGED <<op, conv, client, attempt, spoke>>
  /\ UNCHANGED <<clients, active, bindings, state, phase, owed>>

-----------------------------------------------------------------------------
(* The console, and ClientPool.Init. *)

(* Everything RemoveAccount changes under the mutex.  The last use of a    *)
(* removed conversation stays recorded.                                    *)
RemoveAccount(a) ==
  /\ "remove" \in Operations
  /\ InPool(a)
  /\ clients' \in Kept(clients, Accounts \ {a})
  /\ activeIndex' = IF activeIndex >= Len(clients') THEN -1 ELSE activeIndex
  /\ conversationTo' =
       [c \in Convs |-> IF conversationTo[c] = a THEN NoAccount ELSE conversationTo[c]]
  /\ UNCHANGED <<healthy, windowOpen, saved, conversationSeen, state, phase, request, owed>>

(* AddAccount.  A request that still holds the removed client of the same  *)
(* name does not see the new one, so the model waits for it to end.        *)
AddAccount(a) ==
  /\ "add" \in Operations
  /\ ~InPool(a)
  /\ \A r \in Requests : client[r] # a
  /\ clients' = Append(clients, a)
  /\ healthy' = healthy \ {a}
  /\ state' = [state EXCEPT ![a] = {}]
  /\ UNCHANGED <<active, bindings, phase, request, owed>>

Position(a) == CHOOSE i \in 1..Len(clients) : clients[i] = a

(* The end of ClientPool.Init: unless no account could be initialized, it  *)
(* starts again from the state file, or from the first account that is up. *)
FinishInit ==
  /\ phase # "done"
  /\ phase' = "done"
  /\ \/ /\ phase = "running"
        /\ UNCHANGED active
     \/ /\ phase = "some"
        /\ saved.ahead /\ Up(saved.account)
        /\ activeIndex' = Position(saved.account) - 1
        /\ windowOpen' = TRUE
        /\ UNCHANGED saved
     \/ /\ phase = "some"
        /\ ~(saved.ahead /\ Up(saved.account))
        /\ IF SomeUp
             THEN Rotate(Min({i \in 0..(Len(clients) - 1) : Up(clients[i + 1])}))
             ELSE activeIndex' = -1 /\ UNCHANGED <<windowOpen, saved>>
  /\ UNCHANGED <<clients, healthy, bindings, state, request, owed>>

(* The process dies and starts again: declared accounts come back, and the *)
(* added ones from the cookie cache (AccountRegistry).                     *)
Restart ==
  /\ "restart" \in Operations
  /\ clients' \in Kept(Declared \o Addable, ToSet(Declared) \cup ToSet(clients))
  /\ healthy' = {}
  /\ activeIndex' = -1
  /\ windowOpen' = FALSE
  /\ conversationTo' = [c \in Convs |-> NoAccount]
  /\ conversationSeen' = [c \in Convs |-> "none"]
  /\ state' = [a \in Accounts |-> {}]
  /\ phase' = "running"
  /\ op' = [r \in Requests |-> "none"]
  /\ pc' = [r \in Requests |-> "idle"]
  /\ conv' = [r \in Requests |-> NoConv]
  /\ client' = [r \in Requests |-> NoAccount]
  /\ attempt' = [r \in Requests |-> 0]
  /\ spoke' = [r \in Requests |-> {}]
  /\ owed' = IF saved.ahead THEN saved.account ELSE NoAccount
  /\ UNCHANGED saved

-----------------------------------------------------------------------------
(* What the rest of the program, Google and time do. *)

ComesUp(a) ==
  /\ InPool(a)
  /\ a \notin healthy
  /\ healthy' = healthy \cup {a}
  /\ phase' = IF phase = "running" THEN "some" ELSE phase
  /\ UNCHANGED <<clients, active, bindings, state, request, owed>>

GoesDown(a) ==
  /\ "outage" \in Operations
  /\ a \in healthy
  /\ healthy' = healthy \ {a}
  /\ UNCHANGED <<clients, active, bindings, state, phase, request, owed>>

(* activeUntil passes.  The file holds the same time, unless a write of it *)
(* has failed.                                                             *)
WindowExpires ==
  /\ windowOpen \/ saved.ahead
  /\ \/ windowOpen' = FALSE /\ saved' = [saved EXCEPT !.ahead = FALSE]
     \/ StateFileFails /\ windowOpen' = FALSE /\ UNCHANGED saved
     \/ StateFileFails /\ saved' = [saved EXCEPT !.ahead = FALSE] /\ UNCHANGED windowOpen
  /\ owed' = IF saved'.ahead THEN owed ELSE NoAccount
  /\ UNCHANGED <<clients, healthy, activeIndex, bindings, state, phase, request>>

(* Twelve hours without a request of c; or an account's cache of           *)
(* conversations drops it.                                                 *)
Ages(c) ==
  /\ "age" \in Operations
  /\ conversationSeen[c] = "fresh"
  /\ conversationSeen' = [conversationSeen EXCEPT ![c] = "old"]
  /\ UNCHANGED <<clients, healthy, active, conversationTo, state, phase, request, owed>>

Forget(a, c) ==
  /\ "forget" \in Operations
  /\ c \in state[a]
  /\ state' = [state EXCEPT ![a] = @ \ {c}]
  /\ UNCHANGED <<clients, healthy, active, bindings, phase, request, owed>>

-----------------------------------------------------------------------------
Serve(r) ==
  \/ ReadBinding(r) \/ LookAndReturn(r) \/ LookAndUnbind(r) \/ LookAndBind(r)
  \/ Unbind(r) \/ Bind(r)
  \/ Reuse(r) \/ UseActive(r) \/ PoolEmpty(r) \/ NoneUp(r)
  \/ Reselect(r) \/ StillNoneUp(r)
  \/ Answer(r) \/ CallFails(r) \/ AuthError(r)

Stream(r) == StreamMetadata(r) \/ StreamText(r)

Environment ==
  \/ \E a \in Accounts : RemoveAccount(a)
  \/ \E a \in ToSet(Addable) : AddAccount(a)
  \/ FinishInit
  \/ Restart
  \/ \E a \in Accounts : ComesUp(a)
  \/ \E a \in Accounts : GoesDown(a)
  \/ WindowExpires
  \/ \E c \in Convs : Ages(c)
  \/ \E a \in Accounts, c \in Convs : Forget(a, c)

Next ==
  \/ \E r \in Requests, c \in Convs : Begin(r, "lookup", c)
  \/ \E r \in Requests, c \in Convs \cup {NoConv} : Begin(r, "send", c)
  \/ \E r \in Requests : Serve(r) \/ Stream(r)
  \/ Environment

Spec == Init /\ [][Next]_vars

(***************************************************************************)
(* A request that is being served goes on, and every call it makes ends:   *)
(* calls to Google and the external refresh have timeouts.                 *)
(***************************************************************************)
FairSpec == Spec /\ \A r \in Requests : WF_vars(Serve(r))

-----------------------------------------------------------------------------
TypeOK ==
  /\ clients \in Seq(Accounts) /\ IsInjective(clients)
  /\ healthy \subseteq Accounts
  /\ activeIndex \in -1..(Len(clients) - 1)
  /\ windowOpen \in BOOLEAN
  /\ saved \in [account : Accounts \cup {NoAccount}, ahead : BOOLEAN]
  /\ conversationTo \in [Convs -> Accounts \cup {NoAccount}]
  /\ conversationSeen \in [Convs -> {"none", "fresh", "old"}]
  /\ state \in [Accounts -> SUBSET Convs]
  /\ phase \in {"running", "some", "done"}
  /\ op \in [Requests -> {"none", "lookup", "send"}]
  /\ pc \in [Requests -> {"idle", "read", "look", "unbind", "bind", "select", "recover", "call"}]
  /\ conv \in [Requests -> Convs \cup {NoConv}]
  /\ client \in [Requests -> Accounts \cup {NoAccount}]
  /\ attempt \in [Requests -> 0..2]
  /\ spoke \in [Requests -> SUBSET Accounts]
  /\ owed \in Accounts \cup {NoAccount}

(* The caller of a stream reads one account: a request whose text has been *)
(* shown is not answered again by a second account (emitted, in            *)
(* GenerateContentStreamForOpenAI).                                        *)
OneVoice == \A r \in Requests : Cardinality(spoke[r]) <= 1

(* A request goes only to an account that is in the pool and up, whatever  *)
(* bindings a concurrent removal or lookup has left.                       *)
DispatchUp == [][\A r \in Requests : attempt'[r] > attempt[r] => Up(client'[r])]_vars

(* The binding of a conversation in use is changed by requests of that     *)
(* conversation only, however many others rotate, fail over and prune.     *)
OthersKeepBinding ==
  [][\A c \in Convs :
       /\ conversationTo[c] \in ToSet(clients')
       /\ conversationSeen[c] = "fresh"
       /\ conversationTo'[c] # conversationTo[c]
       => \E r \in Requests : conv[r] = c /\ pc'[r] # pc[r]]_vars

(* The active account serves until its window ends, while it is up.  The   *)
(* code does not ensure it when an account is removed.                     *)
KeepsActive ==
  [][LET a == ActiveAccount
     IN  windowOpen /\ Up(a) /\ a \in ToSet(clients') \cap healthy' => ActiveAccount' = a]_vars

(* The state file names the active account and its window, so that a crash *)
(* at any moment finds there what the pool was doing.                      *)
FileMatches ==
  activeIndex # -1 => saved = [account |-> ActiveAccount, ahead |-> windowOpen]

(* Every request is answered, refused or given up.                         *)
RequestsEnd == \A r \in Requests : pc[r] # "idle" ~> pc[r] = "idle"

(* Rotation starves no account: one that stays up becomes active again and *)
(* again as long as windows keep opening and closing.                      *)
RoundRobin ==
  \A a \in Accounts :
    <>[]Up(a) /\ []<>windowOpen /\ []<>~windowOpen => []<>(ActiveAccount = a)

(* "Existing conversations stay bound to their first account" (.env.example): *)
(* the binding of a conversation in use stays while its account is up.     *)
StickyBinding ==
  [][\A c \in Convs :
       LET a == conversationTo[c]
       IN  Up(a) /\ a \in ToSet(clients') \cap healthy' /\ conversationSeen[c] = "fresh"
             => conversationTo'[c] = a]_vars

(* "Keeping this file means restart does not reset the current account's   *)
(* remaining stay window" (.env.example).                                  *)
RestartKeepsWindow ==
  [][phase = "some" /\ phase' = "done" /\ Up(owed) => ActiveAccount' = owed]_vars

(* "HTTP status errors [...] never trigger a transparent retry"            *)
(* (technical-details.md): a request that was sent is not sent again.      *)
SentOnce == \A r \in Requests : attempt[r] <= 1
=============================================================================

-------------------------- MODULE AccountRecovery --------------------------
(***************************************************************************)
(* One Gemini account (providers.Client) and every goroutine of the pool   *)
(* that may change its health: the data-plane request that meets an auth   *)
(* error and starts a background recovery, the admin operations (update    *)
(* cookies, refresh, test, remove), initialization, the auto-refresh loop  *)
(* and the recovery that runs the external cookie worker.                  *)
(*                                                                         *)
(* A step is one critical section of the code, or the end of one network   *)
(* call.  In particular setAccountState is two steps, because it writes    *)
(* healthState under statusMu and healthy under mu.  What Google answers   *)
(* is a nondeterministic choice.  A cookie pair is abstracted to the       *)
(* browser session it was taken from.                                      *)
(***************************************************************************)

CONSTANTS
  Tasks,          \* goroutines that operate on the account
  Sessions,       \* browser sessions a cookie pair can come from
  NoSession,      \* "no SNlM0e token": Client.at = ""
  Operations,     \* the operations this deployment performs
  AddedAtRuntime  \* TRUE: added by AddAccount; FALSE: loaded by ClientPool.Init

AllOperations ==
  {"init", "request", "update", "refresh", "test", "auto", "external", "remove"}

ASSUME OperationsAssumption == Operations \subseteq AllOperations
ASSUME SessionsAssumption == NoSession \notin Sessions
ASSUME AddedAssumption == AddedAtRuntime \in BOOLEAN

VARIABLES
  healthState,  \* Client.healthState, under statusMu
  healthy,      \* Client.healthy, under mu: what the router looks at
  session,      \* Client.cookies, under cookies.mu
  token,        \* Client.at: the session whose page it was read from
  refreshing,   \* ClientPool.refreshing[accountID], under the pool's mu
  started,      \* Client.Init has been launched (it is launched once)
  looping,      \* startAutoRefresh is running
  removed,      \* RemoveAccount took the account out of the pool
  op,           \* the operation each task performs
  pc,           \* and its next step
  goal,         \* the state setAccountState is publishing
  seen,         \* the cookie pair a token fetch was sent with
  rotated,      \* RotateCookies succeeded in this operation
  external      \* requiresExternalCookies of refreshClientAsync

account == <<healthState, healthy, session, token>>
life == <<started, looping, removed>>
locals == <<goal, seen, rotated, external>>
vars == <<account, refreshing, life, op, pc, locals>>

States == {"uninitialized", "refreshing", "healthy", "expired", "needs_manual_login"}
Terminal == {"expired", "needs_manual_login"}

Labels ==
  {"idle", "begin", "wait", "stage", "clear", "mark", "fetch", "fetching",
   "rotate", "check", "probe", "reprobe", "probing", "call", "async", "spawn",
   "worker", "settle", "pre", "state", "health", "end"}

(***************************************************************************)
(* The operations that run under the account's single-flight guard.  The   *)
(* Init that AddAccount starts does not take it.                           *)
(***************************************************************************)
Guarded ==
  {"update", "refresh", "recover", "external"}
    \cup (IF AddedAtRuntime THEN {} ELSE {"init"})

(* t is between beginAccountRefresh and endAccountRefresh. *)
Holds(t) == op[t] \in Guarded /\ pc[t] \notin {"idle", "begin", "wait"}

Init ==
  /\ healthState = "uninitialized"
  /\ healthy = FALSE
  /\ session \in Sessions
  /\ token = NoSession
  /\ refreshing = FALSE
  /\ started = FALSE
  /\ looping = FALSE
  /\ removed = FALSE
  /\ op = [t \in Tasks |-> "none"]
  /\ pc = [t \in Tasks |-> "idle"]
  /\ goal = [t \in Tasks |-> "uninitialized"]
  /\ seen = [t \in Tasks |-> NoSession]
  /\ rotated = [t \in Tasks |-> FALSE]
  /\ external = [t \in Tasks |-> FALSE]

-----------------------------------------------------------------------------
(* Control. *)

Goto(t, label) == pc' = [pc EXCEPT ![t] = label]

(* Start publishing state g; label is "pre" where the code writes healthy  *)
(* once more before it calls setAccountState, "state" where it does not.   *)
Publish(t, g, label) ==
  /\ goal' = [goal EXCEPT ![t] = g]
  /\ Goto(t, label)

(* A task takes up operation o.  The pool no longer knows a removed        *)
(* account, so nothing starts on it.                                       *)
Start(t, o, label) ==
  /\ pc[t] = "idle"
  /\ o \in Operations
  /\ ~removed
  /\ op' = [op EXCEPT ![t] = o]
  /\ Goto(t, label)
  /\ UNCHANGED <<account, refreshing, seen, rotated, external>>

(* The operation returns: its locals go out of scope. *)
Finish(t) ==
  /\ op' = [op EXCEPT ![t] = "none"]
  /\ goal' = [goal EXCEPT ![t] = "uninitialized"]
  /\ seen' = [seen EXCEPT ![t] = NoSession]
  /\ rotated' = [rotated EXCEPT ![t] = FALSE]
  /\ external' = [external EXCEPT ![t] = FALSE]
  /\ Goto(t, "idle")

(* Init of a loaded account goes through the guard; AddAccount's does not. *)
StartInit(t) ==
  /\ ~started
  /\ started' = TRUE
  /\ goal' = [goal EXCEPT ![t] = "refreshing"]
  /\ Start(t, "init", IF AddedAtRuntime THEN "state" ELSE "begin")
  /\ UNCHANGED <<looping, removed>>

StartAdmin(t, o) ==
  /\ o \in {"update", "refresh"}
  /\ Start(t, o, "begin")
  /\ UNCHANGED <<life, goal>>

(* The pool routes a request here only while the account is healthy;       *)
(* without a token the request fails before it is sent.                    *)
StartRequest(t) ==
  /\ healthy
  /\ token # NoSession
  /\ Start(t, "request", "call")
  /\ UNCHANGED <<life, goal>>

(* recoverNoHealthyAccount, refreshInvalidClientsAsync. *)
StartExternal(t) ==
  /\ ~healthy
  /\ Start(t, "external", "begin")
  /\ UNCHANGED <<life, goal>>

(* TestAccount refuses while a recovery is in progress, and only then. *)
StartTest(t) ==
  /\ ~refreshing
  /\ Start(t, "test", "check")
  /\ UNCHANGED <<life, goal>>

(* One tick of startAutoRefresh, which is a single goroutine. *)
StartAuto(t) ==
  /\ looping
  /\ \A u \in Tasks : op[u] # "auto"
  /\ Start(t, "auto", "rotate")
  /\ UNCHANGED <<life, goal>>

(* RemoveAccount, then Client.Close: the loop is stopped, Expired is set. *)
StartRemove(t) ==
  /\ Start(t, "remove", "pre")
  /\ goal' = [goal EXCEPT ![t] = "expired"]
  /\ removed' = TRUE
  /\ looping' = FALSE
  /\ UNCHANGED started

-----------------------------------------------------------------------------
(* The single-flight guard. *)

Acquire(t) ==
  /\ pc[t] = "begin"
  /\ ~refreshing
  /\ refreshing' = TRUE
  /\ IF op[t] = "update"
       THEN Goto(t, "stage") /\ UNCHANGED goal
       ELSE Publish(t, "refreshing", "state")
  /\ UNCHANGED <<account, life, op, seen, rotated, external>>

(* UpdateAccountCookies refuses; the others join the running recovery. *)
Busy(t) ==
  /\ pc[t] = "begin"
  /\ refreshing
  /\ IF op[t] = "update"
       THEN Finish(t)
       ELSE Goto(t, "wait") /\ UNCHANGED <<op, locals>>
  /\ UNCHANGED <<account, refreshing, life>>

(* Mutant of WaitReturns: the loop looks at the account's health only. *)
WaitForHealth(t) ==
  /\ pc[t] = "wait"
  /\ healthy
  /\ Finish(t)
  /\ UNCHANGED <<account, refreshing, life>>

(* waitForClientRefresh's poll loop: an account that became healthy, or a  *)
(* recovery that is over whatever came of it.                              *)
WaitReturns(t) ==
  /\ pc[t] = "wait"
  /\ healthy \/ ~refreshing
  /\ Finish(t)
  /\ UNCHANGED <<account, refreshing, life>>

(* ctx.Done.  ClientPool.Init waits with a context that has no deadline;   *)
(* so do ListModels and StartChat, which is why no fairness is assumed of  *)
(* this step.                                                              *)
WaitTimeout(t) ==
  /\ pc[t] = "wait"
  /\ op[t] # "init"
  /\ Finish(t)
  /\ UNCHANGED <<account, refreshing, life>>

(* Mutant of End: the deferred endAccountRefresh is missing. *)
EndKeepsGuard(t) ==
  /\ pc[t] = "end"
  /\ Finish(t)
  /\ UNCHANGED <<account, refreshing, life>>

End(t) ==
  /\ pc[t] = "end"
  /\ refreshing' = IF op[t] \in Guarded THEN FALSE ELSE refreshing
  /\ Finish(t)
  /\ UNCHANGED <<account, life>>

-----------------------------------------------------------------------------
(* setAccountState: healthState, then healthy. *)

WriteHealthy(t) ==
  healthy' = CASE goal[t] = "healthy" -> TRUE
               [] goal[t] \in Terminal -> FALSE
               [] OTHER -> healthy

PreHealth(t) ==
  /\ pc[t] = "pre"
  /\ WriteHealthy(t)
  /\ Goto(t, "state")
  /\ UNCHANGED <<healthState, session, token, refreshing, life, op, locals>>

(* What follows once Refreshing is published. *)
AfterRefreshing(o) ==
  CASE o = "external" -> "worker"
    [] o = "refresh" -> "check"
    [] OTHER -> "fetch"

SetState(t) ==
  /\ pc[t] = "state"
  /\ healthState' = goal[t]
  /\ Goto(t, IF goal[t] = "refreshing" THEN AfterRefreshing(op[t]) ELSE "health")
  /\ UNCHANGED <<healthy, session, token, refreshing, life, op, locals>>

(* A successful Init starts the auto-refresh loop; markClientError goes on *)
(* to refreshClientAsync.                                                  *)
SetHealth(t) ==
  /\ pc[t] = "health"
  /\ WriteHealthy(t)
  /\ Goto(t, IF op[t] = "request" THEN "async" ELSE "end")
  /\ looping' = (looping \/ (op[t] = "init" /\ goal[t] = "healthy"))
  /\ UNCHANGED <<healthState, session, token, refreshing, started, removed, op, locals>>

-----------------------------------------------------------------------------
(* StageCookiesForValidation. *)

(* An omitted __Secure-1PSIDTS for a new __Secure-1PSID, or a cache file   *)
(* that cannot be written.                                                 *)
StageRejected(t) ==
  /\ pc[t] = "stage"
  /\ Goto(t, "end")
  /\ UNCHANGED <<account, refreshing, life, op, locals>>

StagePair(t) ==
  /\ pc[t] = "stage"
  /\ session' \in Sessions
  /\ Goto(t, "clear")
  /\ UNCHANGED <<healthState, healthy, token, refreshing, life, op, locals>>

(* Mutants of StageClear: one of the two resets is missing. *)
StageKeepsToken(t) ==
  /\ pc[t] = "clear"
  /\ healthy' = FALSE
  /\ Goto(t, "mark")
  /\ UNCHANGED <<healthState, session, token, refreshing, life, op, locals>>

StageKeepsHealthy(t) ==
  /\ pc[t] = "clear"
  /\ token' = NoSession
  /\ Goto(t, "mark")
  /\ UNCHANGED <<healthState, healthy, session, refreshing, life, op, locals>>

StageClear(t) ==
  /\ pc[t] = "clear"
  /\ token' = NoSession
  /\ healthy' = FALSE
  /\ Goto(t, "mark")
  /\ UNCHANGED <<healthState, session, refreshing, life, op, locals>>

StageMark(t) ==
  /\ pc[t] = "mark"
  /\ healthState' = "refreshing"
  /\ Goto(t, "fetch")
  /\ UNCHANGED <<healthy, session, token, refreshing, life, op, locals>>

-----------------------------------------------------------------------------
(* refreshClientSessionInPlace: fetch the token; failing that rotate the   *)
(* cookies and fetch again.  An auto-refresh tick rotates first.           *)

FailureStates(o) ==
  CASE o \in {"update", "refresh", "test"} -> Terminal
    [] o = "init" -> {"needs_manual_login"}
    [] OTHER -> {"expired"}

Fail(t) ==
  \E g \in FailureStates(op[t]) :
    Publish(t, g, IF op[t] = "auto" THEN "pre" ELSE "state")

Succeed(t) ==
  CASE op[t] = "refresh" -> Goto(t, "reprobe") /\ UNCHANGED goal
    [] op[t] = "recover" ->
         Publish(t, IF external[t] THEN "needs_manual_login" ELSE "healthy", "pre")
    [] op[t] = "auto" /\ ~rotated[t] -> Publish(t, "healthy", "pre")
    [] OTHER -> Publish(t, "healthy", "state")

FetchStart(t) ==
  /\ pc[t] = "fetch"
  /\ seen' = [seen EXCEPT ![t] = session]
  /\ Goto(t, "fetching")
  /\ UNCHANGED <<account, refreshing, life, op, goal, rotated, external>>

(* refreshSessionTokenContext itself makes the account healthy. *)
FetchOk(t) ==
  /\ pc[t] = "fetching"
  /\ token' = seen[t]
  /\ healthy' = TRUE
  /\ seen' = [seen EXCEPT ![t] = NoSession]
  /\ Succeed(t)
  /\ UNCHANGED <<healthState, session, refreshing, life, op, rotated, external>>

FetchFail(t) ==
  /\ pc[t] = "fetching"
  /\ IF rotated[t] \/ op[t] = "auto"
       THEN Fail(t)
       ELSE Goto(t, "rotate") /\ UNCHANGED goal
  /\ seen' = [seen EXCEPT ![t] = NoSession]
  /\ UNCHANGED <<account, refreshing, life, op, rotated, external>>

RotateOk(t) ==
  /\ pc[t] = "rotate"
  /\ rotated' = [rotated EXCEPT ![t] = TRUE]
  /\ Goto(t, "fetch")
  /\ UNCHANGED <<account, refreshing, life, op, goal, seen, external>>

(* The loop falls back to a fetch unless the rotation met a 401 or 403. *)
RotateFail(t) ==
  /\ pc[t] = "rotate"
  /\ \/ op[t] = "auto" /\ Publish(t, "needs_manual_login", "pre")
     \/ op[t] = "auto" /\ Goto(t, "fetch") /\ UNCHANGED goal
     \/ op[t] # "auto" /\ Fail(t)
  /\ UNCHANGED <<account, refreshing, life, op, seen, rotated, external>>

-----------------------------------------------------------------------------
(* RefreshAccount and TestAccount: the generation probe. *)

(* sessionInitialized: without a token a test returns the saved failure    *)
(* and a refresh goes straight to recovery.                                *)
Check(t) ==
  /\ pc[t] = "check"
  /\ Goto(t, CASE token # NoSession -> "probe"
               [] op[t] = "refresh" -> "fetch"
               [] OTHER -> "end")
  /\ UNCHANGED <<account, refreshing, life, op, locals>>

Reprobe(t) ==
  /\ pc[t] = "reprobe"
  /\ IF token = NoSession
       THEN Publish(t, "expired", "state")
       ELSE Goto(t, "probing") /\ UNCHANGED goal
  /\ UNCHANGED <<account, refreshing, life, op, seen, rotated, external>>

(* markValidated. *)
ProbeOk(t) ==
  /\ pc[t] \in {"probe", "probing"}
  /\ Publish(t, "healthy", "state")
  /\ UNCHANGED <<account, refreshing, life, op, seen, rotated, external>>

(* Mutant of FirstProbeFails: the error is returned and the state is left. *)
FirstProbeReturns(t) ==
  /\ pc[t] = "probe"
  /\ op[t] = "refresh"
  /\ Goto(t, "fetch") \/ Goto(t, "end")
  /\ UNCHANGED <<account, refreshing, life, op, locals>>

(* RefreshAccount's first probe: an auth error leads to recovery, any      *)
(* other error ends the operation.                                         *)
FirstProbeFails(t) ==
  /\ pc[t] = "probe"
  /\ op[t] = "refresh"
  /\ \/ Goto(t, "fetch") /\ UNCHANGED goal
     \/ Publish(t, "expired", "state")
  /\ UNCHANGED <<account, refreshing, life, op, seen, rotated, external>>

ProbeFails(t) ==
  /\ pc[t] = "probing" \/ (pc[t] = "probe" /\ op[t] = "test")
  /\ Fail(t)
  /\ UNCHANGED <<account, refreshing, life, op, seen, rotated, external>>

-----------------------------------------------------------------------------
(* A data-plane request, markClientError and refreshClientAsync. *)

CallReturns(t) ==
  /\ pc[t] = "call"
  /\ Finish(t)
  /\ UNCHANGED <<account, refreshing, life>>

CallAuthError(t) ==
  /\ pc[t] = "call"
  /\ Publish(t, "expired", "pre")
  /\ UNCHANGED <<account, refreshing, life, op, seen, rotated, external>>

(* clientRequiresExternalCookieRefresh reads the state before the guard. *)
AsyncDecide(t) ==
  /\ pc[t] = "async"
  /\ external' = [external EXCEPT ![t] = healthState \in Terminal]
  /\ Goto(t, "spawn")
  /\ UNCHANGED <<account, refreshing, life, op, goal, seen, rotated>>

(* Mutant of Spawn: the guard is set without looking at it. *)
SpawnUnchecked(t) ==
  /\ pc[t] = "spawn"
  /\ refreshing' = TRUE
  /\ op' = [op EXCEPT ![t] = "recover"]
  /\ Publish(t, "refreshing", "state")
  /\ UNCHANGED <<account, life, seen, rotated, external>>

(* The request has returned; its task goes on as the background goroutine. *)
Spawn(t) ==
  /\ pc[t] = "spawn"
  /\ ~refreshing
  /\ refreshing' = TRUE
  /\ op' = [op EXCEPT ![t] = "recover"]
  /\ Publish(t, "refreshing", "state")
  /\ UNCHANGED <<account, life, seen, rotated, external>>

SpawnBusy(t) ==
  /\ pc[t] = "spawn"
  /\ refreshing
  /\ Finish(t)
  /\ UNCHANGED <<account, refreshing, life>>

-----------------------------------------------------------------------------
(* refreshClientExternal: run the cookie worker while holding the guard.   *)

(* The worker asks for the account's state and leaves an account that is   *)
(* healthy or refreshing alone.  Otherwise it posts cookies, to an         *)
(* UpdateAccountCookies that refuses them while the guard is held.  In     *)
(* both cases, and when the browser fails it, it exits with status 0.      *)
WorkerExits(t) ==
  /\ pc[t] = "worker"
  /\ Goto(t, "settle")
  /\ UNCHANGED <<account, refreshing, life, op, locals>>

(* The worker cannot be run, or is killed at its timeout. *)
WorkerFails(t) ==
  /\ pc[t] = "worker"
  /\ Publish(t, "expired", "state")
  /\ UNCHANGED <<account, refreshing, life, op, seen, rotated, external>>

Settle(t) ==
  /\ pc[t] = "settle"
  /\ IF healthy
       THEN Publish(t, "healthy", "state")
       ELSE Goto(t, "end") /\ UNCHANGED goal
  /\ UNCHANGED <<account, refreshing, life, op, seen, rotated, external>>

-----------------------------------------------------------------------------
Begin(t) ==
  \/ StartInit(t)
  \/ \E o \in {"update", "refresh"} : StartAdmin(t, o)
  \/ StartRequest(t)
  \/ StartExternal(t)
  \/ StartTest(t)
  \/ StartAuto(t)
  \/ StartRemove(t)

(* What a task does once it has begun, its context's deadline aside. *)
Progress(t) ==
  \/ Acquire(t) \/ Busy(t) \/ WaitReturns(t) \/ End(t)
  \/ PreHealth(t) \/ SetState(t) \/ SetHealth(t)
  \/ StageRejected(t) \/ StagePair(t) \/ StageClear(t) \/ StageMark(t)
  \/ FetchStart(t) \/ FetchOk(t) \/ FetchFail(t) \/ RotateOk(t) \/ RotateFail(t)
  \/ Check(t) \/ Reprobe(t) \/ ProbeOk(t) \/ FirstProbeFails(t) \/ ProbeFails(t)
  \/ CallReturns(t) \/ CallAuthError(t) \/ AsyncDecide(t) \/ Spawn(t) \/ SpawnBusy(t)
  \/ WorkerExits(t) \/ WorkerFails(t) \/ Settle(t)

Step(t) == Progress(t) \/ WaitTimeout(t)

Next == \E t \in Tasks : Begin(t) \/ Step(t)

Spec == Init /\ [][Next]_vars

(***************************************************************************)
(* A goroutine that has begun an operation keeps running, and every        *)
(* network call in it has a timeout.  Nobody is obliged to begin one, and  *)
(* a caller's context need not end.                                        *)
(***************************************************************************)
FairSpec == Spec /\ \A t \in Tasks : WF_vars(Progress(t))

-----------------------------------------------------------------------------
TypeOK ==
  /\ healthState \in States
  /\ healthy \in BOOLEAN
  /\ session \in Sessions
  /\ token \in Sessions \cup {NoSession}
  /\ refreshing \in BOOLEAN
  /\ started \in BOOLEAN
  /\ looping \in BOOLEAN
  /\ removed \in BOOLEAN
  /\ op \in [Tasks -> AllOperations \cup {"none", "recover"}]
  /\ pc \in [Tasks -> Labels]
  /\ goal \in [Tasks -> States]
  /\ seen \in [Tasks -> Sessions \cup {NoSession}]
  /\ rotated \in [Tasks -> BOOLEAN]
  /\ external \in [Tasks -> BOOLEAN]

(* The guard is set exactly while one goroutine recovers the account: two  *)
(* recoveries never overlap, and no path leaves the guard set behind it    *)
(* (beginAccountRefresh/endAccountRefresh and their inlined copies).       *)
SingleFlight ==
  /\ refreshing <=> \E t \in Tasks : Holds(t)
  /\ \A t, u \in Tasks : Holds(t) /\ Holds(u) => t = u

(* The staged pair of t is stored and not yet accepted by Google. *)
Pending(t) ==
  /\ op[t] = "update"
  /\ \/ pc[t] \in {"mark", "fetch", "fetching", "rotate"}
     \/ pc[t] \in {"state", "health"} /\ goal[t] \in Terminal

(* "Clearing it prevents a staged pair from appearing healthy while        *)
(* background validation is pending" (StageCookiesForValidation).  The     *)
(* code keeps this only where every operation takes the guard.             *)
StagedPairNotHealthy == \A t \in Tasks : Pending(t) => ~healthy

(* The token in use was read with another pair than the one in use. *)
TokenApart == token \notin {NoSession, session}

(* StageCookiesForValidation has stored a pair and not yet cleared the     *)
(* token.                                                                  *)
Storing == \E t \in Tasks : pc[t] = "clear"

(* The token belongs to the pair, outside StageCookiesForValidation.  The  *)
(* code keeps this, too, only where every operation takes the guard.       *)
TokenBelongsToPair == TokenApart => Storing

(* The operations that publish health or a token without the guard: a tick *)
(* of the auto-refresh loop, TestAccount and the Init AddAccount starts.   *)
Unguarded == {"auto", "test"} \cup ({"init"} \ Guarded)

(* This step is one of an operation in ops. *)
MoveOf(ops) == \E t \in Tasks : op[t] \in ops /\ pc'[t] # pc[t]

(* What the guard buys a staged pair: it starts out unhealthy, and until   *)
(* its own validation is over nothing that takes the guard - another       *)
(* update, a refresh, a recovery, the worker's - makes the account healthy *)
(* (StageCookiesForValidation's promise, quoted above).                    *)
StagedStaysDown ==
  [][\A t \in Tasks :
       Pending(t)' /\ healthy' => (Pending(t) /\ healthy) \/ MoveOf(Unguarded)]_vars

(* Token and pair part only where a pair is being stored, and are together *)
(* again when StageCookiesForValidation is through: a token read with the  *)
(* old pair is published under the new one by no operation that takes the  *)
(* guard (refreshSessionTokenContext reads the pair before the call and    *)
(* writes the token after it).                                             *)
TokenKeepsPair ==
  [][TokenApart' =>
       Storing' \/ (TokenApart /\ ~Storing) \/ MoveOf(Unguarded \ {"test"})]_vars

Quiescent == \A t \in Tasks : pc[t] = "idle"

(* "refreshing" means a recovery is at work (technical-details.md): once   *)
(* every operation is over the account is in some other state.  Not so     *)
(* after the external worker (refreshClientExternal).                      *)
NotStuckRefreshing == Quiescent => healthState # "refreshing"

(* A recovery that published "refreshing", or staged a pair, has published *)
(* what came of it before it gives the guard back, on every path but the   *)
(* external worker's.  Only the Init AddAccount starts may have written    *)
(* "refreshing" in between.                                                *)
RecoveryPublishes ==
  \A t \in Tasks :
    Holds(t) /\ pc[t] = "end" /\ op[t] # "external" /\ goal[t] # "uninitialized" =>
      \/ healthState # "refreshing"
      \/ \E u \in Tasks : op[u] = "init" /\ op[u] \notin Guarded

(* setAccountState "keeps the public health/state fields consistent": with *)
(* no operation in flight an expired account is not offered to the router. *)
TerminalNeverHealthy == Quiescent /\ healthState \in Terminal => ~healthy

(* Every recovery ends and gives the guard back. *)
GuardReleased == refreshing ~> ~refreshing

(* A caller that joined a recovery gets an answer even if its context has *)
(* no deadline, unless the guard is taken again and again: each time the   *)
(* loop looks, one more recovery may have begun.                           *)
WaitersReturn ==
  \A t \in Tasks :
    \/ []<>(pc[t] # "wait")
    \/ []<><<\E u \in Tasks : Acquire(u) \/ Spawn(u)>>_vars
=============================================================================

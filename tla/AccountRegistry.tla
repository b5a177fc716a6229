-------------------------- MODULE AccountRegistry --------------------------
(***************************************************************************)
(* Which accounts exist: the pool's slice and index of clients, and the    *)
(* cookie cache file accounts.json that brings console accounts back after *)
(* a restart.  The console adds and removes accounts; a recovery, rotation *)
(* or update that is in flight saves the cookies of the client it runs on. *)
(*                                                                         *)
(* A client is numbered, and its number stands for its cookies too.  An    *)
(* entry of the file is the number of the client whose cookies it holds.   *)
(* The file is read, changed and written back under cookieCacheFileMu; a   *)
(* write is a rename, so a crash finds the old file or the new one.  It    *)
(* may fail, which is only logged.                                         *)
(***************************************************************************)
EXTENDS Naturals, Sequences, SequencesExt, FiniteSetsExt

CONSTANTS
  Ids,         \* account ids
  Declared,    \* those of the configuration
  Removable,   \* those the console removes
  Tasks,       \* console handlers and background goroutines
  Adders,      \* tasks that may serve POST /admin/accounts
  Operations,  \* what happens in this deployment
  MaxClients,  \* bound of the model: clients ever created
  NoTask

ASSUME DeclaredAssumption ==
  Declared \subseteq Ids /\ Removable \subseteq Ids /\ IsFiniteSet(Ids) /\ Ids # {}
ASSUME AddersAssumption == Adders \subseteq Tasks /\ NoTask \notin Tasks
ASSUME OperationsAssumption == Operations \subseteq {"add", "remove", "save", "restart", "fault"}
ASSUME MaxAssumption == MaxClients \in Nat /\ MaxClients >= Cardinality(Declared)

VARIABLES
  owner,     \* the account id of every client created
  clients,   \* ClientPool.clients, whose order does not matter here
  byId,      \* ClientPool.clientsByID, 0: nil
  closed,    \* clients that were closed or died with the process
  file,      \* accounts.json: the client whose cookies are saved, 0: no entry
  lock,      \* cookieCacheFileMu
  op, pc,    \* operation and next step of each task
  id,        \* the account it is about
  self,      \* the client it is about
  copy,      \* what it has read of the file
  inDoubt    \* history: accounts added beside a failed write or a late removal

pool == <<owner, clients, byId, closed>>
disk == <<file, lock, copy>>
vars == <<pool, disk, op, pc, id, self, inDoubt>>

Clients == 1..MaxClients

First == SetToSeq(Declared)

(* What id is for a task that does nothing. *)
AnyId == CHOOSE x \in Ids : TRUE

Init ==
  /\ owner = First
  /\ clients = 1..Len(First)
  /\ byId = [x \in Ids |-> IF x \in Declared THEN CHOOSE i \in 1..Len(First) : First[i] = x ELSE 0]
  /\ closed = {}
  /\ file = [x \in Ids |-> 0]
  /\ lock = NoTask
  /\ copy = [t \in Tasks |-> [x \in Ids |-> 0]]
  /\ op = [t \in Tasks |-> "none"]
  /\ pc = [t \in Tasks |-> "idle"]
  /\ id = [t \in Tasks |-> AnyId]
  /\ self = [t \in Tasks |-> 0]
  /\ inDoubt = {}

-----------------------------------------------------------------------------
Goto(t, label) == pc' = [pc EXCEPT ![t] = label]

Start(t, o, x, c, label) ==
  /\ o \in Operations
  /\ pc[t] = "idle"
  /\ op' = [op EXCEPT ![t] = o]
  /\ id' = [id EXCEPT ![t] = x]
  /\ self' = [self EXCEPT ![t] = c]
  /\ Goto(t, label)
  /\ UNCHANGED <<pool, disk, inDoubt>>

Finish(t) ==
  /\ op' = [op EXCEPT ![t] = "none"]
  /\ id' = [id EXCEPT ![t] = AnyId]
  /\ self' = [self EXCEPT ![t] = 0]
  /\ Goto(t, "idle")

-----------------------------------------------------------------------------
(* AddAccount: two critical sections, then the file. *)

StartAdd(t, x) == t \in Adders /\ Start(t, "add", x, 0, "check")

AddExists(t) ==
  /\ pc[t] = "check"
  /\ byId[id[t]] # 0
  /\ Finish(t)
  /\ UNCHANGED <<pool, disk, inDoubt>>

AddCheck(t) ==
  /\ pc[t] = "check"
  /\ byId[id[t]] = 0
  /\ Goto(t, "append")
  /\ UNCHANGED <<pool, disk, op, id, self, inDoubt>>

(* The file entry of x is still to be removed by a RemoveAccount that has  *)
(* taken x out of the pool.                                                *)
RemovalPending(x) ==
  \E t \in Tasks : op[t] = "remove" /\ id[t] = x /\ pc[t] \in {"lock", "write"}

AddAppend(t) ==
  /\ pc[t] = "append"
  /\ Len(owner) < MaxClients
  /\ owner' = Append(owner, id[t])
  /\ clients' = clients \cup {Len(owner')}
  /\ byId' = [byId EXCEPT ![id[t]] = Len(owner')]
  /\ self' = [self EXCEPT ![t] = Len(owner')]
  /\ inDoubt' = IF RemovalPending(id[t]) THEN inDoubt \cup {id[t]} ELSE inDoubt
  /\ Goto(t, "lock")
  /\ UNCHANGED <<closed, disk, op, id>>

-----------------------------------------------------------------------------
(* RemoveAccount: one critical section, the file, Client.Close. *)

StartRemove(t, x) == x \in Removable /\ Start(t, "remove", x, 0, "unlink")

RemoveUnknown(t) ==
  /\ pc[t] = "unlink"
  /\ byId[id[t]] = 0
  /\ Finish(t)
  /\ UNCHANGED <<pool, disk, inDoubt>>

(* Mutant of RemoveUnlink: the client that is looked up leaves the slice,  *)
(* another one of the same id stays.                                       *)
RemoveOne(t) ==
  /\ pc[t] = "unlink"
  /\ byId[id[t]] # 0
  /\ self' = [self EXCEPT ![t] = byId[id[t]]]
  /\ byId' = [byId EXCEPT ![id[t]] = 0]
  /\ clients' = clients \ {byId[id[t]]}
  /\ Goto(t, "lock")
  /\ UNCHANGED <<owner, closed, disk, op, id, inDoubt>>

RemoveUnlink(t) ==
  /\ pc[t] = "unlink"
  /\ byId[id[t]] # 0
  /\ self' = [self EXCEPT ![t] = byId[id[t]]]
  /\ byId' = [byId EXCEPT ![id[t]] = 0]
  /\ clients' = {c \in clients : owner[c] # id[t]}
  /\ Goto(t, "lock")
  /\ UNCHANGED <<owner, closed, disk, op, id, inDoubt>>

RemoveClose(t) ==
  /\ pc[t] = "close"
  /\ closed' = closed \cup {self[t]}
  /\ Finish(t)
  /\ UNCHANGED <<owner, clients, byId, disk, inDoubt>>

-----------------------------------------------------------------------------
(* Init, an auto-refresh tick, RotateCookies, StageCookiesForValidation:   *)
(* a network call or none, then the cookies of the client are saved.       *)

StartSave(t, c) ==
  /\ c \in 1..Len(owner)
  /\ c \notin closed
  /\ Start(t, "save", owner[c], c, "network")

NetworkFails(t) ==
  /\ pc[t] = "network"
  /\ Finish(t)
  /\ UNCHANGED <<pool, disk, inDoubt>>

NetworkOk(t) ==
  /\ pc[t] = "network"
  /\ Goto(t, "lock")
  /\ UNCHANGED <<pool, disk, op, id, self, inDoubt>>

-----------------------------------------------------------------------------
(* saveAccountCookieCache, removeAccountCookieCache. *)

(* Mutant of ReadFile: cookieCacheFileMu is not taken. *)
ReadUnlocked(t) ==
  /\ pc[t] = "lock"
  /\ lock' = t
  /\ copy' = [copy EXCEPT ![t] = file]
  /\ Goto(t, "write")
  /\ UNCHANGED <<pool, file, op, id, self, inDoubt>>

ReadFile(t) ==
  /\ pc[t] = "lock"
  /\ lock = NoTask
  /\ lock' = t
  /\ copy' = [copy EXCEPT ![t] = file]
  /\ Goto(t, "write")
  /\ UNCHANGED <<pool, file, op, id, self, inDoubt>>

(* The mutex is given back; a removal goes on to close the client, whether *)
(* the file was written or not.                                            *)
Unlock(t) ==
  /\ lock' = NoTask
  /\ copy' = [copy EXCEPT ![t] = [x \in Ids |-> 0]]
  /\ IF op[t] = "remove" THEN Goto(t, "close") /\ UNCHANGED <<op, id, self>> ELSE Finish(t)
  /\ UNCHANGED pool

(* A client's cookies that are in the file are no longer in doubt, unless  *)
(* a late removal is still to come.                                        *)
WriteFile(t) ==
  /\ pc[t] = "write"
  /\ file' = [copy[t] EXCEPT ![id[t]] = IF op[t] = "remove" THEN 0 ELSE self[t]]
  /\ inDoubt' = IF op[t] = "remove" \/ RemovalPending(id[t]) THEN inDoubt ELSE inDoubt \ {id[t]}
  /\ Unlock(t)

(* Mutant of WriteFails: the file is written in place, and a failing write *)
(* leaves it without its entries.                                          *)
WriteFailsInPlace(t) ==
  /\ "fault" \in Operations
  /\ pc[t] = "write"
  /\ file' = [x \in Ids |-> 0]
  /\ inDoubt' = IF op[t] = "add" THEN inDoubt \cup {id[t]} ELSE inDoubt
  /\ Unlock(t)

(* The old file cannot be read, or the new one not be encoded, written or  *)
(* renamed: the error is logged.                                           *)
WriteFails(t) ==
  /\ "fault" \in Operations
  /\ pc[t] = "write"
  /\ inDoubt' = IF op[t] = "add" THEN inDoubt \cup {id[t]} ELSE inDoubt
  /\ Unlock(t)
  /\ UNCHANGED file

-----------------------------------------------------------------------------
(* The process dies at any moment and starts again: NewClientPool makes a  *)
(* client of every declared account and of every entry of the file, whose  *)
(* cookies win over the declared ones.                                     *)
Reloaded(x) ==
  IF file[x] # 0 THEN file[x] ELSE CHOOSE i \in 1..Len(First) : First[i] = x

Restart ==
  /\ "restart" \in Operations
  /\ LET back == {x \in Ids : x \in Declared \/ file[x] # 0}
     IN  /\ clients' = {Reloaded(x) : x \in back}
         /\ byId' = [x \in Ids |-> IF x \in back THEN Reloaded(x) ELSE 0]
  /\ closed' = (1..Len(owner)) \ clients'
  /\ lock' = NoTask
  /\ copy' = [t \in Tasks |-> [x \in Ids |-> 0]]
  /\ op' = [t \in Tasks |-> "none"]
  /\ pc' = [t \in Tasks |-> "idle"]
  /\ id' = [t \in Tasks |-> AnyId]
  /\ self' = [t \in Tasks |-> 0]
  /\ inDoubt' = {}
  /\ UNCHANGED <<owner, file>>

-----------------------------------------------------------------------------
Step(t) ==
  \/ AddExists(t) \/ AddCheck(t) \/ AddAppend(t)
  \/ RemoveUnknown(t) \/ RemoveUnlink(t) \/ RemoveClose(t)
  \/ NetworkFails(t) \/ NetworkOk(t)
  \/ ReadFile(t) \/ WriteFile(t) \/ WriteFails(t)

Next ==
  \/ \E t \in Tasks, x \in Ids : StartAdd(t, x)
  \/ \E t \in Tasks, x \in Ids : StartRemove(t, x)
  \/ \E t \in Tasks, c \in Clients : StartSave(t, c)
  \/ \E t \in Tasks : Step(t)
  \/ Restart

Spec == Init /\ [][Next]_vars

-----------------------------------------------------------------------------
TypeOK ==
  /\ owner \in Seq(Ids) /\ Len(owner) <= MaxClients
  /\ clients \subseteq Clients
  /\ byId \in [Ids -> 0..MaxClients]
  /\ closed \subseteq Clients
  /\ file \in [Ids -> 0..MaxClients]
  /\ lock \in Tasks \cup {NoTask}
  /\ copy \in [Tasks -> [Ids -> 0..MaxClients]]
  /\ op \in [Tasks -> {"none", "add", "remove", "save"}]
  /\ pc \in [Tasks -> {"idle", "check", "append", "unlink", "close", "network", "lock", "write"}]
  /\ id \in [Tasks -> Ids]
  /\ self \in [Tasks -> 0..MaxClients]
  /\ inDoubt \subseteq Ids

(* "account %q already exists" (AddAccount): the slice that is searched    *)
(* and served from, and the index that is looked up, hold the same         *)
(* clients, one of an id.  Two additions of one id break it.               *)
IndexAgrees ==
  /\ \A c \in clients : byId[owner[c]] = c
  /\ \A x \in Ids : byId[x] # 0 => byId[x] \in clients

(* Whatever additions, removals and restarts are under way, every client   *)
(* that serves is of an account the console can name and remove, and the   *)
(* client the console names is one that serves: two additions of one id    *)
(* may leave two clients, and a removal then takes both (RemoveAccount).   *)
Reachable ==
  /\ \A c \in clients : byId[owner[c]] # 0
  /\ \A x \in Ids : byId[x] # 0 => byId[x] \in clients

(* No save or removal of one account loses or revives the entry of another *)
(* (cookieCacheFileMu).                                                    *)
OnlyOwnEntry ==
  [][\A x \in Ids : file'[x] # file[x] => \E t \in Tasks : pc[t] = "write" /\ id[t] = x /\ pc'[t] # "write"]_vars

Quiescent == \A t \in Tasks : pc[t] = "idle"

(* "Persist to cookie cache file so the account survives restarts"         *)
(* (AddAccount): once everything has returned, the file has an entry of    *)
(* every console account in the pool, whatever is added, removed and saved *)
(* beside it and wherever the process died.  The code breaks it in two     *)
(* ways only: the addition's own write failed, or it overtook a removal of *)
(* the same id, and no later save has made up for it.                      *)
AddedSurvives ==
  Quiescent => \A x \in Ids \ Declared : byId[x] # 0 => file[x] # 0 \/ x \in inDoubt

(* The same without the exceptions, and with the cookies of the client     *)
(* that serves.                                                            *)
AddedStays ==
  Quiescent => \A x \in Ids \ Declared : byId[x] # 0 => file[x] = byId[x]

(* "Remove from cookie cache file so it doesn't reappear on restart"       *)
(* (RemoveAccount): once everything has returned, the file has no account  *)
(* that is not in the pool.                                                *)
RemovedStaysAway ==
  Quiescent => \A x \in Ids : byId[x] = 0 => file[x] = 0
=============================================================================

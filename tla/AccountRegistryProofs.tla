----------------------- MODULE AccountRegistryProofs -----------------------
(***************************************************************************)
(* Proofs about AccountRegistry, for any accounts, tasks and bounds, any   *)
(* number of handlers that add and remove at once, failing writes and      *)
(* restarts.                                                               *)
(***************************************************************************)
EXTENDS AccountRegistry, FiniteSetTheorems, TLAPS

(* Numbers of clients are numbers of clients of the right account. *)
Numbered ==
  /\ Len(First) <= Len(owner) /\ \A i \in 1..Len(First) : owner[i] = First[i]
  /\ clients \subseteq 1..Len(owner) /\ closed \subseteq 1..Len(owner)
  /\ \A x \in Ids : byId[x] # 0 => byId[x] \in 1..Len(owner) /\ owner[byId[x]] = x
  /\ \A x \in Ids : file[x] # 0 => file[x] \in 1..Len(owner) /\ owner[file[x]] = x
  /\ \A t \in Tasks : self[t] # 0 => self[t] \in 1..Len(owner) /\ owner[self[t]] = id[t]

(* Which operation is where. *)
OpOK ==
  \A t \in Tasks :
    \/ op[t] = "none" /\ pc[t] = "idle" /\ self[t] = 0
    \/ op[t] = "add" /\ t \in Adders /\ pc[t] \in {"check", "append"} /\ self[t] = 0
    \/ op[t] = "add" /\ t \in Adders /\ pc[t] \in {"lock", "write"} /\ self[t] # 0
    \/ op[t] = "remove" /\ id[t] \in Removable /\ pc[t] = "unlink"
    \/ op[t] = "remove" /\ id[t] \in Removable /\ pc[t] \in {"lock", "write", "close"} /\ self[t] # 0
    \/ op[t] = "save" /\ pc[t] \in {"network", "lock", "write"} /\ self[t] # 0

(* Whoever writes the file has the mutex and what the file holds now. *)
WriterOK == \A t \in Tasks : pc[t] = "write" => lock = t /\ copy[t] = file

Inv == TypeOK /\ Numbered /\ OpOK /\ WriterOK

-----------------------------------------------------------------------------
(* SetToSeq numbers the members of a finite set. *)
LEMMA Numbering ==
  ASSUME NEW S, IsFiniteSet(S)
  PROVE  /\ SetToSeq(S) \in [1..Cardinality(S) -> S]
         /\ \A i, j \in 1..Cardinality(S) : SetToSeq(S)[i] = SetToSeq(S)[j] => i = j
         /\ \A x \in S : \E i \in 1..Cardinality(S) : SetToSeq(S)[i] = x
         /\ Cardinality(S) \in Nat
<1> DEFINE n == Cardinality(S)
           f == SetToSeq(S)
<1>1. n \in Nat /\ ExistsBijection(1..n, S)
  BY FS_CardinalityType
<1>2. PICK g \in Bijection(1..n, S) : TRUE
  BY <1>1 DEF ExistsBijection
<1>3. g \in [1..n -> S] /\ IsInjective(g)
  BY <1>2 DEF Bijection, Injection, IsInjective
<1>4. f \in [1..n -> S] /\ IsInjective(f)
  BY <1>3 DEF SetToSeq
<1>5. \A i, j \in 1..n : f[i] = f[j] => i = j
  BY <1>4 DEF IsInjective
<1>6. f \in Surjection(1..n, S)
  <2>1. f \in Injection(1..n, S)
    BY <1>4 DEF Injection
  <2>2. IsFiniteSet(1..n) /\ Cardinality(1..n) = n
    BY <1>1, FS_Interval
  <2> QED
    BY <1>1, <2>1, <2>2, FS_Injection
<1> QED
  BY <1>1, <1>4, <1>5, <1>6 DEF Surjection

(* The declared accounts are numbered from 1, within the bound. *)
LEMMA FirstOK ==
  /\ First \in Seq(Ids) /\ Len(First) \in Nat /\ Len(First) <= MaxClients
  /\ \A i \in 1..Len(First) : First[i] \in Declared
  /\ \A i, j \in 1..Len(First) : First[i] = First[j] => i = j
  /\ \A x \in Declared : \E i \in 1..Len(First) : First[i] = x
<1>1. IsFiniteSet(Declared)
  BY DeclaredAssumption, FS_Subset
<1> DEFINE n == Cardinality(Declared)
<1>2. /\ n \in Nat /\ n <= MaxClients
      /\ First \in [1..n -> Declared]
      /\ \A i, j \in 1..n : First[i] = First[j] => i = j
      /\ \A x \in Declared : \E i \in 1..n : First[i] = x
  BY <1>1, Numbering, MaxAssumption DEF First
<1> HIDE DEF n
<1>3. First \in Seq(Ids) /\ Len(First) = n
  <2>1. First \in [1..n -> Ids]
    BY <1>2, DeclaredAssumption
  <2> QED
    BY <1>2, <2>1
<1> QED
  BY <1>2, <1>3

LEMMA InvInit == Init => Inv
<1> SUFFICES ASSUME Init PROVE Inv
  OBVIOUS
<1> USE FirstOK, DeclaredAssumption, MaxAssumption DEF Init
<1> DEFINE index(x) == CHOOSE i \in 1..Len(First) : First[i] = x
<1>1. \A x \in Declared : index(x) \in 1..Len(First) /\ First[index(x)] = x
  OBVIOUS
<1> HIDE DEF index
<1>2. \A x \in Ids : byId[x] = IF x \in Declared THEN index(x) ELSE 0
  BY DEF index
<1>3. \A x \in Ids : byId[x] \in 0..Len(First)
  BY <1>1, <1>2
<1>4. AnyId \in Ids
  BY DEF AnyId
<1>5. TypeOK
  <2>1. byId \in [Ids -> 0..MaxClients]
    BY <1>3
  <2>2. id \in [Tasks -> Ids]
    BY <1>4
  <2>3. clients \subseteq Clients
    BY DEF Clients
  <2> QED
    BY <2>1, <2>2, <2>3, AddersAssumption DEF TypeOK
<1>6. Numbered
  BY <1>1, <1>2, <1>3, 0 \notin 1..Len(First) DEF Numbered
<1>7. OpOK /\ WriterOK
  BY DEF OpOK, WriterOK
<1> QED
  BY <1>5, <1>6, <1>7 DEF Inv

(* What Restart makes of an account: a client of it. *)
LEMMA ReloadedOK ==
  ASSUME Inv, NEW x \in Ids, x \in Declared \/ file[x] # 0
  PROVE  Reloaded(x) \in 1..Len(owner) /\ owner[Reloaded(x)] = x
<1>1. CASE file[x] # 0
  BY <1>1 DEF Inv, Numbered, Reloaded
<1>2. CASE file[x] = 0
  <2> DEFINE i == CHOOSE i \in 1..Len(First) : First[i] = x
  <2>1. i \in 1..Len(First) /\ First[i] = x
    BY <1>2, FirstOK
  <2>2. Reloaded(x) = i
    BY <1>2 DEF Reloaded
  <2> HIDE DEF i
  <2>3. Len(owner) \in Nat
    BY DEF Inv, TypeOK
  <2> QED
    BY <2>1, <2>2, <2>3, FirstOK DEF Inv, Numbered
<1> QED
  BY <1>1, <1>2


(* A new operation of a task that did nothing. *)
LEMMA StartStep ==
  ASSUME Inv, NEW t \in Tasks, NEW o \in {"add", "remove", "save"}, NEW x \in Ids,
         NEW c \in Nat, NEW label, Start(t, o, x, c, label),
         \/ o = "add" /\ t \in Adders /\ label = "check" /\ c = 0
         \/ o = "remove" /\ x \in Removable /\ label = "unlink" /\ c = 0
         \/ o = "save" /\ label = "network" /\ c \in 1..Len(owner) /\ owner[c] = x
  PROVE  Inv'
<1> USE DEF Inv, Start, Goto, pool, disk
<1>1. Len(owner) \in Nat /\ Len(owner) <= MaxClients /\ MaxClients \in Nat
  BY MaxAssumption DEF TypeOK
<1>2. TypeOK'
  <2>1. self' \in [Tasks -> 0..MaxClients]
    BY <1>1 DEF TypeOK
  <2>2. pc' \in [Tasks -> {"idle", "check", "append", "unlink", "close", "network", "lock", "write"}]
    BY DEF TypeOK
  <2> QED
    BY <2>1, <2>2 DEF TypeOK
<1>3. Numbered'
  BY <1>1 DEF TypeOK, Numbered
<1>4. OpOK'
  <2>1. op'[t] = o /\ id'[t] = x /\ self'[t] = c /\ pc'[t] = label
    BY DEF TypeOK
  <2>2. \A u \in Tasks \ {t} :
          op'[u] = op[u] /\ id'[u] = id[u] /\ self'[u] = self[u] /\ pc'[u] = pc[u]
    BY DEF TypeOK
  <2>3. c \in 1..Len(owner) => c # 0
    BY <1>1
  <2> HIDE DEF Start
  <2> QED
    BY <2>1, <2>2, <2>3 DEF OpOK
<1>5. WriterOK'
  BY DEF TypeOK, WriterOK
<1> QED
  BY <1>2, <1>3, <1>4, <1>5

(* An operation that returns. *)
LEMMA FinishStep ==
  ASSUME Inv, NEW t \in Tasks, pc[t] # "write", Finish(t), disk' = disk,
         owner' = owner, byId' = byId, clients' = clients, inDoubt' = inDoubt,
         closed' = closed \/ (self[t] # 0 /\ closed' = closed \cup {self[t]})
  PROVE  Inv'
<1> USE DEF Inv, Finish, Goto, disk
<1>1. AnyId \in Ids
  BY DeclaredAssumption DEF AnyId
<1>2. Numbered'
  BY DEF TypeOK, Numbered
<1>3. TypeOK'
  <2>1. closed' \subseteq Clients
    BY <1>2, MaxAssumption DEF TypeOK, Numbered, Clients
  <2>2. /\ op' \in [Tasks -> {"none", "add", "remove", "save"}]
        /\ id' \in [Tasks -> Ids]
        /\ self' \in [Tasks -> 0..MaxClients]
    BY <1>1, MaxAssumption DEF TypeOK
  <2>3. pc' \in [Tasks -> {"idle", "check", "append", "unlink", "close", "network", "lock", "write"}]
    BY DEF TypeOK
  <2>4. /\ owner' \in Seq(Ids) /\ Len(owner') <= MaxClients
        /\ clients' \subseteq Clients'
        /\ byId' \in [Ids -> 0..MaxClients]
    BY DEF TypeOK, Clients
  <2>5. /\ file' \in [Ids -> 0..MaxClients]
        /\ lock' \in Tasks \cup {NoTask}
        /\ copy' \in [Tasks -> [Ids -> 0..MaxClients]]
        /\ inDoubt' \subseteq Ids
    BY DEF TypeOK
  <2>6. closed' \subseteq Clients'
    BY <2>1 DEF Clients
  <2> HIDE DEF Inv, Finish, Goto, disk
  <2> QED
    BY <2>2, <2>3, <2>4, <2>5, <2>6 DEF TypeOK
<1>4. OpOK'
  BY DEF TypeOK, OpOK
<1>5. WriterOK'
  BY DEF TypeOK, WriterOK
<1> QED
  BY <1>2, <1>3, <1>4, <1>5

(* The second critical section of AddAccount. *)
LEMMA AppendStep ==
  ASSUME Inv, NEW t \in Tasks, AddAppend(t)
  PROVE  Inv'
<1> USE DEF Inv, AddAppend, Goto, disk
<1>1. /\ Len(owner) \in Nat /\ Len(owner) < MaxClients /\ MaxClients \in Nat
      /\ id[t] \in Ids /\ owner \in Seq(Ids)
  BY MaxAssumption DEF TypeOK
<1> DEFINE n == Len(owner) + 1
<1>2. /\ owner' \in Seq(Ids) /\ Len(owner') = n /\ n \in 1..MaxClients
      /\ \A c \in 1..Len(owner) : owner'[c] = owner[c]
      /\ owner'[n] = id[t]
  BY <1>1
<1>3. /\ byId' = [byId EXCEPT ![id[t]] = n]
      /\ self' = [self EXCEPT ![t] = n]
      /\ clients' = clients \cup {n}
  BY <1>2
<1>a. self[t] \in 0..MaxClients /\ Len(owner) + 1 = n
  BY DEF TypeOK
<1> HIDE DEF n
<1>b. \A u \in Tasks : self'[u] = IF u = t THEN n ELSE self[u]
  BY <1>3 DEF TypeOK
<1>c. \A x \in Ids : byId'[x] = IF x = id[t] THEN n ELSE byId[x]
  BY <1>3 DEF TypeOK
<1>d. 1..Len(owner') = (1..Len(owner)) \cup {n}
  BY <1>1, <1>2, <1>a
<1>4. TypeOK'
  <2>1. owner' \in Seq(Ids) /\ Len(owner') <= MaxClients
    BY <1>2
  <2>2. clients' \subseteq Clients
    BY <1>2, <1>3 DEF TypeOK, Clients
  <2>3. byId' \in [Ids -> 0..MaxClients] /\ self' \in [Tasks -> 0..MaxClients]
    BY <1>1, <1>2, <1>3 DEF TypeOK
  <2> QED
    BY <2>1, <2>2, <2>3 DEF TypeOK
<1>5. Numbered'
  <2>1. /\ Len(First) <= Len(owner') /\ \A i \in 1..Len(First) : owner'[i] = First[i]
        /\ clients' \subseteq 1..Len(owner') /\ closed' \subseteq 1..Len(owner')
    BY <1>1, <1>2, <1>3, <1>d, FirstOK DEF Numbered
  <2>2. \A x \in Ids : byId'[x] # 0 => byId'[x] \in 1..Len(owner') /\ owner'[byId'[x]] = x
    BY <1>1, <1>2, <1>c, <1>d DEF Numbered
  <2>3. \A x \in Ids : file'[x] # 0 => file'[x] \in 1..Len(owner') /\ owner'[file'[x]] = x
    BY <1>1, <1>2, <1>d DEF Numbered
  <2>4. \A u \in Tasks : self'[u] # 0 => self'[u] \in 1..Len(owner') /\ owner'[self'[u]] = id'[u]
    BY <1>1, <1>2, <1>b, <1>d DEF Numbered
  <2> QED
    BY <2>1, <2>2, <2>3, <2>4 DEF Numbered
<1>6. OpOK'
  <2>1. n # 0
    BY <1>1, <1>2
  <2> QED
    BY <1>3, <2>1 DEF TypeOK, OpOK
<1>7. WriterOK'
  BY DEF TypeOK, WriterOK
<1> QED
  BY <1>4, <1>5, <1>6, <1>7

(* The critical section of RemoveAccount. *)
LEMMA UnlinkStep ==
  ASSUME Inv, NEW t \in Tasks, RemoveUnlink(t)
  PROVE  Inv'
<1> USE DEF Inv, RemoveUnlink, Goto, disk
<1>1. MaxClients \in Nat /\ id[t] \in Ids
  BY MaxAssumption DEF TypeOK
<1>2. TypeOK'
  BY <1>1 DEF TypeOK
<1>3. Numbered'
  BY <1>1 DEF TypeOK, Numbered
<1>4. OpOK'
  BY DEF TypeOK, OpOK
<1>5. WriterOK'
  BY DEF TypeOK, WriterOK
<1> QED
  BY <1>2, <1>3, <1>4, <1>5

(* A change to the file begins. *)
LEMMA ReadStep ==
  ASSUME Inv, NEW t \in Tasks, ReadFile(t)
  PROVE  Inv'
<1> USE DEF Inv, Goto, pool, ReadFile
<1>1. MaxClients \in Nat /\ id[t] \in Ids
  BY MaxAssumption DEF TypeOK
<1>2. TypeOK'
  BY <1>1 DEF TypeOK
<1>3. Numbered'
  BY DEF Numbered
<1>4. OpOK'
  BY DEF TypeOK, OpOK
<1>5. WriterOK'
  BY AddersAssumption DEF TypeOK, WriterOK
<1> QED
  BY <1>2, <1>3, <1>4, <1>5

(* Whoever is at the file is alone there. *)
LEMMA Alone ==
  ASSUME Inv, NEW t \in Tasks, pc[t] = "write"
  PROVE  lock = t /\ copy[t] = file /\ \A u \in Tasks : pc[u] = "write" => u = t
BY DEF Inv, WriterOK

(* It ends, whether the file was written or not. *)
LEMMA UnlockStep ==
  ASSUME Inv, NEW t \in Tasks, pc[t] = "write", Unlock(t), inDoubt' \subseteq Ids,
         file' \in [Ids -> 0..MaxClients],
         \A x \in Ids : file'[x] # 0 => file'[x] \in {file[x], self[t]} /\ (file'[x] # file[x] => x = id[t])
  PROVE  Inv'
<1> USE DEF Inv
<1>1. MaxClients \in Nat /\ id[t] \in Ids /\ AnyId \in Ids
  BY MaxAssumption, DeclaredAssumption DEF TypeOK, AnyId
<1>2. lock = t /\ \A u \in Tasks : pc[u] = "write" => u = t
  BY Alone
<1>3. /\ op' \in {op, [op EXCEPT ![t] = "none"]}
      /\ id' \in {id, [id EXCEPT ![t] = AnyId]}
      /\ pc' \in {[pc EXCEPT ![t] = "close"], [pc EXCEPT ![t] = "idle"]}
      /\ self' \in {self, [self EXCEPT ![t] = 0]}
      /\ id' = id \/ self' = [self EXCEPT ![t] = 0]
  BY DEF Unlock, Finish, Goto
<1>4. /\ owner' = owner /\ clients' = clients /\ byId' = byId /\ closed' = closed
      /\ lock' = NoTask /\ copy' = [copy EXCEPT ![t] = [x \in Ids |-> 0]]
  BY DEF Unlock, pool
<1>5. TypeOK'
  <2> HIDE DEF Inv
  <2>t. TypeOK
    BY DEF Inv
  <2>1. copy' \in [Tasks -> [Ids -> 0..MaxClients]] /\ lock' \in Tasks \cup {NoTask}
    BY <1>1, <1>4, <2>t DEF TypeOK
  <2>2. op' \in [Tasks -> {"none", "add", "remove", "save"}]
    <3>1. [op EXCEPT ![t] = "none"] \in [Tasks -> {"none", "add", "remove", "save"}]
      BY <2>t DEF TypeOK
    <3> QED
      BY <1>3, <2>t, <3>1 DEF TypeOK
  <2>3. id' \in [Tasks -> Ids]
    <3>1. [id EXCEPT ![t] = AnyId] \in [Tasks -> Ids]
      BY <1>1, <2>t DEF TypeOK
    <3> QED
      BY <1>3, <2>t, <3>1 DEF TypeOK
  <2>4. pc' \in [Tasks -> {"idle", "check", "append", "unlink", "close", "network", "lock", "write"}]
    BY <1>3, <2>t DEF TypeOK
  <2>5. self' \in [Tasks -> 0..MaxClients]
    <3>1. [self EXCEPT ![t] = 0] \in [Tasks -> 0..MaxClients]
      BY <1>1, <2>t DEF TypeOK
    <3> QED
      BY <1>3, <2>t, <3>1 DEF TypeOK
  <2> QED
    BY <1>4, <2>t, <2>1, <2>2, <2>3, <2>4, <2>5 DEF TypeOK, Clients
<1>6. Numbered'
  <2>1. \A x \in Ids : file'[x] # 0 => file'[x] \in 1..Len(owner) /\ owner[file'[x]] = x
    BY <1>1 DEF TypeOK, Numbered
  <2>2. \A u \in Tasks : self'[u] # 0 => self'[u] = self[u] /\ id'[u] = id[u]
    BY <1>1, <1>3 DEF TypeOK
  <2> QED
    BY <1>4, <2>1, <2>2 DEF Numbered
<1>7. OpOK'
  <2>1. CASE op[t] = "remove"
    BY <2>1 DEF TypeOK, OpOK, Unlock, Goto
  <2>2. CASE op[t] # "remove"
    <3>1. Finish(t)
      BY <2>2 DEF Unlock
    <3>2. op'[t] = "none" /\ pc'[t] = "idle" /\ self'[t] = 0
      BY <3>1 DEF Finish, Goto, TypeOK
    <3>3. \A u \in Tasks \ {t} :
            op'[u] = op[u] /\ pc'[u] = pc[u] /\ self'[u] = self[u] /\ id'[u] = id[u]
      BY <3>1 DEF Finish, Goto, TypeOK
    <3> QED
      BY <3>2, <3>3 DEF OpOK
  <2> QED
    BY <2>1, <2>2
<1>8. WriterOK'
  BY <1>2, <1>3 DEF TypeOK, WriterOK
<1> QED
  BY <1>5, <1>6, <1>7, <1>8

LEMMA WriteStep ==
  ASSUME Inv, NEW t \in Tasks, WriteFile(t) \/ WriteFails(t)
  PROVE  Inv'
<1>1. pc[t] = "write" /\ Unlock(t)
  BY DEF WriteFile, WriteFails
<1>2. copy[t] = file
  BY <1>1, Alone
<1>3. file \in [Ids -> 0..MaxClients] /\ self[t] \in 0..MaxClients /\ id[t] \in Ids /\ inDoubt \subseteq Ids
  BY DEF Inv, TypeOK
<1>4. MaxClients \in Nat
  BY MaxAssumption
<1>5. inDoubt' \subseteq Ids
  BY <1>3 DEF WriteFile, WriteFails
<1>6. /\ file' \in [Ids -> 0..MaxClients]
      /\ \A x \in Ids : file'[x] # 0 => file'[x] \in {file[x], self[t]} /\ (file'[x] # file[x] => x = id[t])
  BY <1>2, <1>3, <1>4 DEF WriteFile, WriteFails
<1> QED
  BY <1>1, <1>5, <1>6, UnlockStep

(* A restart builds the pool from the declared accounts and the file. *)
LEMMA RestartStep ==
  ASSUME Inv, Restart
  PROVE  Inv'
<1> USE DEF Inv, Restart
<1> DEFINE back == {x \in Ids : x \in Declared \/ file[x] # 0}
<1>1. MaxClients \in Nat /\ AnyId \in Ids /\ Len(owner) \in Nat /\ Len(owner) <= MaxClients
  BY MaxAssumption, DeclaredAssumption DEF TypeOK, AnyId
<1>2. \A x \in back : Reloaded(x) \in 1..Len(owner) /\ owner[Reloaded(x)] = x
  BY ReloadedOK
<1>3. TypeOK'
  <2>1. byId' \in [Ids -> 0..MaxClients]
    BY <1>1, <1>2
  <2>2. clients' \subseteq Clients /\ closed' \subseteq Clients
    BY <1>1, <1>2 DEF Clients
  <2>3. copy' \in [Tasks -> [Ids -> 0..MaxClients]]
    BY <1>1
  <2> QED
    BY <1>1, <2>1, <2>2, <2>3 DEF TypeOK
<1>4. Numbered'
  <2>1. clients' \subseteq 1..Len(owner) /\ closed' \subseteq 1..Len(owner)
    BY <1>2
  <2>2. \A x \in Ids : byId'[x] # 0 => byId'[x] \in 1..Len(owner) /\ owner[byId'[x]] = x
    BY <1>2
  <2>3. \A t \in Tasks : self'[t] = 0
    OBVIOUS
  <2>4. owner' = owner /\ file' = file
    OBVIOUS
  <2>5. Numbered
    OBVIOUS
  <2> HIDE DEF Inv, Restart
  <2> QED
    BY <2>1, <2>2, <2>3, <2>4, <2>5 DEF Numbered
<1>5. OpOK' /\ WriterOK'
  BY DEF OpOK, WriterOK
<1> QED
  BY <1>3, <1>4, <1>5

LEMMA InvStep == Inv /\ [Next]_vars => Inv'
<1> SUFFICES ASSUME Inv, [Next]_vars PROVE Inv'
  OBVIOUS
<1>1. ASSUME NEW t \in Tasks, NEW x \in Ids, StartAdd(t, x) \/ StartRemove(t, x) PROVE Inv'
  BY <1>1, StartStep DEF StartAdd, StartRemove
<1>2. ASSUME NEW t \in Tasks, NEW c \in Clients, StartSave(t, c) PROVE Inv'
  <2>1. c \in 1..Len(owner) /\ owner[c] \in Ids /\ c \in Nat
    BY <1>2 DEF StartSave, Inv, TypeOK, Clients
  <2> QED
    BY <1>2, <2>1, StartStep DEF StartSave
<1>3. ASSUME NEW t \in Tasks, AddExists(t) \/ RemoveUnknown(t) \/ NetworkFails(t) PROVE Inv'
  <2>1. /\ pc[t] # "write" /\ Finish(t) /\ disk' = disk
        /\ owner' = owner /\ byId' = byId /\ clients' = clients /\ closed' = closed
        /\ inDoubt' = inDoubt
    BY <1>3 DEF AddExists, RemoveUnknown, NetworkFails, pool, disk
  <2> QED
    BY <2>1, FinishStep
<1>4. ASSUME NEW t \in Tasks, RemoveClose(t) PROVE Inv'
  <2>1. self[t] # 0
    BY <1>4 DEF RemoveClose, Inv, OpOK
  <2>2. /\ pc[t] # "write" /\ Finish(t) /\ disk' = disk
        /\ owner' = owner /\ byId' = byId /\ clients' = clients /\ inDoubt' = inDoubt
        /\ closed' = closed \cup {self[t]}
    BY <1>4 DEF RemoveClose
  <2> QED
    BY <2>1, <2>2, FinishStep
<1>5. ASSUME NEW t \in Tasks, AddCheck(t) \/ NetworkOk(t) PROVE Inv'
  <2> USE <1>5 DEF AddCheck, NetworkOk, Inv, pool, disk, Goto
  <2>1. TypeOK'
    BY DEF TypeOK
  <2>2. Numbered'
    BY DEF Numbered
  <2>4. OpOK'
    BY DEF TypeOK, OpOK
  <2>3. WriterOK'
    BY DEF TypeOK, WriterOK
  <2> QED
    BY <2>1, <2>2, <2>3, <2>4
<1>6. CASE UNCHANGED vars
  BY <1>6 DEF vars, pool, disk, Inv, TypeOK, Numbered, OpOK, WriterOK
<1> QED
  BY <1>1, <1>2, <1>3, <1>4, <1>5, <1>6, AppendStep, UnlinkStep, ReadStep, WriteStep, RestartStep
     DEF Next, Step

LEMMA InvHolds == Spec => []Inv
  BY InvInit, InvStep, PTL DEF Spec

(* Every state of the registry is well typed, in every deployment. *)
THEOREM TypeCorrect == Spec => []TypeOK
<1>1. Inv => TypeOK
  BY DEF Inv
<1> QED
  BY <1>1, InvHolds, PTL

(* No save or removal of one account changes the entry of another, however *)
(* many of them are at the file (cookieCacheFileMu).                       *)
THEOREM OnlyOwnEntryHolds == Spec => OnlyOwnEntry
<1> DEFINE Own == \A x \in Ids : file'[x] # file[x] =>
                    \E t \in Tasks : pc[t] = "write" /\ id[t] = x /\ pc'[t] # "write"
<1>1. ASSUME Inv, [Next]_vars PROVE Own
  <2> SUFFICES ASSUME NEW x \in Ids, file'[x] # file[x]
               PROVE  \E t \in Tasks : pc[t] = "write" /\ id[t] = x /\ pc'[t] # "write"
    OBVIOUS
  <2>1. PICK t \in Tasks : WriteFile(t)
    BY <1>1 DEF Next, Step, StartAdd, StartRemove, StartSave, Start, AddExists, AddCheck,
                AddAppend, RemoveUnknown, RemoveUnlink, RemoveClose, NetworkFails, NetworkOk,
                ReadFile, WriteFails, Restart, vars, disk
  <2>2. pc[t] = "write" /\ copy[t] = file /\ file \in [Ids -> 0..MaxClients]
    BY <1>1, <2>1 DEF WriteFile, Inv, WriterOK, TypeOK
  <2>3. id[t] = x
    BY <2>1, <2>2 DEF WriteFile
  <2>4. pc'[t] # "write"
    BY <1>1, <2>1 DEF WriteFile, Unlock, Finish, Goto, Inv, TypeOK
  <2> QED
    BY <2>2, <2>3, <2>4
<1>2. Inv /\ [Next]_vars => [Own]_vars
  BY <1>1
<1> QED
  BY <1>2, InvHolds, PTL DEF Spec, OnlyOwnEntry

-----------------------------------------------------------------------------
(* The numbers of the declared accounts and their clients. *)
LEMMA ReachableInit == Init => Reachable
<1> SUFFICES ASSUME Init PROVE Reachable
  OBVIOUS
<1> DEFINE index(x) == CHOOSE i \in 1..Len(First) : First[i] = x
<1>1. \A x \in Declared : index(x) \in 1..Len(First) /\ First[index(x)] = x
  BY FirstOK
<1>2. \A i \in 1..Len(First) : First[i] \in Declared /\ First[i] \in Ids /\ i # 0
  BY FirstOK, DeclaredAssumption
<1> HIDE DEF index
<1>3. byId = [x \in Ids |-> IF x \in Declared THEN index(x) ELSE 0]
  BY DEF Init, index
<1> QED
  BY <1>1, <1>2, <1>3 DEF Init, Reachable

LEMMA ReachableStep ==
  ASSUME Inv, Reachable, [Next]_vars
  PROVE  Reachable'
<1> USE DEF Inv, TypeOK, Reachable
<1>1. ASSUME NEW t \in Tasks, AddAppend(t) PROVE Reachable'
  <2> DEFINE n == Len(owner')
  <2>1. /\ n = Len(owner) + 1 /\ Len(owner) \in Nat
        /\ \A c \in 1..Len(owner) : owner'[c] = owner[c]
        /\ owner'[n] = id[t] /\ id[t] \in Ids
    BY <1>1 DEF AddAppend
  <2>2. byId' = [byId EXCEPT ![id[t]] = n] /\ clients' = clients \cup {n}
    BY <1>1 DEF AddAppend
  <2> HIDE DEF n
  <2>3. \A c \in clients : c \in 1..Len(owner) /\ owner[c] \in Ids
    BY <2>1 DEF Numbered
  <2>4. n # 0 /\ byId \in [Ids -> 0..MaxClients]
    BY <2>1
  <2> QED
    BY <2>1, <2>2, <2>3, <2>4
<1>2. ASSUME NEW t \in Tasks, RemoveUnlink(t) PROVE Reachable'
  <2>1. /\ id[t] \in Ids /\ byId' = [byId EXCEPT ![id[t]] = 0] /\ owner' = owner
        /\ clients' = {c \in clients : owner[c] # id[t]}
    BY <1>2 DEF RemoveUnlink
  <2>2. \A c \in clients : owner[c] \in Ids
    BY DEF Numbered
  <2>3. \A x \in Ids : byId[x] # 0 => owner[byId[x]] = x
    BY DEF Numbered
  <2> QED
    BY <2>1, <2>2, <2>3
<1>3. CASE Restart
  <2> DEFINE back == {x \in Ids : x \in Declared \/ file[x] # 0}
  <2>1. \A x \in back : Reloaded(x) \in 1..Len(owner) /\ owner[Reloaded(x)] = x
    BY ReloadedOK
  <2>2. \A x \in back : Reloaded(x) # 0
    BY <2>1
  <2> QED
    BY <1>3, <2>1, <2>2 DEF Restart
<1>4. CASE byId' = byId /\ owner' = owner /\ clients' = clients
  BY <1>4
<1>5. ASSUME NEW t \in Tasks, NEW o, NEW x, NEW c, NEW label, Start(t, o, x, c, label)
      PROVE  Reachable'
  BY <1>4, <1>5 DEF Start, pool
<1>6. ASSUME NEW t \in Tasks,
             \/ AddExists(t) \/ AddCheck(t) \/ RemoveUnknown(t) \/ RemoveClose(t)
             \/ NetworkFails(t) \/ NetworkOk(t) \/ ReadFile(t) \/ WriteFile(t) \/ WriteFails(t)
      PROVE  Reachable'
  BY <1>4, <1>6 DEF AddExists, AddCheck, RemoveUnknown, RemoveClose, NetworkFails, NetworkOk,
                    ReadFile, WriteFile, WriteFails, Unlock, pool
<1>7. CASE UNCHANGED vars
  BY <1>4, <1>7 DEF vars, pool
<1> QED
  BY <1>1, <1>2, <1>3, <1>5, <1>6, <1>7 DEF Next, Step, StartAdd, StartRemove, StartSave

(* However additions and removals interleave, two additions of one id      *)
(* included, every client that serves can be named and removed, and the    *)
(* client an id names serves.                                              *)
THEOREM ReachableHolds == Spec => []Reachable
BY ReachableInit, ReachableStep, InvHolds, PTL DEF Spec

-----------------------------------------------------------------------------
(***************************************************************************)
(* A console account that has no entry is in doubt, or the addition that   *)
(* is to write it is under way; and none but those in doubt are awaited by *)
(* a late removal.                                                         *)
(***************************************************************************)
Writer(t, x) == op[t] = "add" /\ id[t] = x /\ pc[t] \in {"lock", "write"}
Remover(t, x) == op[t] = "remove" /\ id[t] = x /\ pc[t] \in {"lock", "write"}

SavedOK(x) ==
  byId[x] # 0 /\ x \notin inDoubt =>
    /\ file[x] # 0 \/ \E t \in Tasks : Writer(t, x)
    /\ \A t \in Tasks : ~Remover(t, x)

Saved == \A x \in Ids \ Declared : SavedOK(x)

(* Nothing of account x changes but where its tasks are. *)
LEMMA SavedFrame ==
  ASSUME NEW x, SavedOK(x), byId'[x] = byId[x], x \in inDoubt => x \in inDoubt',
         file'[x] = file[x] \/ file'[x] # 0,
         \A t \in Tasks : Writer(t, x) => Writer(t, x)' \/ file'[x] # 0,
         \A t \in Tasks : Remover(t, x)' => Remover(t, x)
  PROVE  SavedOK(x)'
BY DEF SavedOK

LEMMA SavedStep ==
  ASSUME Inv, Saved, [Next]_vars
  PROVE  Saved'
<1> SUFFICES ASSUME NEW x \in Ids \ Declared PROVE SavedOK(x)'
  BY DEF Saved
<1> USE DEF Inv
<1>0. SavedOK(x) /\ x \in Ids
  BY DEF Saved
<1>1. ASSUME NEW t \in Tasks, NEW o, NEW y, NEW c, NEW label, Start(t, o, y, c, label),
             label \notin {"lock", "write"}
      PROVE  SavedOK(x)'
  <2>1. pc[t] = "idle"
    BY <1>1 DEF Start
  <2> QED
    BY <1>0, <1>1, <2>1, SavedFrame DEF Start, Goto, pool, disk, Writer, Remover, TypeOK
<1>2. ASSUME NEW t \in Tasks,
             AddExists(t) \/ RemoveUnknown(t) \/ RemoveClose(t) \/ NetworkFails(t)
      PROVE  SavedOK(x)'
  <2>1. /\ pc[t] \notin {"lock", "write"} /\ Finish(t) /\ byId' = byId /\ file' = file
        /\ inDoubt' = inDoubt
    BY <1>2 DEF AddExists, RemoveUnknown, RemoveClose, NetworkFails, pool, disk
  <2> QED
    BY <1>0, <2>1, SavedFrame DEF Finish, Goto, Writer, Remover, TypeOK
<1>3. ASSUME NEW t \in Tasks, AddCheck(t) \/ NetworkOk(t) \/ ReadFile(t)
      PROVE  SavedOK(x)'
  <2>1. /\ byId' = byId /\ file' = file /\ inDoubt' = inDoubt /\ op' = op /\ id' = id
        /\ \/ pc[t] = "check" /\ pc' = [pc EXCEPT ![t] = "append"]
           \/ pc[t] = "network" /\ pc' = [pc EXCEPT ![t] = "lock"]
           \/ pc[t] = "lock" /\ pc' = [pc EXCEPT ![t] = "write"]
    BY <1>3 DEF AddCheck, NetworkOk, ReadFile, Goto, pool, disk
  <2>2. pc[t] = "network" => op[t] = "save"
    BY DEF OpOK
  <2> QED
    BY <1>0, <2>1, <2>2, SavedFrame DEF Writer, Remover, TypeOK
<1>4. ASSUME NEW t \in Tasks, AddAppend(t) PROVE SavedOK(x)'
  <2>1. /\ op[t] = "add" /\ pc[t] = "append" /\ pc' = [pc EXCEPT ![t] = "lock"]
        /\ file' = file /\ op' = op /\ id' = id /\ id[t] \in Ids
        /\ \A y \in Ids \ {id[t]} : byId'[y] = byId[y]
    BY <1>4 DEF AddAppend, Goto, disk, OpOK, TypeOK
  <2>2. inDoubt' = IF RemovalPending(id[t]) THEN inDoubt \cup {id[t]} ELSE inDoubt
    BY <1>4 DEF AddAppend
  <2>3. CASE id[t] = x
    <3>1. Writer(t, x)'
      BY <2>1, <2>3 DEF Writer, TypeOK
    <3>2. ASSUME NEW u \in Tasks, Remover(u, x)' PROVE Remover(u, x)
      BY <2>1, <3>2 DEF Remover, TypeOK
    <3>3. (\E u \in Tasks : Remover(u, x)) => x \in inDoubt'
      BY <2>2, <2>3 DEF Remover, RemovalPending
    <3> QED
      BY <3>1, <3>2, <3>3 DEF SavedOK
  <2>4. CASE id[t] # x
    BY <1>0, <2>1, <2>2, <2>4, SavedFrame DEF Writer, Remover, TypeOK
  <2> QED
    BY <2>3, <2>4
<1>5. ASSUME NEW t \in Tasks, RemoveUnlink(t) PROVE SavedOK(x)'
  <2>1. /\ op[t] = "remove" /\ pc[t] = "unlink" /\ pc' = [pc EXCEPT ![t] = "lock"]
        /\ file' = file /\ op' = op /\ id' = id /\ id[t] \in Ids /\ inDoubt' = inDoubt
        /\ byId' = [byId EXCEPT ![id[t]] = 0]
    BY <1>5 DEF RemoveUnlink, Goto, disk, OpOK, TypeOK
  <2>2. CASE id[t] = x
    BY <1>0, <2>1, <2>2 DEF SavedOK, TypeOK
  <2>3. CASE id[t] # x
    BY <1>0, <2>1, <2>3, SavedFrame DEF Writer, Remover, TypeOK
  <2> QED
    BY <2>2, <2>3
<1>6. ASSUME NEW t \in Tasks, WriteFile(t) \/ WriteFails(t) PROVE SavedOK(x)'
  <2>1. pc[t] = "write" /\ copy[t] = file /\ byId' = byId /\ Unlock(t)
    BY <1>6, Alone DEF WriteFile, WriteFails, Unlock, pool
  <2>2. op[t] \in {"add", "remove", "save"} /\ self[t] # 0 /\ id[t] \in Ids
    BY <2>1 DEF OpOK, TypeOK
  <2>3. ASSUME NEW u \in Tasks, u # t PROVE op'[u] = op[u] /\ id'[u] = id[u] /\ pc'[u] = pc[u]
    BY <2>1, <2>3 DEF Unlock, Finish, Goto, TypeOK
  <2>4. pc'[t] \in {"close", "idle"}
    BY <2>1 DEF Unlock, Finish, Goto, TypeOK
  <2>5. \A u \in Tasks : Remover(u, x)' => Remover(u, x)
    BY <2>3, <2>4 DEF Remover
  <2>6. \A u \in Tasks \ {t} : Writer(u, x) => Writer(u, x)'
    BY <2>3 DEF Writer
  <2>7. CASE id[t] # x
    <3>1. file'[x] = file[x] /\ (x \in inDoubt => x \in inDoubt')
      BY <1>6, <2>1, <2>2, <2>7 DEF WriteFile, WriteFails, TypeOK
    <3>2. ~Writer(t, x)
      BY <2>7 DEF Writer
    <3> QED
      BY <1>0, <2>1, <2>5, <2>6, <3>1, <3>2, SavedFrame
  <2>8. CASE id[t] = x /\ op[t] = "remove"
    <3>1. Remover(t, x) /\ (x \in inDoubt => x \in inDoubt')
      BY <1>6, <2>1, <2>8 DEF Remover, WriteFile, WriteFails
    <3> QED
      BY <1>0, <2>1, <3>1 DEF SavedOK
  <2>9. CASE id[t] = x /\ op[t] # "remove" /\ WriteFile(t)
    <3>1. file'[x] # 0
      BY <2>1, <2>2, <2>9 DEF WriteFile, TypeOK
    <3>2. CASE RemovalPending(x)
      BY <1>0, <2>1, <2>5, <2>9, <3>1, <3>2, SavedFrame DEF WriteFile
    <3>3. CASE ~RemovalPending(x)
      BY <2>5, <3>1, <3>3 DEF SavedOK, RemovalPending, Remover
    <3> QED
      BY <3>2, <3>3
  <2>10. CASE id[t] = x /\ op[t] = "save" /\ WriteFails(t)
    <3>1. file' = file /\ inDoubt' = inDoubt /\ ~Writer(t, x)
      BY <2>10 DEF WriteFails, Writer
    <3> QED
      BY <1>0, <2>1, <2>5, <2>6, <3>1, SavedFrame
  <2>11. CASE id[t] = x /\ op[t] = "add" /\ WriteFails(t)
    BY <2>11 DEF WriteFails, SavedOK
  <2> QED
    BY <1>6, <2>2, <2>7, <2>8, <2>9, <2>10, <2>11
<1>7. CASE Restart
  <2>1. (byId'[x] # 0 => file[x] # 0) /\ file' = file
    BY <1>0, <1>7 DEF Restart
  <2>2. \A t \in Tasks : pc'[t] = "idle"
    BY <1>7 DEF Restart
  <2> QED
    BY <2>1, <2>2 DEF SavedOK, Remover
<1>8. CASE UNCHANGED vars
  BY <1>0, <1>8, SavedFrame DEF vars, pool, disk, Writer, Remover
<1> QED
  BY <1>1, <1>2, <1>3, <1>4, <1>5, <1>6, <1>7, <1>8
     DEF Next, Step, StartAdd, StartRemove, StartSave

(* When everything has returned, every console account that serves has its *)
(* entry in the file, but those whose own write failed or met a late       *)
(* removal, however many handlers add and remove and wherever the process  *)
(* died.                                                                   *)
THEOREM AddedSurvivesHolds == Spec => []AddedSurvives
<1>1. Init => Saved
  BY DEF Init, Saved, SavedOK
<1>2. Inv /\ Saved /\ [Next]_vars => Saved'
  BY SavedStep
<1>3. Saved => AddedSurvives
  BY DEF Saved, SavedOK, AddedSurvives, Quiescent, Writer
<1> QED
  BY <1>1, <1>2, <1>3, InvHolds, PTL DEF Spec
=============================================================================

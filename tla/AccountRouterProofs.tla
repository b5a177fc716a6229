------------------------ MODULE AccountRouterProofs ------------------------
(***************************************************************************)
(* Proofs about AccountRouter, for every set of accounts, conversations    *)
(* and requests and every deployment.                                      *)
(***************************************************************************)
EXTENDS AccountRouter, FiniteSetTheorems, WellFoundedInduction, TLAPS

(* A set of naturals that is not empty has a least member. *)
LEMMA LeastMember ==
  ASSUME NEW S \in SUBSET Nat, S # {}
  PROVE  \E m \in S : \A k \in S : m <= k
<1> DEFINE Less == {ss \in Nat \X Nat : ss[1] < ss[2]}
<1>1. IsWellFoundedOn(Less, Nat)
  BY NatLessThanWellFounded DEF OpToRel
<1>2. \A k, m \in Nat : k < m => <<k, m>> \in Less
  OBVIOUS
<1> HIDE DEF Less
<1>3. PICK m \in S : \A k \in S : <<k, m>> \notin Less
  BY <1>1, WFMin
<1>4. ASSUME NEW k \in S PROVE m <= k
  <2>1. k \in Nat /\ m \in Nat /\ ~(k < m)
    BY <1>2, <1>3
  <2> QED
    BY <2>1
<1> QED
  BY <1>4

(* Counting on from n modulo l reaches every index. *)
LEMMA Wraps ==
  ASSUME NEW n \in Nat, NEW l \in Nat, n <= l, NEW k \in 0..(l - 1)
  PROVE  \E i \in 0..(l - 1) : (n + i) % l = k
<1>1. CASE n <= k
  <2>1. k - n \in 0..(l - 1) /\ (n + (k - n)) % l = k
    BY <1>1
  <2> QED
    BY <2>1
<1>2. CASE n > k
  <2>1. k - n + l \in 0..(l - 1) /\ n + (k - n + l) = k + l
    BY <1>2
  <2>2. (k + l) % l = k
    OBVIOUS
  <2> QED
    BY <2>1, <2>2
<1> QED
  BY <1>1, <1>2

LEMMA AccountsFinite == IsFiniteSet(Accounts)
<1>1. ASSUME NEW s \in Seq(Accounts) PROVE IsFiniteSet(ToSet(s))
  <2>1. IsFiniteSet(1..Len(s))
    BY FS_Interval
  <2>2. s \in [1..Len(s) -> ToSet(s)]
    BY DEF ToSet
  <2>3. s \in Surjection(1..Len(s), ToSet(s))
    BY <2>2 DEF Surjection, ToSet
  <2> QED
    BY <2>1, <2>3, FS_Surjection
<1>2. IsFiniteSet(ToSet(Declared)) /\ IsFiniteSet(ToSet(Addable))
  BY <1>1, DeclaredAssumption
<1> QED
  BY <1>2, FS_Union DEF Accounts

(* What is kept of a pool is a pool. *)
LEMMA KeptIsPool ==
  ASSUME NEW s \in Seq(Accounts), NEW S, NEW q \in Kept(s, S)
  PROVE  q \in Seq(Accounts) /\ IsInjective(q) /\ ToSet(q) \subseteq S
<1> DEFINE T == ToSet(s) \cap S
<1>1. T \subseteq Accounts
  BY DEF ToSet
<1>2. Cardinality(T) \in Nat
  BY <1>1, AccountsFinite, FS_Subset, FS_CardinalityType
<1>3. q \in [1..Cardinality(T) -> T]
  BY DEF Kept, SetToSeqs
<1>4. IsInjective(q)
  BY <1>3 DEF Kept, SetToSeqs, IsInjective
<1>5. ToSet(q) \subseteq S
  BY <1>3 DEF ToSet
<1> HIDE DEF T
<1>6. q \in Seq(Accounts)
  BY <1>1, <1>2, <1>3
<1> QED
  BY <1>4, <1>5, <1>6

-----------------------------------------------------------------------------
(* The pool and its window. *)
PoolOK ==
  /\ clients \in Seq(Accounts) /\ IsInjective(clients)
  /\ healthy \subseteq Accounts
  /\ activeIndex \in -1..(Len(clients) - 1)
  /\ windowOpen \in BOOLEAN
  /\ saved \in [account : Accounts \cup {NoAccount}, ahead : BOOLEAN]
  /\ phase \in {"running", "some", "done"}
  /\ owed \in Accounts \cup {NoAccount}

LEMMA NextUpFound ==
  ASSUME PoolOK, SomeUp
  PROVE  NextUp \in 0..(Len(clients) - 1) /\ Up(clients[NextUp + 1])
<1> DEFINE L == Len(clients)
           up(i) == Up(clients[After(i) + 1])
           first == CHOOSE i \in 0..(L - 1) : up(i) /\ \A j \in 0..(i - 1) : ~up(j)
<1>1. L \in Nat /\ activeIndex + 1 \in Nat /\ activeIndex + 1 <= L
  BY DEF PoolOK
<1>2. PICK k \in 1..L : Up(clients[k])
  BY DEF PoolOK, SomeUp, ToSet
<1>3. PICK i \in 0..(L - 1) : After(i) = k - 1
  BY <1>1, Wraps, k - 1 \in 0..(L - 1) DEF After
<1> DEFINE found == {j \in 0..(L - 1) : up(j)}
<1>4. found \in SUBSET Nat /\ found # {}
  BY <1>2, <1>3
<1> HIDE DEF found
<1>5. PICK m \in found : \A j \in found : m <= j
  BY <1>4, LeastMember
<1>6. m \in 0..(L - 1) /\ up(m) /\ \A j \in 0..(m - 1) : ~up(j)
  BY <1>1, <1>5 DEF found
<1>7. first \in 0..(L - 1) /\ up(first)
  BY <1>6
<1>8. ASSUME NEW j \in 0..(L - 1) PROVE After(j) \in 0..(L - 1)
  <2>1. activeIndex + 1 + j \in Nat /\ L > 0
    BY <1>1
  <2> QED
    BY <1>1, <2>1 DEF After
<1> QED
  BY <1>7, <1>8 DEF NextUp

(* The choice of an account finds one that is up, and leaves the pool well *)
(* formed.                                                                 *)
LEMMA SelectFinds ==
  ASSUME PoolOK, SomeUp
  PROVE  Up(Selected) /\ Selected \in Accounts
<1>1. Up(clients[NextUp + 1])
  BY NextUpFound
<1>2. Up(Selected)
  BY <1>1 DEF Selected, ActiveUsable
<1> QED
  BY <1>2 DEF Up, PoolOK

LEMMA RotateKeepsPool ==
  ASSUME PoolOK, NEW index \in 0..(Len(clients) - 1), Rotate(index),
         UNCHANGED <<clients, healthy, owed>>, phase' \in {"running", "some", "done"}
  PROVE  PoolOK'
<1>1. clients[index + 1] \in Accounts
  BY DEF PoolOK
<1>2. CASE saved' = [account |-> clients[index + 1], ahead |-> TRUE]
  BY <1>1, <1>2 DEF PoolOK, Rotate
<1>3. CASE UNCHANGED saved
  BY <1>3 DEF PoolOK, Rotate
<1> QED
  BY <1>2, <1>3 DEF Rotate, Save

LEMMA SelectKeepsPool ==
  ASSUME PoolOK, SomeUp, Select, UNCHANGED <<clients, healthy, owed, phase>>
  PROVE  PoolOK'
<1>1. CASE ActiveUsable
  BY <1>1 DEF Select, PoolOK, active
<1>2. CASE ~ActiveUsable
  BY <1>2, NextUpFound, RotateKeepsPool DEF Select, PoolOK
<1> QED
  BY <1>1, <1>2

LEMMA PoolStep == PoolOK /\ [Next]_vars => PoolOK'
<1> SUFFICES ASSUME PoolOK, [Next]_vars PROVE PoolOK'
  OBVIOUS
<1>1. ASSUME NEW r \in Requests, NEW c \in Convs \cup {NoConv},
             Begin(r, "lookup", c) \/ Begin(r, "send", c)
      PROVE  PoolOK'
  BY <1>1 DEF Begin, PoolOK, active
<1>2. ASSUME NEW r \in Requests,
             ReadBinding(r) \/ LookAndReturn(r) \/ LookAndUnbind(r)
               \/ LookAndBind(r) \/ Unbind(r) \/ Bind(r)
      PROVE  PoolOK'
  BY <1>2 DEF ReadBinding, LookAndReturn, LookAndUnbind, LookAndBind, Unbind, Bind, PoolOK, active
<1>3. ASSUME NEW r \in Requests, Reuse(r) \/ PoolEmpty(r) \/ NoneUp(r) \/ StillNoneUp(r)
      PROVE  PoolOK'
  BY <1>3 DEF Reuse, PoolEmpty, NoneUp, StillNoneUp, PoolOK, active
<1>4. ASSUME NEW r \in Requests, UseActive(r) \/ Reselect(r) PROVE PoolOK'
  BY <1>4, SelectKeepsPool DEF UseActive, Reselect
<1>5. ASSUME NEW r \in Requests,
             StreamMetadata(r) \/ StreamText(r) \/ Answer(r) \/ CallFails(r)
      PROVE  PoolOK'
  BY <1>5 DEF StreamMetadata, StreamText, Answer, CallFails, PoolOK, active, request
<1>6. ASSUME NEW r \in Requests, AuthError(r) PROVE PoolOK'
  BY <1>6 DEF AuthError, PoolOK, active
<1>7. ASSUME NEW a \in Accounts, RemoveAccount(a) PROVE PoolOK'
  <2>1. clients' \in Seq(Accounts) /\ IsInjective(clients')
    BY <1>7, KeptIsPool DEF RemoveAccount, PoolOK
  <2>2. activeIndex' \in -1..(Len(clients') - 1)
    BY <1>7, <2>1 DEF RemoveAccount, PoolOK
  <2> QED
    BY <1>7, <2>1, <2>2 DEF RemoveAccount, PoolOK
<1>8. ASSUME NEW a \in ToSet(Addable), AddAccount(a) PROVE PoolOK'
  <2>1. a \in Accounts
    BY DEF Accounts
  <2>2. clients' \in Seq(Accounts) /\ Len(clients') = Len(clients) + 1
    BY <1>8, <2>1 DEF AddAccount, PoolOK
  <2>3. IsInjective(clients')
    BY <1>8, <2>1 DEF AddAccount, PoolOK, IsInjective, InPool, ToSet
  <2> QED
    BY <1>8, <2>2, <2>3 DEF AddAccount, PoolOK, active
<1>9. CASE FinishInit
  <2>1. CASE phase = "running"
    BY <1>9, <2>1 DEF FinishInit, PoolOK, active
  <2>2. CASE phase = "some" /\ saved.ahead /\ Up(saved.account)
    <3>1. \E i \in 1..Len(clients) : clients[i] = saved.account
      BY <2>2 DEF Up, InPool, ToSet, PoolOK
    <3>2. Position(saved.account) \in 1..Len(clients)
      BY <3>1 DEF Position
    <3> QED
      BY <1>9, <2>2, <3>2 DEF FinishInit, PoolOK
  <2>3. CASE phase = "some" /\ ~(saved.ahead /\ Up(saved.account)) /\ SomeUp
    <3> DEFINE S == {i \in 0..(Len(clients) - 1) : Up(clients[i + 1])}
    <3>1. PICK k \in 1..Len(clients) : Up(clients[k])
      BY <2>3 DEF PoolOK, SomeUp, ToSet
    <3>2. Len(clients) \in Nat
      BY DEF PoolOK
    <3>3. k - 1 \in S
      BY <3>1, <3>2
    <3>4. S \in SUBSET Nat
      BY <3>2
    <3>6. Rotate(Min(S)) /\ UNCHANGED <<clients, healthy, owed>> /\ phase' = "done"
      BY <1>9, <2>3 DEF FinishInit
    <3> HIDE DEF S
    <3>5. Min(S) \in S
      BY <3>3, <3>4, LeastMember DEF Min
    <3>7. Min(S) \in 0..(Len(clients) - 1)
      BY <3>5 DEF S
    <3> QED
      BY <3>6, <3>7, RotateKeepsPool
  <2>4. CASE phase = "some" /\ ~(saved.ahead /\ Up(saved.account)) /\ ~SomeUp
    BY <1>9, <2>4 DEF FinishInit, PoolOK
  <2> QED
    BY <1>9, <2>1, <2>2, <2>3, <2>4 DEF FinishInit
<1>10. CASE Restart
  <2>1. Declared \o Addable \in Seq(Accounts)
    BY DeclaredAssumption
  <2>2. clients' \in Seq(Accounts) /\ IsInjective(clients')
    BY <1>10, <2>1, KeptIsPool DEF Restart
  <2>3. owed' \in Accounts \cup {NoAccount}
    BY <1>10 DEF Restart, PoolOK
  <2>4. activeIndex' \in -1..(Len(clients') - 1)
    BY <1>10, <2>2 DEF Restart
  <2>5. healthy' = {} /\ windowOpen' = FALSE /\ phase' = "running" /\ saved' = saved
    BY <1>10 DEF Restart
  <2> QED
    BY <2>2, <2>3, <2>4, <2>5 DEF PoolOK
<1>11. ASSUME NEW a \in Accounts, ComesUp(a) \/ GoesDown(a) PROVE PoolOK'
  BY <1>11 DEF ComesUp, GoesDown, PoolOK, active
<1>12. CASE WindowExpires
  BY <1>12 DEF WindowExpires, PoolOK
<1>13. ASSUME NEW c \in Convs, Ages(c) \/ \E a \in Accounts : Forget(a, c) PROVE PoolOK'
  BY <1>13 DEF Ages, Forget, PoolOK, active
<1>14. CASE UNCHANGED vars
  BY <1>14 DEF vars, PoolOK, active
<1>15. ASSUME NEW r \in Requests, Serve(r) \/ Stream(r) PROVE PoolOK'
  BY <1>2, <1>3, <1>4, <1>5, <1>6, <1>15 DEF Serve, Stream
<1>16. CASE Environment
  BY <1>7, <1>8, <1>9, <1>10, <1>11, <1>12, <1>13, <1>16 DEF Environment
<1> QED
  BY <1>1, <1>14, <1>15, <1>16 DEF Next
-----------------------------------------------------------------------------
(* The bindings and what the accounts know. *)
TablesOK ==
  /\ conversationTo \in [Convs -> Accounts \cup {NoAccount}]
  /\ conversationSeen \in [Convs -> {"none", "fresh", "old"}]
  /\ state \in [Accounts -> SUBSET Convs]

(* The requests. *)
Labels == {"idle", "read", "look", "unbind", "bind", "select", "recover", "call"}

RequestsOK ==
  /\ op \in [Requests -> {"none", "lookup", "send"}]
  /\ pc \in [Requests -> Labels]
  /\ conv \in [Requests -> Convs \cup {NoConv}]
  /\ client \in [Requests -> Accounts \cup {NoAccount}]
  /\ attempt \in [Requests -> 0..2]
  /\ spoke \in [Requests -> SUBSET Accounts]

(* What the place of a request says of it: text comes from the account it  *)
(* is at, a request that goes looking for an account has shown none, and a *)
(* third attempt is never prepared.  Lookups name a conversation.           *)
PlaceOK ==
  \A r \in Requests :
    /\ pc[r] = "call" => client[r] \in Accounts /\ spoke[r] \subseteq {client[r]}
    /\ pc[r] # "call" => spoke[r] = {}
    /\ pc[r] \in {"select", "recover"} => attempt[r] <= 1
    /\ pc[r] \in {"idle", "read", "look", "unbind", "bind"} => attempt[r] = 0
    /\ pc[r] = "read" => conv[r] \in Convs

LEMMA DispatchKeeps ==
  ASSUME RequestsOK, PlaceOK, NEW r \in Requests, NEW a \in Accounts,
         pc[r] \in {"select", "recover"}, Dispatch(r, a)
  PROVE  RequestsOK' /\ PlaceOK'
<1>1. CASE attempt[r] = 1 /\ client[r] = a
  BY <1>1 DEF Dispatch, Finish, Goto, RequestsOK, PlaceOK, Labels
<1>2. CASE ~(attempt[r] = 1 /\ client[r] = a)
  <2>1. attempt[r] \in 0..1 /\ spoke[r] = {}
    BY DEF RequestsOK, PlaceOK
  <2>2. RequestsOK'
    BY <1>2, <2>1 DEF Dispatch, Goto, RequestsOK, Labels
  <2>3. PlaceOK'
    BY <1>2, <2>1 DEF Dispatch, Goto, RequestsOK, PlaceOK
  <2> QED
    BY <2>2, <2>3
<1> QED
  BY <1>1, <1>2

LEMMA FinishKeeps ==
  ASSUME RequestsOK, PlaceOK, NEW r \in Requests, Finish(r)
  PROVE  RequestsOK' /\ PlaceOK'
BY DEF Finish, Goto, RequestsOK, PlaceOK, Labels

LEMMA RequestsStep ==
  PoolOK /\ TablesOK /\ RequestsOK /\ PlaceOK /\ [Next]_vars => RequestsOK' /\ PlaceOK'
<1> SUFFICES ASSUME PoolOK, TablesOK, RequestsOK, PlaceOK, [Next]_vars
             PROVE  RequestsOK' /\ PlaceOK'
  OBVIOUS
<1>1. ASSUME NEW r \in Requests,
             \/ \E c \in Convs : Begin(r, "lookup", c)
             \/ \E c \in Convs \cup {NoConv} : Begin(r, "send", c)
      PROVE  RequestsOK' /\ PlaceOK'
  BY <1>1 DEF Begin, Goto, RequestsOK, PlaceOK, Labels
<1>2. ASSUME NEW r \in Requests, ReadBinding(r) PROVE RequestsOK' /\ PlaceOK'
  <2>1. conversationTo[conv[r]] \in Accounts \cup {NoAccount}
    BY <1>2 DEF ReadBinding, TablesOK, PlaceOK
  <2> QED
    BY <1>2, <2>1 DEF ReadBinding, Goto, RequestsOK, PlaceOK, Labels
<1>3. ASSUME NEW r \in Requests, LookAndUnbind(r) PROVE RequestsOK' /\ PlaceOK'
  BY <1>3 DEF LookAndUnbind, Goto, RequestsOK, PlaceOK, Labels
<1>4. ASSUME NEW r \in Requests, LookAndBind(r) PROVE RequestsOK' /\ PlaceOK'
  <2>1. PICK i \in 1..Len(clients) : client' = [client EXCEPT ![r] = clients[i]]
    BY <1>4 DEF LookAndBind
  <2>2. clients[i] \in Accounts
    BY DEF PoolOK
  <2> QED
    BY <1>4, <2>1, <2>2 DEF LookAndBind, Goto, RequestsOK, PlaceOK, Labels
<1>5. ASSUME NEW r \in Requests,
             LookAndReturn(r) \/ Unbind(r) \/ Bind(r) \/ PoolEmpty(r) \/ StillNoneUp(r)
               \/ Answer(r) \/ CallFails(r)
      PROVE  RequestsOK' /\ PlaceOK'
  BY <1>5, FinishKeeps DEF LookAndReturn, Unbind, Bind, PoolEmpty, StillNoneUp, Answer, CallFails
<1>6. ASSUME NEW r \in Requests, Reuse(r) PROVE RequestsOK' /\ PlaceOK'
  <2>1. Owner(r) \in Accounts
    BY <1>6 DEF Reuse, Up, PoolOK
  <2> QED
    BY <1>6, <2>1, DispatchKeeps DEF Reuse
<1>7. ASSUME NEW r \in Requests, UseActive(r) \/ Reselect(r) PROVE RequestsOK' /\ PlaceOK'
  BY <1>7, SelectFinds, DispatchKeeps DEF UseActive, Reselect
<1>8. ASSUME NEW r \in Requests, NoneUp(r) PROVE RequestsOK' /\ PlaceOK'
  BY <1>8 DEF NoneUp, Goto, RequestsOK, PlaceOK, Labels
<1>9. ASSUME NEW r \in Requests, StreamText(r) PROVE RequestsOK' /\ PlaceOK'
  BY <1>9 DEF StreamText, RequestsOK, PlaceOK
<1>10. ASSUME NEW r \in Requests, StreamMetadata(r) PROVE RequestsOK' /\ PlaceOK'
  BY <1>10 DEF StreamMetadata, request, RequestsOK, PlaceOK
<1>11. ASSUME NEW r \in Requests, AuthError(r) PROVE RequestsOK' /\ PlaceOK'
  <2>1. CASE attempt[r] = 2 \/ spoke[r] # {} \/ conv[r] \in state[client[r]]
    BY <1>11, <2>1, FinishKeeps DEF AuthError
  <2>2. CASE ~(attempt[r] = 2 \/ spoke[r] # {} \/ conv[r] \in state[client[r]])
    BY <1>11, <2>2 DEF AuthError, Goto, RequestsOK, PlaceOK, Labels
  <2> QED
    BY <2>1, <2>2
<1>12. CASE Restart
  BY <1>12 DEF Restart, RequestsOK, PlaceOK, Labels
<1>13. CASE Environment /\ ~Restart
  <2>1. UNCHANGED request
    BY <1>13 DEF Environment, RemoveAccount, AddAccount, FinishInit, ComesUp, GoesDown,
                 WindowExpires, Ages, Forget
  <2> QED
    BY <2>1 DEF request, RequestsOK, PlaceOK
<1>14. CASE UNCHANGED vars
  BY <1>14 DEF vars, request, RequestsOK, PlaceOK
<1>15. ASSUME NEW r \in Requests, Serve(r) \/ Stream(r) PROVE RequestsOK' /\ PlaceOK'
  BY <1>2, <1>3, <1>4, <1>5, <1>6, <1>7, <1>8, <1>9, <1>10, <1>11, <1>15 DEF Serve, Stream
<1> QED
  BY <1>1, <1>12, <1>13, <1>14, <1>15 DEF Next

LEMMA BindAndPruneKeeps ==
  ASSUME TablesOK, NEW r \in Requests, NEW a \in Accounts, BindAndPrune(r, a)
  PROVE  /\ conversationTo' \in [Convs -> Accounts \cup {NoAccount}]
         /\ conversationSeen' \in [Convs -> {"none", "fresh", "old"}]
BY DEF BindAndPrune, bindings, TablesOK

LEMMA TablesStep ==
  PoolOK /\ TablesOK /\ RequestsOK /\ PlaceOK /\ [Next]_vars => TablesOK'
<1> SUFFICES ASSUME PoolOK, TablesOK, RequestsOK, PlaceOK, [Next]_vars PROVE TablesOK'
  OBVIOUS
<1>1. ASSUME NEW r \in Requests, NEW c \in Convs \cup {NoConv},
             Begin(r, "lookup", c) \/ Begin(r, "send", c)
      PROVE  TablesOK'
  BY <1>1 DEF Begin, TablesOK, bindings
<1>2. ASSUME NEW r \in Requests,
             ReadBinding(r) \/ LookAndReturn(r) \/ LookAndUnbind(r) \/ LookAndBind(r)
               \/ StillNoneUp(r) \/ StreamText(r) \/ CallFails(r) \/ AuthError(r)
      PROVE  TablesOK'
  BY <1>2 DEF ReadBinding, LookAndReturn, LookAndUnbind, LookAndBind, StillNoneUp,
              StreamText, CallFails, AuthError, TablesOK, bindings
<1>3. ASSUME NEW r \in Requests, Unbind(r) \/ Bind(r) PROVE TablesOK'
  BY <1>3 DEF Unbind, Bind, TablesOK, RequestsOK
<1>4. ASSUME NEW r \in Requests, Reuse(r) PROVE TablesOK'
  BY <1>4 DEF Reuse, TablesOK
<1>5. ASSUME NEW r \in Requests, UseActive(r) \/ Reselect(r) PROVE TablesOK'
  BY <1>5, SelectFinds, BindAndPruneKeeps DEF UseActive, Reselect, TablesOK
<1>6. ASSUME NEW r \in Requests, PoolEmpty(r) \/ NoneUp(r) PROVE TablesOK'
  BY <1>6 DEF PoolEmpty, NoneUp, DropBinding, TablesOK, bindings
<1>7. ASSUME NEW r \in Requests, StreamMetadata(r) \/ Answer(r) PROVE TablesOK'
  <2>1. {conv[r]} \ {NoConv} \subseteq Convs
    BY DEF RequestsOK
  <2> QED
    BY <1>7, <2>1 DEF StreamMetadata, Answer, Learn, TablesOK, bindings
<1>8. ASSUME NEW a \in Accounts, RemoveAccount(a) PROVE TablesOK'
  BY <1>8 DEF RemoveAccount, TablesOK
<1>9. ASSUME NEW a \in ToSet(Addable), AddAccount(a) PROVE TablesOK'
  BY <1>9 DEF AddAccount, TablesOK, bindings
<1>10. CASE FinishInit \/ WindowExpires
  BY <1>10 DEF FinishInit, WindowExpires, TablesOK, bindings
<1>11. CASE Restart
  BY <1>11 DEF Restart, TablesOK
<1>12. ASSUME NEW a \in Accounts, ComesUp(a) \/ GoesDown(a) PROVE TablesOK'
  BY <1>12 DEF ComesUp, GoesDown, TablesOK, bindings
<1>13. ASSUME NEW c \in Convs, Ages(c) PROVE TablesOK'
  BY <1>13 DEF Ages, TablesOK
<1>14. ASSUME NEW a \in Accounts, NEW c \in Convs, Forget(a, c) PROVE TablesOK'
  BY <1>14 DEF Forget, TablesOK, bindings
<1>15. CASE UNCHANGED vars
  BY <1>15 DEF vars, TablesOK, bindings
<1>16. ASSUME NEW r \in Requests, Serve(r) \/ Stream(r) PROVE TablesOK'
  BY <1>2, <1>3, <1>4, <1>5, <1>6, <1>7, <1>16 DEF Serve, Stream
<1>17. CASE Environment
  BY <1>8, <1>9, <1>10, <1>11, <1>12, <1>13, <1>14, <1>17 DEF Environment
<1> QED
  BY <1>1, <1>15, <1>16, <1>17 DEF Next

-----------------------------------------------------------------------------
RouterInv == PoolOK /\ TablesOK /\ RequestsOK /\ PlaceOK

LEMMA RouterInvHolds == Spec => []RouterInv
<1>1. Init => PoolOK
  <2>1. Declared \in Seq(Accounts) /\ Len(Declared) \in Nat
    BY DeclaredAssumption
  <2>2. ASSUME NEW i \in DOMAIN Declared
        PROVE  i \in DOMAIN (Declared \o Addable) /\ (Declared \o Addable)[i] = Declared[i]
    BY DeclaredAssumption
  <2>3. IsInjective(Declared)
    BY <2>2, DeclaredAssumption DEF IsInjective
  <2>4. -1 \in -1..(Len(Declared) - 1)
    BY <2>1
  <2>5. [account |-> NoAccount, ahead |-> FALSE]
          \in [account : Accounts \cup {NoAccount}, ahead : BOOLEAN]
    OBVIOUS
  <2> QED
    BY <2>1, <2>3, <2>4, <2>5 DEF Init, PoolOK
<1>2. Init => TablesOK /\ RequestsOK /\ PlaceOK
  BY DEF Init, TablesOK, RequestsOK, PlaceOK, Labels
<1>3. RouterInv /\ [Next]_vars => RouterInv'
  BY PoolStep, TablesStep, RequestsStep DEF RouterInv
<1> QED
  BY <1>1, <1>2, <1>3, PTL DEF Spec, RouterInv

(* Every state of the router is well typed.  In particular activeIndex     *)
(* names an account of the pool or none, through every removal, addition,  *)
(* rotation and restart, and no request is sent a third time.              *)
THEOREM TypeCorrect == Spec => []TypeOK
<1>1. RouterInv => TypeOK
  BY DEF RouterInv, PoolOK, TablesOK, RequestsOK, Labels, TypeOK
<1> QED
  BY <1>1, RouterInvHolds, PTL

(* The caller of a stream reads one account, however the pool changes      *)
(* while its request fails over (GenerateContentStreamForOpenAI).          *)
THEOREM OneVoiceHolds == Spec => []OneVoice
<1>1. ASSUME RouterInv, NEW r \in Requests PROVE Cardinality(spoke[r]) <= 1
  <2>1. spoke[r] \subseteq {client[r]}
    BY <1>1 DEF RouterInv, PlaceOK
  <2>2. spoke[r] = {} \/ spoke[r] = {client[r]}
    BY <2>1
  <2>3. Cardinality({}) = 0 /\ Cardinality({client[r]}) = 1
    BY FS_EmptySet, FS_Singleton
  <2> QED
    BY <2>2, <2>3
<1>2. RouterInv => OneVoice
  BY <1>1 DEF OneVoice
<1> QED
  BY <1>2, RouterInvHolds, PTL

LEMMA DispatchTo ==
  ASSUME RequestsOK, NEW r \in Requests, NEW a, Dispatch(r, a), Up(a),
         NEW q \in Requests, attempt'[q] > attempt[q]
  PROVE  Up(client'[q])
<1>1. CASE attempt[r] = 1 /\ client[r] = a
  BY <1>1 DEF Dispatch, Finish, RequestsOK
<1>2. CASE ~(attempt[r] = 1 /\ client[r] = a)
  BY <1>2 DEF Dispatch, RequestsOK
<1> QED
  BY <1>1, <1>2

(* A request goes only to an account that is in the pool and up at that    *)
(* moment: clientForOptions decides and returns under the pool's mutex.    *)
THEOREM DispatchesUp == Spec => DispatchUp
<1>1. ASSUME RouterInv, [Next]_vars, NEW q \in Requests, attempt'[q] > attempt[q]
      PROVE  Up(client'[q])
  <2> USE <1>1 DEF RouterInv
  <2>1. attempt[q] \in 0..2
    BY DEF RequestsOK
  <2>2. ASSUME NEW r \in Requests, Reuse(r) PROVE Up(client'[q])
    BY <2>2, DispatchTo DEF Reuse
  <2>3. ASSUME NEW r \in Requests, UseActive(r) \/ Reselect(r) PROVE Up(client'[q])
    BY <2>3, SelectFinds, DispatchTo DEF UseActive, Reselect
  <2>4. ASSUME NEW r \in Requests, Serve(r), ~Reuse(r), ~UseActive(r), ~Reselect(r) PROVE FALSE
    BY <2>1, <2>4 DEF Serve, ReadBinding, LookAndReturn, LookAndUnbind, LookAndBind, Unbind,
         Bind, PoolEmpty, NoneUp, StillNoneUp, Answer, CallFails, AuthError, Finish, RequestsOK
  <2>5. ASSUME NEW r \in Requests,
               \/ Stream(r)
               \/ \E c \in Convs \cup {NoConv} : Begin(r, "lookup", c) \/ Begin(r, "send", c)
        PROVE  FALSE
    BY <2>1, <2>5 DEF Stream, StreamMetadata, StreamText, Begin, request
  <2>6. CASE Environment
    <3>1. attempt' = attempt \/ attempt' = [r \in Requests |-> 0]
      BY <2>6 DEF Environment, RemoveAccount, AddAccount, FinishInit, Restart, ComesUp,
           GoesDown, WindowExpires, Ages, Forget, request
    <3> QED
      BY <2>1, <3>1
  <2>7. CASE UNCHANGED vars
    BY <2>1, <2>7 DEF vars, request
  <2> QED
    BY <2>2, <2>3, <2>4, <2>5, <2>6, <2>7 DEF Next
<1>2. RouterInv /\ [Next]_vars =>
        [\A r \in Requests : attempt'[r] > attempt[r] => Up(client'[r])]_vars
  BY <1>1
<1> QED
  BY <1>2, RouterInvHolds, PTL DEF Spec, DispatchUp

(* While the process lives, the binding of a conversation in use is        *)
(* changed only by that conversation's own requests: neither the rotation, *)
(* failover and pruning of the others nor the console reaches it.          *)
THEOREM OthersKeepBindingHolds ==
  ASSUME "restart" \notin Operations
  PROVE  Spec => OthersKeepBinding
<1>1. ASSUME RouterInv, [Next]_vars, NEW c \in Convs,
             conversationTo[c] \in ToSet(clients'), conversationSeen[c] = "fresh",
             conversationTo'[c] # conversationTo[c]
      PROVE  \E r \in Requests : conv[r] = c /\ pc'[r] # pc[r]
  <2> USE <1>1 DEF RouterInv
  <2>1. ASSUME NEW r \in Requests, Unbind(r) \/ Bind(r)
        PROVE  conv[r] = c /\ pc'[r] # pc[r]
    BY <2>1 DEF Unbind, Bind, Finish, Goto, TablesOK, RequestsOK
  <2>2. ASSUME NEW r \in Requests, UseActive(r) \/ Reselect(r)
        PROVE  conv[r] = c /\ pc'[r] # pc[r]
    <3>1. conv[r] = c
      BY <2>2 DEF UseActive, Reselect, BindAndPrune, bindings, TablesOK
    <3>2. pc'[r] # pc[r]
      BY <2>2 DEF UseActive, Reselect, Dispatch, Finish, Goto, RequestsOK
    <3> QED
      BY <3>1, <3>2
  <2>3. ASSUME NEW r \in Requests, PoolEmpty(r) \/ NoneUp(r)
        PROVE  conv[r] = c /\ pc'[r] # pc[r]
    BY <2>3 DEF PoolEmpty, NoneUp, DropBinding, Finish, Goto, bindings, TablesOK, RequestsOK
  <2>4. ASSUME NEW r \in Requests,
               ReadBinding(r) \/ LookAndReturn(r) \/ LookAndUnbind(r) \/ LookAndBind(r)
                 \/ Reuse(r) \/ StillNoneUp(r) \/ Answer(r) \/ CallFails(r) \/ AuthError(r)
                 \/ Stream(r)
        PROVE  FALSE
    BY <2>4 DEF ReadBinding, LookAndReturn, LookAndUnbind, LookAndBind, Reuse, StillNoneUp,
                Answer, CallFails, AuthError, Stream, StreamMetadata, StreamText, bindings
  <2>5. ASSUME NEW a \in Accounts, RemoveAccount(a) PROVE FALSE
    <3>1. a \notin ToSet(clients')
      BY <2>5, KeptIsPool DEF RemoveAccount, PoolOK
    <3> QED
      BY <2>5, <3>1 DEF RemoveAccount, TablesOK
  <2>6. CASE Environment
    BY <2>5, <2>6 DEF Environment, AddAccount, FinishInit, Restart, ComesUp, GoesDown,
                      WindowExpires, Ages, Forget, bindings
  <2>7. ASSUME NEW r \in Requests, NEW d \in Convs \cup {NoConv},
               Begin(r, "lookup", d) \/ Begin(r, "send", d)
        PROVE  FALSE
    BY <2>7 DEF Begin, bindings
  <2>8. CASE UNCHANGED vars
    BY <2>8 DEF vars, bindings
  <2> QED
    BY <2>1, <2>2, <2>3, <2>4, <2>6, <2>7, <2>8 DEF Next, Serve
<1> DEFINE Undisturbed == \A c \in Convs :
              /\ conversationTo[c] \in ToSet(clients')
              /\ conversationSeen[c] = "fresh"
              /\ conversationTo'[c] # conversationTo[c]
              => \E r \in Requests : conv[r] = c /\ pc'[r] # pc[r]
<1>2. RouterInv /\ [Next]_vars => [Undisturbed]_vars
  BY <1>1
<1> QED
  BY <1>2, RouterInvHolds, PTL DEF Spec, OthersKeepBinding

-----------------------------------------------------------------------------
(***************************************************************************)
(* The active account and the state file, in every deployment.             *)
(***************************************************************************)

(* A step that parts the file from the pool: the removal of an account,    *)
(* which may shift the index, or a write of the file that failed, at the   *)
(* step or when the deadline it should have written was another.           *)
Parts ==
  \/ \E a \in Accounts : RemoveAccount(a)
  \/ StateFileFails /\ (UNCHANGED saved \/ WindowExpires)

(* Between a state and the next: a write leaves the file right, and a file *)
(* that was right stays so.                                                *)
Follows ==
  /\ saved' # saved /\ saved'.ahead => FileMatches'
  /\ FileMatches => FileMatches' \/ Parts

LEMMA RotateFollows ==
  ASSUME PoolOK, NEW index \in 0..(Len(clients) - 1), Rotate(index), clients' = clients
  PROVE  Follows
<1>1. activeIndex' = index /\ index # -1 /\ windowOpen' = TRUE
  BY DEF Rotate, PoolOK
<1>2. CASE saved' = [account |-> clients[index + 1], ahead |-> TRUE]
  <2>1. FileMatches'
    BY <1>1, <1>2 DEF FileMatches, ActiveAccount
  <2> QED
    BY <2>1 DEF Follows
<1>3. CASE StateFileFails /\ saved' = saved
  BY <1>3 DEF Follows, Parts
<1> QED
  BY <1>2, <1>3 DEF Rotate, Save

LEMMA SameFollows ==
  ASSUME PoolOK, UNCHANGED <<clients, active>>
  PROVE  Follows
BY DEF active, Follows, FileMatches, ActiveAccount

LEMMA SelectFollows ==
  ASSUME PoolOK, SomeUp, Select, clients' = clients
  PROVE  Follows
<1>1. CASE ActiveUsable
  BY <1>1, SameFollows DEF Select
<1>2. CASE ~ActiveUsable
  BY <1>2, NextUpFound, RotateFollows DEF Select
<1> QED
  BY <1>1, <1>2

(* The end of ClientPool.Init, which chooses an account again. *)
LEMMA FinishInitFollows ==
  ASSUME PoolOK, FinishInit
  PROVE  Follows
<1>0. clients' = clients
  BY DEF FinishInit
<1>1. CASE phase = "running" /\ UNCHANGED active
  BY <1>0, <1>1, SameFollows
<1>2. CASE /\ saved.ahead /\ Up(saved.account)
           /\ activeIndex' = Position(saved.account) - 1
           /\ windowOpen' = TRUE
           /\ saved' = saved
  <2> DEFINE a == saved.account
  <2>1. \E i \in 1..Len(clients) : clients[i] = a
    BY <1>2 DEF Up, InPool, ToSet, PoolOK
  <2>2. Position(a) \in 1..Len(clients) /\ clients[Position(a)] = a
    BY <2>1 DEF Position
  <2>3. Position(a) \in Int /\ activeIndex' + 1 = Position(a) /\ activeIndex' # -1
    BY <1>2, <2>2 DEF PoolOK
  <2>4. ActiveAccount' = a
    BY <1>0, <2>2, <2>3 DEF ActiveAccount
  <2>5. saved = [account |-> a, ahead |-> TRUE]
    BY <1>2 DEF PoolOK
  <2> HIDE DEF a
  <2>6. FileMatches'
    BY <1>2, <2>4, <2>5 DEF FileMatches
  <2> QED
    BY <2>6 DEF Follows
<1>3. CASE SomeUp /\ Rotate(Min({i \in 0..(Len(clients) - 1) : Up(clients[i + 1])}))
  <2> DEFINE S == {i \in 0..(Len(clients) - 1) : Up(clients[i + 1])}
  <2>1. PICK k \in 1..Len(clients) : Up(clients[k])
    BY <1>3 DEF PoolOK, SomeUp, ToSet
  <2>2. Len(clients) \in Nat
    BY DEF PoolOK
  <2>3. k - 1 \in S /\ S \in SUBSET Nat
    BY <2>1, <2>2
  <2>4. Rotate(Min(S))
    BY <1>3
  <2> HIDE DEF S
  <2>5. Min(S) \in S
    BY <2>3, LeastMember DEF Min
  <2>6. Min(S) \in 0..(Len(clients) - 1)
    BY <2>5 DEF S
  <2> QED
    BY <1>0, <2>4, <2>6, RotateFollows
<1>4. CASE activeIndex' = -1 /\ saved' = saved
  BY <1>4 DEF Follows, FileMatches
<1> QED
  BY <1>1, <1>2, <1>3, <1>4 DEF FinishInit

LEMMA ExpiryFollows ==
  ASSUME PoolOK, WindowExpires
  PROVE  Follows
<1>1. CASE windowOpen' = FALSE /\ saved' = [saved EXCEPT !.ahead = FALSE]
  <2>1. activeIndex' = activeIndex /\ clients' = clients
    BY DEF WindowExpires
  <2>2. saved' = [account |-> saved.account, ahead |-> FALSE]
    BY <1>1 DEF PoolOK
  <2>3. FileMatches /\ activeIndex # -1 => saved.account = ActiveAccount
    BY DEF FileMatches
  <2> QED
    BY <1>1, <2>1, <2>2, <2>3 DEF Follows, FileMatches, ActiveAccount
<1>2. CASE StateFileFails /\ (saved' = saved \/ saved' = [saved EXCEPT !.ahead = FALSE])
  <2>1. ~(saved' # saved /\ saved'.ahead)
    BY <1>2 DEF PoolOK
  <2> QED
    BY <1>2, <2>1 DEF Follows, Parts
<1> QED
  BY <1>1, <1>2 DEF WindowExpires

(* In every deployment the state file follows the router at every moment a *)
(* crash may come (saveActiveStateLocked): a write leaves there the active *)
(* account and its open window, whatever parted them before, and only a    *)
(* removal or a failed write takes away what a write left.                 *)
THEOREM FileFollows == Spec => [][Follows]_vars
<1>1. ASSUME RouterInv, [Next]_vars PROVE [Follows]_vars
  <2> USE <1>1 DEF RouterInv
  <2>1. ASSUME NEW r \in Requests, UseActive(r) \/ Reselect(r) PROVE Follows
    BY <2>1, SelectFollows DEF UseActive, Reselect
  <2>2. ASSUME NEW r \in Requests, Serve(r) \/ Stream(r), ~UseActive(r), ~Reselect(r)
        PROVE  Follows
    BY <2>2, SameFollows DEF Serve, Stream, ReadBinding, LookAndReturn, LookAndUnbind, LookAndBind,
       Unbind, Bind, Reuse, PoolEmpty, NoneUp, StillNoneUp, StreamMetadata, StreamText, Answer,
       CallFails, AuthError
  <2>3. ASSUME NEW a \in ToSet(Addable), AddAccount(a) PROVE Follows
    <3>1. activeIndex # -1 => clients'[activeIndex + 1] = clients[activeIndex + 1]
      BY <2>3 DEF AddAccount, PoolOK
    <3>2. activeIndex' = activeIndex /\ windowOpen' = windowOpen /\ saved' = saved
      BY <2>3 DEF AddAccount, active
    <3> QED
      BY <3>1, <3>2 DEF Follows, FileMatches, ActiveAccount
  <2>4. ASSUME NEW a \in Accounts, RemoveAccount(a) PROVE Follows
    BY <2>4 DEF RemoveAccount, Follows, Parts
  <2>5. CASE Restart
    BY <2>5 DEF Restart, Follows, FileMatches
  <2>6. CASE Environment
    BY <2>3, <2>4, <2>5, <2>6, FinishInitFollows, ExpiryFollows, SameFollows
       DEF Environment, ComesUp, GoesDown, Ages, Forget
  <2>7. ASSUME NEW r \in Requests, NEW c \in Convs \cup {NoConv},
               Begin(r, "lookup", c) \/ Begin(r, "send", c)
        PROVE  Follows
    BY <2>7, SameFollows DEF Begin
  <2>8. CASE UNCHANGED vars
    BY <2>8
  <2> QED
    BY <2>1, <2>2, <2>6, <2>7, <2>8 DEF Next
<1> QED
  BY <1>1, RouterInvHolds, PTL DEF Spec
=============================================================================

---------------------------- MODULE RequestProofs ----------------------------
(***************************************************************************)
(* Proofs about what a client request carries and what it leaves behind:   *)
(* its retry budget, for every number of goroutines and every argument,    *)
(* and its record in the ring buffer, which implements the list of the     *)
(* latest records for every capacity and every set of records.             *)
(***************************************************************************)
EXTENDS RequestLogger, RetryBudget, TLAPS

(* The remainder of a number below twice the divisor. *)
LEMMA ModTwice ==
  ASSUME NEW c \in Nat \ {0}, NEW x \in 0..(2 * c - 1)
  PROVE  x % c = IF x < c THEN x ELSE x - c
  OBVIOUS

(* The ring's indices stay in range. *)
THEOREM LoggerTypeCorrect == Spec => []TypeOK
<1> USE CapacityAssumption DEF TypeOK, Slots
<1>1. Init => TypeOK
  BY DEF Init
<1>2. TypeOK /\ [Next]_vars => TypeOK'
  <2> SUFFICES ASSUME TypeOK, [Next]_vars PROVE TypeOK'
    OBVIOUS
  <2>1. ASSUME NEW r \in Records, LogRequest(r) PROVE TypeOK'
    <3>1. (head + 1) % Capacity \in Slots
      BY ModTwice
    <3> QED
      BY <2>1, <3>1 DEF LogRequest
  <2>2. CASE Clear
    BY <2>2 DEF Clear
  <2>3. CASE UNCHANGED vars
    BY <2>3 DEF vars
  <2> QED
    BY <2>1, <2>2, <2>3 DEF Next
<1> QED
  BY <1>1, <1>2, PTL DEF Spec

(* Walking back j + 1 slots from slot h of c, cyclically. *)
LEMMA Back ==
  ASSUME NEW c \in Nat \ {0}, NEW h \in 0..(c - 1), NEW j \in 0..(c - 1)
  PROVE  (h - 1 - j + c) % c = IF j < h THEN h - 1 - j ELSE h - 1 - j + c
<1> DEFINE x == h - 1 - j + c
<1>1. x \in 0..(2 * c - 1)
  OBVIOUS
<1> HIDE DEF x
<1>2. x % c = IF x < c THEN x ELSE x - c
  BY <1>1, ModTwice
<1> QED
  BY <1>2 DEF x

(* The list of all records, as a function of its length. *)
LEMMA AllRecent ==
  ASSUME TypeOK
  PROVE  GetRecent(size) = [i \in 1..size |-> records[Slot(i - 1)]]
  BY CapacityAssumption DEF TypeOK, GetRecent

(* LogRequest puts its record in front of the list and drops the oldest    *)
(* one when the ring is full.                                              *)
LEMMA LogImplements ==
  ASSUME TypeOK, TypeOK', NEW r \in Records, LogRequest(r)
  PROVE  Latest!Log(r)
<1> DEFINE n == Latest!Shorter(size + 1, Capacity)
<1>0. /\ size \in 0..Capacity /\ head \in Slots /\ Capacity \in Nat \ {0}
      /\ head' \in Slots /\ records \in [Slots -> Records \cup {NoRecord}]
  BY CapacityAssumption DEF TypeOK
<1>1. n = size' /\ size' \in 1..Capacity
  BY <1>0 DEF LogRequest, Latest!Shorter
<1>2. head' = IF head + 1 < Capacity THEN head + 1 ELSE 0
  <2> DEFINE x == head + 1
  <2>1. x \in 0..(2 * Capacity - 1) /\ x <= Capacity
    BY <1>0 DEF Slots
  <2> HIDE DEF x
  <2>2. x % Capacity = IF x < Capacity THEN x ELSE x - Capacity
    BY <2>1, <1>0, ModTwice
  <2>3. head' = x % Capacity
    BY DEF LogRequest, x
  <2> QED
    BY <2>1, <2>2, <2>3, <1>0 DEF x
<1>3. ASSUME NEW i \in 1..n
      PROVE  records'[Slot(i - 1)'] = IF i = 1 THEN r ELSE GetRecent(size)[i - 1]
  <2>1. Slot(i - 1)' = IF i - 1 < head' THEN head' - 1 - (i - 1) ELSE head' - 1 - (i - 1) + Capacity
    <3> DEFINE j == i - 1
    <3>1. j \in 0..(Capacity - 1) /\ head' \in 0..(Capacity - 1) /\ Capacity \in Nat \ {0}
      BY <1>0, <1>1 DEF Slots
    <3>2. Slot(j)' = (head' - 1 - j + Capacity) % Capacity
      BY DEF Slot
    <3> HIDE DEF j
    <3>3. (head' - 1 - j + Capacity) % Capacity
            = IF j < head' THEN head' - 1 - j ELSE head' - 1 - j + Capacity
      BY <3>1, Back
    <3> QED
      BY <3>2, <3>3 DEF j
  <2>2. CASE i = 1
    BY <2>1, <2>2, <1>0, <1>1, <1>2 DEF LogRequest, Slots
  <2>3. CASE i # 1
    <3>1. i - 1 \in 1..size /\ i - 2 \in 0..(Capacity - 1)
      BY <2>3, <1>0, <1>1 DEF LogRequest
    <3>2. Slot(i - 2) = IF i - 2 < head THEN head - 1 - (i - 2) ELSE head - 1 - (i - 2) + Capacity
      BY <3>1, <1>0, Back DEF Slot, Slots
    <3>3. Slot(i - 1)' = Slot(i - 2) /\ Slot(i - 2) # head /\ Slot(i - 2) \in Slots
      BY <3>1, <3>2, <2>1, <1>0, <1>1, <1>2 DEF Slots
    <3>4. GetRecent(size)[i - 1] = records[Slot(i - 2)]
      <4>1. GetRecent(size)[i - 1] = records[Slot((i - 1) - 1)]
        BY <3>1, AllRecent
      <4>2. (i - 1) - 1 = i - 2
        BY <3>1
      <4> QED
        BY <4>1, <4>2
    <3> QED
      BY <2>3, <3>3, <3>4, <1>0 DEF LogRequest
  <2> QED
    BY <2>2, <2>3
<1>4. GetRecent(size)' = [i \in 1..n |-> records'[Slot(i - 1)']]
  <2>1. GetRecent(size)' = [i \in 1..size' |-> records'[Slot(i - 1)']]
    BY <1>1, <1>0 DEF GetRecent
  <2> QED
    BY <2>1, <1>1
<1>5. Len(GetRecent(size)) = size
  BY AllRecent, <1>0
<1>6. GetRecent(size)' = [i \in 1..n |-> IF i = 1 THEN r ELSE GetRecent(size)[i - 1]]
  BY <1>3, <1>4
<1> QED
  BY <1>5, <1>6 DEF Latest!Log

(* Clear empties the list. *)
LEMMA ClearImplements ==
  ASSUME TypeOK, Clear
  PROVE  Latest!Clear
<1>1. GetRecent(size)' = [i \in 1..0 |-> records'[Slot(i - 1)']]
  BY DEF Clear, GetRecent
<1> QED
  BY <1>1 DEF Latest!Clear

(* The ring buffer implements the list of the latest records: what the     *)
(* console is shown is what was logged last, for every capacity            *)
(* (NewRequestLogger, LogRequest, Clear, GetRecent).                       *)
THEOREM LoggerImplements == Spec => Implements
<1>1. Init => Latest!Init
  BY CapacityAssumption DEF Init, Latest!Init, GetRecent
<1>2. TypeOK /\ TypeOK' /\ [Next]_vars => [Latest!Next]_(GetRecent(size))
  <2> SUFFICES ASSUME TypeOK, TypeOK', [Next]_vars
               PROVE  Latest!Next \/ GetRecent(size)' = GetRecent(size)
    OBVIOUS
  <2>1. ASSUME NEW r \in Records, LogRequest(r) PROVE Latest!Next
    BY <2>1, LogImplements DEF Latest!Next
  <2>2. CASE Clear
    BY <2>2, ClearImplements DEF Latest!Next
  <2>3. CASE UNCHANGED vars
    BY <2>3 DEF vars, GetRecent, Slot
  <2> QED
    BY <2>1, <2>2, <2>3 DEF Next
<1> QED
  BY <1>1, <1>2, LoggerTypeCorrect, PTL DEF Spec, Implements, Latest!Spec

-----------------------------------------------------------------------------
(***************************************************************************)
(* The retry budget.  Neither its TypeOK nor NeverOverspent is inductive   *)
(* alone: what was granted and what remains add up to the budget, only a   *)
(* budget nothing was granted from is negative, and a goroutine about to   *)
(* swap holds a positive value.                                            *)
(***************************************************************************)
Accounted == granted + remaining = Budget /\ (granted = 0 \/ remaining >= 0)

Positive == \A g \in Goroutines : pc[g] = "swap" => current[g] > 0

IInv == BudgetTypeOK /\ Accounted /\ Positive

(* A number is no smaller than what its conversion to int32 leaves.        *)
LEMMA BudgetWithinAsked == Budget \in Int /\ Asked \in Nat /\ Budget <= Asked
<1>1. Asked \in Nat /\ Half \in Nat \ {0}
  BY AttemptsAssumption DEF Asked
<1>2. ASSUME NEW x \in Nat, NEW m \in Nat \ {0} PROVE x % m \in Int /\ x % m <= x
  <2>1. x % m \in 0..(m - 1)
    OBVIOUS
  <2>2. CASE x < m
    BY <2>2
  <2>3. CASE x >= m
    BY <2>1, <2>3
  <2> QED
    BY <2>1, <2>2, <2>3
<1>3. Asked + Half \in Nat /\ 2 * Half \in Nat \ {0}
  BY <1>1
<1>4. (Asked + Half) % (2 * Half) \in Int /\ (Asked + Half) % (2 * Half) <= Asked + Half
  BY <1>2, <1>3
<1> QED
  BY <1>1, <1>4 DEF Budget

(* ContextWithRetryBudget establishes the inductive invariant. *)
LEMMA InvInit == BudgetInit => IInv
  BY BudgetWithinAsked DEF BudgetInit, IInv, BudgetTypeOK, Accounted, Positive

(* Every step of every goroutine keeps it. *)
LEMMA InvStep ==
  ASSUME IInv, [BudgetNext]_budgetVars
  PROVE  IInv'
<1> USE BudgetWithinAsked DEF IInv, BudgetTypeOK, Accounted, Positive, Goto
<1>1. ASSUME NEW g \in Goroutines, Call(g) PROVE IInv'
  BY <1>1 DEF Call
<1>2. ASSUME NEW g \in Goroutines, Exhausted(g) PROVE IInv'
  BY <1>2 DEF Exhausted
<1>3. ASSUME NEW g \in Goroutines, Load(g) PROVE IInv'
  BY <1>3 DEF Load
<1>4. ASSUME NEW g \in Goroutines, Swap(g) PROVE IInv'
  BY <1>4 DEF Swap
<1>5. ASSUME NEW g \in Goroutines, Lost(g) PROVE IInv'
  BY <1>5 DEF Lost
<1>6. CASE UNCHANGED budgetVars
  BY <1>6 DEF budgetVars
<1> QED
  BY <1>1, <1>2, <1>3, <1>4, <1>5, <1>6 DEF BudgetNext, Loop

(* The inductive invariant holds in every reachable state. *)
LEMMA InvHolds == BudgetSpec => []IInv
<1>1. BudgetInit => IInv
  BY InvInit
<1>2. IInv /\ [BudgetNext]_budgetVars => IInv'
  BY InvStep
<1> QED
  BY <1>1, <1>2, PTL DEF BudgetSpec

(* A request makes no more upstream attempts than were asked for, whatever *)
(* it and the number of goroutines that draw are (ConsumeRetryBudget).     *)
THEOREM NeverOverspentHolds == BudgetSpec => []NeverOverspent
<1>1. IInv => NeverOverspent
  BY BudgetWithinAsked DEF IInv, BudgetTypeOK, Accounted, NeverOverspent
<1> QED
  BY <1>1, InvHolds, PTL

(* A call is refused only once the whole budget was granted. *)
THEOREM RefusedOnlyWhenSpentHolds == BudgetSpec => RefusedOnlyWhenSpent
<1> DEFINE Refusal ==
      \A g \in Goroutines : pc[g] = "load" /\ pc'[g] = "idle" => granted >= Budget
<1>1. ASSUME IInv, [BudgetNext]_budgetVars PROVE [Refusal]_budgetVars
  <2> SUFFICES ASSUME NEW h \in Goroutines, pc[h] = "load", pc'[h] = "idle",
                      budgetVars' # budgetVars
               PROVE  granted >= Budget
    OBVIOUS
  <2>1. PICK g \in Goroutines : Call(g) \/ Loop(g)
    BY <1>1 DEF BudgetNext
  <2>2. g = h /\ Exhausted(h)
    BY <1>1, <2>1 DEF Loop, Call, Exhausted, Load, Swap,
                      Lost, Goto, IInv, BudgetTypeOK
  <2> QED
    BY <1>1, <2>2, BudgetWithinAsked DEF Exhausted, IInv, BudgetTypeOK, Accounted
<1> QED
  BY <1>1, InvHolds, PTL DEF BudgetSpec, RefusedOnlyWhenSpent
=============================================================================

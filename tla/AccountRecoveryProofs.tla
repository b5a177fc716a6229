----------------------- MODULE AccountRecoveryProofs -----------------------
(***************************************************************************)
(* Theorems about AccountRecovery, for any set of goroutines, any set of   *)
(* browser sessions and any choice of operations.                          *)
(***************************************************************************)
EXTENDS AccountRecovery, TLAPS

(* What every step of the code is: an operation that starts, or the next   *)
(* step of a task that has one.                                            *)
LEMMA TypeInit == Init => TypeOK
<1> SUFFICES ASSUME Init PROVE TypeOK
  OBVIOUS
<1>1. op \in [Tasks -> AllOperations \cup {"none", "recover"}]
  BY DEF Init
<1>2. pc \in [Tasks -> Labels]
  BY DEF Init, Labels
<1>3. goal \in [Tasks -> States]
  BY DEF Init, States
<1>4. seen \in [Tasks -> Sessions \cup {NoSession}]
  BY DEF Init
<1>5. rotated \in [Tasks -> BOOLEAN] /\ external \in [Tasks -> BOOLEAN]
  BY DEF Init
<1>6. healthState \in States
  BY DEF Init, States
<1> QED
  BY <1>1, <1>2, <1>3, <1>4, <1>5, <1>6 DEF Init, TypeOK

LEMMA TypeBegin ==
  ASSUME TypeOK, NEW t \in Tasks, Begin(t)
  PROVE  TypeOK'
<1> USE OperationsAssumption DEF TypeOK, Start, Goto, States, Labels, account, life, locals
<1>1. CASE StartInit(t)
  BY <1>1 DEF StartInit, AllOperations
<1>2. ASSUME NEW o \in {"update", "refresh"}, StartAdmin(t, o) PROVE TypeOK'
  BY <1>2 DEF StartAdmin, AllOperations
<1>3. CASE StartRequest(t)
  BY <1>3 DEF StartRequest, AllOperations
<1>4. CASE StartExternal(t)
  BY <1>4 DEF StartExternal, AllOperations
<1>5. CASE StartTest(t)
  BY <1>5 DEF StartTest, AllOperations
<1>6. CASE StartAuto(t)
  BY <1>6 DEF StartAuto, AllOperations
<1>7. CASE StartRemove(t)
  BY <1>7 DEF StartRemove, AllOperations
<1> QED
  BY <1>1, <1>2, <1>3, <1>4, <1>5, <1>6, <1>7 DEF Begin

LEMMA TypeStep ==
  ASSUME TypeOK, NEW t \in Tasks, Step(t)
  PROVE  TypeOK'
<1> USE DEF TypeOK, Goto, Publish, Finish, Fail, FailureStates, Succeed, WriteHealthy,
            AfterRefreshing, Terminal, States, Labels, account, life, locals
<1>1. CASE Acquire(t)
  BY <1>1 DEF Acquire
<1>2. CASE Busy(t)
  BY <1>2 DEF Busy
<1>3. CASE WaitReturns(t)
  BY <1>3 DEF WaitReturns
<1>4. CASE WaitTimeout(t)
  BY <1>4 DEF WaitTimeout
<1>5. CASE End(t)
  BY <1>5 DEF End
<1>6. CASE PreHealth(t)
  BY <1>6 DEF PreHealth
<1>7. CASE SetState(t)
  BY <1>7 DEF SetState
<1>8. CASE SetHealth(t)
  BY <1>8 DEF SetHealth
<1>9. CASE StageRejected(t)
  BY <1>9 DEF StageRejected
<1>10. CASE StagePair(t)
  BY <1>10 DEF StagePair
<1>11. CASE StageClear(t)
  BY <1>11 DEF StageClear
<1>12. CASE StageMark(t)
  BY <1>12 DEF StageMark
<1>13. CASE FetchStart(t)
  BY <1>13 DEF FetchStart
<1>14. CASE FetchOk(t)
  BY <1>14 DEF FetchOk
<1>15. CASE FetchFail(t)
  BY <1>15 DEF FetchFail
<1>16. CASE RotateOk(t)
  BY <1>16 DEF RotateOk
<1>17. CASE RotateFail(t)
  BY <1>17 DEF RotateFail
<1>18. CASE Check(t)
  BY <1>18 DEF Check
<1>19. CASE Reprobe(t)
  BY <1>19 DEF Reprobe
<1>20. CASE ProbeOk(t)
  BY <1>20 DEF ProbeOk
<1>21. CASE FirstProbeFails(t)
  BY <1>21 DEF FirstProbeFails
<1>22. CASE ProbeFails(t)
  BY <1>22 DEF ProbeFails
<1>23. CASE CallReturns(t)
  BY <1>23 DEF CallReturns
<1>24. CASE CallAuthError(t)
  BY <1>24 DEF CallAuthError
<1>25. CASE AsyncDecide(t)
  BY <1>25 DEF AsyncDecide
<1>26. CASE Spawn(t)
  BY <1>26 DEF Spawn
<1>27. CASE SpawnBusy(t)
  BY <1>27 DEF SpawnBusy
<1>28. CASE WorkerExits(t)
  BY <1>28 DEF WorkerExits
<1>29. CASE WorkerFails(t)
  BY <1>29 DEF WorkerFails
<1>30. CASE Settle(t)
  BY <1>30 DEF Settle
<1> QED
  BY <1>1, <1>2, <1>3, <1>4, <1>5, <1>6, <1>7, <1>8, <1>9, <1>10, <1>11, <1>12, <1>13, <1>14, <1>15, <1>16, <1>17, <1>18, <1>19, <1>20, <1>21, <1>22, <1>23, <1>24, <1>25, <1>26, <1>27, <1>28, <1>29, <1>30 DEF Step, Progress

(***************************************************************************)
(* Type correctness.                                                       *)
(***************************************************************************)
THEOREM TypeCorrect == Spec => []TypeOK
<1>1. TypeOK /\ [Next]_vars => TypeOK'
  <2> SUFFICES ASSUME TypeOK, [Next]_vars PROVE TypeOK'
    OBVIOUS
  <2>1. CASE Next
    BY <2>1, TypeBegin, TypeStep DEF Next
  <2>2. CASE UNCHANGED vars
    BY <2>2 DEF TypeOK, vars, account, life, locals
  <2> QED
    BY <2>1, <2>2
<1> QED
  BY <1>1, TypeInit, PTL DEF Spec

-----------------------------------------------------------------------------
(***************************************************************************)
(* Control: only operations that go through the guard reach beginAccount-  *)
(* Refresh, and only a data-plane request calls refreshClientAsync.        *)
(***************************************************************************)
Control ==
  \A t \in Tasks :
    /\ pc[t] = "begin" => op[t] \in Guarded
    /\ pc[t] \in {"call", "async", "spawn"} => op[t] = "request"

LEMMA ControlBegin ==
  ASSUME TypeOK, Control, NEW t \in Tasks, Begin(t)
  PROVE  Control'
<1> USE DEF TypeOK, Control, Start, Goto, Guarded
<1>1. CASE StartInit(t)
  BY <1>1 DEF StartInit
<1>2. ASSUME NEW o \in {"update", "refresh"}, StartAdmin(t, o) PROVE Control'
  BY <1>2 DEF StartAdmin
<1>3. CASE StartRequest(t)
  BY <1>3 DEF StartRequest
<1>4. CASE StartExternal(t)
  BY <1>4 DEF StartExternal
<1>5. CASE StartTest(t)
  BY <1>5 DEF StartTest
<1>6. CASE StartAuto(t)
  BY <1>6 DEF StartAuto
<1>7. CASE StartRemove(t)
  BY <1>7 DEF StartRemove
<1> QED
  BY <1>1, <1>2, <1>3, <1>4, <1>5, <1>6, <1>7 DEF Begin

LEMMA ControlStep ==
  ASSUME TypeOK, Control, NEW t \in Tasks, Step(t)
  PROVE  Control'
<1> USE DEF TypeOK, Control, Goto, Publish, Finish, Fail, Succeed, Guarded
<1>1. CASE Acquire(t)
  BY <1>1 DEF Acquire
<1>2. CASE Busy(t)
  BY <1>2 DEF Busy
<1>3. CASE WaitReturns(t)
  BY <1>3 DEF WaitReturns
<1>4. CASE WaitTimeout(t)
  BY <1>4 DEF WaitTimeout
<1>5. CASE End(t)
  BY <1>5 DEF End
<1>6. CASE PreHealth(t)
  BY <1>6 DEF PreHealth
<1>7. CASE SetState(t)
  BY <1>7 DEF SetState, AfterRefreshing
<1>8. CASE SetHealth(t)
  BY <1>8 DEF SetHealth
<1>9. CASE StageRejected(t)
  BY <1>9 DEF StageRejected
<1>10. CASE StagePair(t)
  BY <1>10 DEF StagePair
<1>11. CASE StageClear(t)
  BY <1>11 DEF StageClear
<1>12. CASE StageMark(t)
  BY <1>12 DEF StageMark
<1>13. CASE FetchStart(t)
  BY <1>13 DEF FetchStart
<1>14. CASE FetchOk(t)
  BY <1>14 DEF FetchOk
<1>15. CASE FetchFail(t)
  BY <1>15 DEF FetchFail
<1>16. CASE RotateOk(t)
  BY <1>16 DEF RotateOk
<1>17. CASE RotateFail(t)
  BY <1>17 DEF RotateFail
<1>18. CASE Check(t)
  BY <1>18 DEF Check
<1>19. CASE Reprobe(t)
  BY <1>19 DEF Reprobe
<1>20. CASE ProbeOk(t)
  BY <1>20 DEF ProbeOk
<1>21. CASE FirstProbeFails(t)
  BY <1>21 DEF FirstProbeFails
<1>22. CASE ProbeFails(t)
  BY <1>22 DEF ProbeFails
<1>23. CASE CallReturns(t)
  BY <1>23 DEF CallReturns
<1>24. CASE CallAuthError(t)
  BY <1>24 DEF CallAuthError
<1>25. CASE AsyncDecide(t)
  BY <1>25 DEF AsyncDecide
<1>26. CASE Spawn(t)
  BY <1>26 DEF Spawn
<1>27. CASE SpawnBusy(t)
  BY <1>27 DEF SpawnBusy
<1>28. CASE WorkerExits(t)
  BY <1>28 DEF WorkerExits
<1>29. CASE WorkerFails(t)
  BY <1>29 DEF WorkerFails
<1>30. CASE Settle(t)
  BY <1>30 DEF Settle
<1> QED
  BY <1>1, <1>2, <1>3, <1>4, <1>5, <1>6, <1>7, <1>8, <1>9, <1>10, <1>11, <1>12, <1>13, <1>14, <1>15, <1>16, <1>17, <1>18, <1>19, <1>20, <1>21, <1>22, <1>23, <1>24, <1>25, <1>26, <1>27, <1>28, <1>29, <1>30 DEF Step, Progress

THEOREM ControlHolds == Spec => []Control
<1>1. Init => Control
  BY DEF Init, Control
<1>2. TypeOK /\ Control /\ [Next]_vars => Control'
  <2> SUFFICES ASSUME TypeOK, Control, [Next]_vars PROVE Control'
    OBVIOUS
  <2>1. CASE Next
    BY <2>1, ControlBegin, ControlStep DEF Next
  <2>2. CASE UNCHANGED vars
    BY <2>2 DEF Control, vars, account, life, locals
  <2> QED
    BY <2>1, <2>2
<1> QED
  BY <1>1, <1>2, TypeCorrect, PTL DEF Spec

-----------------------------------------------------------------------------
(***************************************************************************)
(* Single flight.  Most steps neither take nor give back the guard.        *)
(***************************************************************************)
LEMMA FlightFrame ==
  ASSUME SingleFlight, refreshing' = refreshing,
         \A u \in Tasks : Holds(u)' <=> Holds(u)
  PROVE  SingleFlight'
  BY DEF SingleFlight

(* Nobody holds a free guard; whoever takes it is alone. *)
LEMMA FlightTake ==
  ASSUME SingleFlight, ~refreshing, refreshing' = TRUE, NEW t \in Tasks, Holds(t)',
         \A u \in Tasks \ {t} : Holds(u)' <=> Holds(u)
  PROVE  SingleFlight'
  BY DEF SingleFlight

(* The holder gives the guard back. *)
LEMMA FlightRelease ==
  ASSUME SingleFlight, refreshing' = FALSE, NEW t \in Tasks, Holds(t), ~Holds(t)',
         \A u \in Tasks \ {t} : Holds(u)' <=> Holds(u)
  PROVE  SingleFlight'
  BY DEF SingleFlight

LEMMA FlightBegin ==
  ASSUME TypeOK, SingleFlight, NEW t \in Tasks, Begin(t)
  PROVE  SingleFlight'
<1>1. refreshing' = refreshing
  BY DEF Begin, StartInit, StartAdmin, StartRequest, StartExternal, StartTest, StartAuto,
         StartRemove, Start
<1>2. \A u \in Tasks : Holds(u)' <=> Holds(u)
  <2> USE DEF TypeOK, Start, Goto, Holds, Guarded
  <2>1. CASE StartInit(t)
    BY <2>1 DEF StartInit
  <2>2. ASSUME NEW o \in {"update", "refresh"}, StartAdmin(t, o)
        PROVE  \A u \in Tasks : Holds(u)' <=> Holds(u)
    BY <2>2 DEF StartAdmin
  <2>3. CASE StartRequest(t)
    BY <2>3 DEF StartRequest
  <2>4. CASE StartExternal(t)
    BY <2>4 DEF StartExternal
  <2>5. CASE StartTest(t)
    BY <2>5 DEF StartTest
  <2>6. CASE StartAuto(t)
    BY <2>6 DEF StartAuto
  <2>7. CASE StartRemove(t)
    BY <2>7 DEF StartRemove
  <2> QED
    BY <2>1, <2>2, <2>3, <2>4, <2>5, <2>6, <2>7 DEF Begin
<1> QED
  BY <1>1, <1>2, FlightFrame

LEMMA FlightStep ==
  ASSUME TypeOK, Control, SingleFlight, NEW t \in Tasks, Step(t)
  PROVE  SingleFlight'
<1> USE DEF TypeOK, Goto, Publish, Finish, Fail, Succeed, Holds, Guarded, Labels
<1>1. CASE Acquire(t)
  <2>1. ~refreshing /\ refreshing' = TRUE /\ Holds(t)'
    BY <1>1 DEF Acquire, Control, AllOperations
  <2>2. \A u \in Tasks \ {t} : Holds(u)' <=> Holds(u)
    BY <1>1 DEF Acquire, Control
  <2> QED
    BY <2>1, <2>2, FlightTake
<1>2. CASE Busy(t)
  <2>1. refreshing' = refreshing
    BY <1>2 DEF Busy
  <2>2. \A u \in Tasks : Holds(u)' <=> Holds(u)
    BY <1>2 DEF Busy
  <2> QED
    BY <2>1, <2>2, FlightFrame
<1>3. CASE WaitReturns(t)
  <2>1. refreshing' = refreshing
    BY <1>3 DEF WaitReturns
  <2>2. \A u \in Tasks : Holds(u)' <=> Holds(u)
    BY <1>3 DEF WaitReturns
  <2> QED
    BY <2>1, <2>2, FlightFrame
<1>4. CASE WaitTimeout(t)
  <2>1. refreshing' = refreshing
    BY <1>4 DEF WaitTimeout
  <2>2. \A u \in Tasks : Holds(u)' <=> Holds(u)
    BY <1>4 DEF WaitTimeout
  <2> QED
    BY <2>1, <2>2, FlightFrame
<1>5. CASE End(t)
  <2>1. \A u \in Tasks \ {t} : Holds(u)' <=> Holds(u)
    BY <1>5 DEF End
  <2>2. ~Holds(t)'
    BY <1>5 DEF End
  <2>3. CASE op[t] \in Guarded
    BY <1>5, <2>1, <2>2, <2>3, FlightRelease DEF End
  <2>4. CASE op[t] \notin Guarded
    BY <1>5, <2>1, <2>2, <2>4, FlightFrame DEF End
  <2> QED
    BY <2>3, <2>4
<1>6. CASE PreHealth(t)
  <2>1. refreshing' = refreshing
    BY <1>6 DEF PreHealth
  <2>2. \A u \in Tasks : Holds(u)' <=> Holds(u)
    BY <1>6 DEF PreHealth
  <2> QED
    BY <2>1, <2>2, FlightFrame
<1>7. CASE SetState(t)
  <2>1. refreshing' = refreshing
    BY <1>7 DEF SetState
  <2>2. \A u \in Tasks : Holds(u)' <=> Holds(u)
    BY <1>7 DEF SetState, AfterRefreshing
  <2> QED
    BY <2>1, <2>2, FlightFrame
<1>8. CASE SetHealth(t)
  <2>1. refreshing' = refreshing
    BY <1>8 DEF SetHealth
  <2>2. \A u \in Tasks : Holds(u)' <=> Holds(u)
    BY <1>8 DEF SetHealth
  <2> QED
    BY <2>1, <2>2, FlightFrame
<1>9. CASE StageRejected(t)
  <2>1. refreshing' = refreshing
    BY <1>9 DEF StageRejected
  <2>2. \A u \in Tasks : Holds(u)' <=> Holds(u)
    BY <1>9 DEF StageRejected
  <2> QED
    BY <2>1, <2>2, FlightFrame
<1>10. CASE StagePair(t)
  <2>1. refreshing' = refreshing
    BY <1>10 DEF StagePair
  <2>2. \A u \in Tasks : Holds(u)' <=> Holds(u)
    BY <1>10 DEF StagePair
  <2> QED
    BY <2>1, <2>2, FlightFrame
<1>11. CASE StageClear(t)
  <2>1. refreshing' = refreshing
    BY <1>11 DEF StageClear
  <2>2. \A u \in Tasks : Holds(u)' <=> Holds(u)
    BY <1>11 DEF StageClear
  <2> QED
    BY <2>1, <2>2, FlightFrame
<1>12. CASE StageMark(t)
  <2>1. refreshing' = refreshing
    BY <1>12 DEF StageMark
  <2>2. \A u \in Tasks : Holds(u)' <=> Holds(u)
    BY <1>12 DEF StageMark
  <2> QED
    BY <2>1, <2>2, FlightFrame
<1>13. CASE FetchStart(t)
  <2>1. refreshing' = refreshing
    BY <1>13 DEF FetchStart
  <2>2. \A u \in Tasks : Holds(u)' <=> Holds(u)
    BY <1>13 DEF FetchStart
  <2> QED
    BY <2>1, <2>2, FlightFrame
<1>14. CASE FetchOk(t)
  <2>1. refreshing' = refreshing
    BY <1>14 DEF FetchOk
  <2>2. \A u \in Tasks : Holds(u)' <=> Holds(u)
    BY <1>14 DEF FetchOk
  <2> QED
    BY <2>1, <2>2, FlightFrame
<1>15. CASE FetchFail(t)
  <2>1. refreshing' = refreshing
    BY <1>15 DEF FetchFail
  <2>2. \A u \in Tasks : Holds(u)' <=> Holds(u)
    BY <1>15 DEF FetchFail
  <2> QED
    BY <2>1, <2>2, FlightFrame
<1>16. CASE RotateOk(t)
  <2>1. refreshing' = refreshing
    BY <1>16 DEF RotateOk
  <2>2. \A u \in Tasks : Holds(u)' <=> Holds(u)
    BY <1>16 DEF RotateOk
  <2> QED
    BY <2>1, <2>2, FlightFrame
<1>17. CASE RotateFail(t)
  <2>1. refreshing' = refreshing
    BY <1>17 DEF RotateFail
  <2>2. \A u \in Tasks : Holds(u)' <=> Holds(u)
    BY <1>17 DEF RotateFail
  <2> QED
    BY <2>1, <2>2, FlightFrame
<1>18. CASE Check(t)
  <2>1. refreshing' = refreshing
    BY <1>18 DEF Check
  <2>2. \A u \in Tasks : Holds(u)' <=> Holds(u)
    BY <1>18 DEF Check
  <2> QED
    BY <2>1, <2>2, FlightFrame
<1>19. CASE Reprobe(t)
  <2>1. refreshing' = refreshing
    BY <1>19 DEF Reprobe
  <2>2. \A u \in Tasks : Holds(u)' <=> Holds(u)
    BY <1>19 DEF Reprobe
  <2> QED
    BY <2>1, <2>2, FlightFrame
<1>20. CASE ProbeOk(t)
  <2>1. refreshing' = refreshing
    BY <1>20 DEF ProbeOk
  <2>2. \A u \in Tasks : Holds(u)' <=> Holds(u)
    BY <1>20 DEF ProbeOk
  <2> QED
    BY <2>1, <2>2, FlightFrame
<1>21. CASE FirstProbeFails(t)
  <2>1. refreshing' = refreshing
    BY <1>21 DEF FirstProbeFails
  <2>2. \A u \in Tasks : Holds(u)' <=> Holds(u)
    BY <1>21 DEF FirstProbeFails
  <2> QED
    BY <2>1, <2>2, FlightFrame
<1>22. CASE ProbeFails(t)
  <2>1. refreshing' = refreshing
    BY <1>22 DEF ProbeFails
  <2>2. \A u \in Tasks : Holds(u)' <=> Holds(u)
    BY <1>22 DEF ProbeFails
  <2> QED
    BY <2>1, <2>2, FlightFrame
<1>23. CASE CallReturns(t)
  <2>1. refreshing' = refreshing
    BY <1>23 DEF CallReturns, Control
  <2>2. \A u \in Tasks : Holds(u)' <=> Holds(u)
    BY <1>23 DEF CallReturns, Control
  <2> QED
    BY <2>1, <2>2, FlightFrame
<1>24. CASE CallAuthError(t)
  <2>1. refreshing' = refreshing
    BY <1>24 DEF CallAuthError
  <2>2. \A u \in Tasks : Holds(u)' <=> Holds(u)
    BY <1>24 DEF CallAuthError
  <2> QED
    BY <2>1, <2>2, FlightFrame
<1>25. CASE AsyncDecide(t)
  <2>1. refreshing' = refreshing
    BY <1>25 DEF AsyncDecide
  <2>2. \A u \in Tasks : Holds(u)' <=> Holds(u)
    BY <1>25 DEF AsyncDecide
  <2> QED
    BY <2>1, <2>2, FlightFrame
<1>26. CASE Spawn(t)
  <2>1. ~refreshing /\ refreshing' = TRUE /\ Holds(t)'
    BY <1>26 DEF Spawn, AllOperations
  <2>2. \A u \in Tasks \ {t} : Holds(u)' <=> Holds(u)
    BY <1>26 DEF Spawn
  <2> QED
    BY <2>1, <2>2, FlightTake
<1>27. CASE SpawnBusy(t)
  <2>1. refreshing' = refreshing
    BY <1>27 DEF SpawnBusy, Control
  <2>2. \A u \in Tasks : Holds(u)' <=> Holds(u)
    BY <1>27 DEF SpawnBusy, Control
  <2> QED
    BY <2>1, <2>2, FlightFrame
<1>28. CASE WorkerExits(t)
  <2>1. refreshing' = refreshing
    BY <1>28 DEF WorkerExits
  <2>2. \A u \in Tasks : Holds(u)' <=> Holds(u)
    BY <1>28 DEF WorkerExits
  <2> QED
    BY <2>1, <2>2, FlightFrame
<1>29. CASE WorkerFails(t)
  <2>1. refreshing' = refreshing
    BY <1>29 DEF WorkerFails
  <2>2. \A u \in Tasks : Holds(u)' <=> Holds(u)
    BY <1>29 DEF WorkerFails
  <2> QED
    BY <2>1, <2>2, FlightFrame
<1>30. CASE Settle(t)
  <2>1. refreshing' = refreshing
    BY <1>30 DEF Settle
  <2>2. \A u \in Tasks : Holds(u)' <=> Holds(u)
    BY <1>30 DEF Settle
  <2> QED
    BY <2>1, <2>2, FlightFrame
<1> QED
  BY <1>1, <1>2, <1>3, <1>4, <1>5, <1>6, <1>7, <1>8, <1>9, <1>10, <1>11, <1>12, <1>13, <1>14, <1>15, <1>16, <1>17, <1>18, <1>19, <1>20, <1>21, <1>22, <1>23, <1>24, <1>25, <1>26, <1>27, <1>28, <1>29, <1>30 DEF Step, Progress

(***************************************************************************)
(* Two recoveries of one account never overlap and the guard never leaks.  *)
(***************************************************************************)
THEOREM SingleFlightHolds == Spec => []SingleFlight
<1>1. Init => SingleFlight
  BY DEF Init, SingleFlight, Holds
<1>2. TypeOK /\ Control /\ SingleFlight /\ [Next]_vars => SingleFlight'
  <2> SUFFICES ASSUME TypeOK, Control, SingleFlight, [Next]_vars PROVE SingleFlight'
    OBVIOUS
  <2>1. CASE Next
    BY <2>1, FlightBegin, FlightStep DEF Next
  <2>2. CASE UNCHANGED vars
    BY <2>2 DEF SingleFlight, Holds, vars, account, life, locals
  <2> QED
    BY <2>1, <2>2
<1> QED
  BY <1>1, <1>2, TypeCorrect, ControlHolds, PTL DEF Spec

-----------------------------------------------------------------------------
(***************************************************************************)
(* Where each operation may stand, what it is publishing there, and that a *)
(* fetch under the guard was sent with the pair that is stored: whoever    *)
(* stores another one holds the guard.                                     *)
(***************************************************************************)
Fetching == {"fetch", "fetching", "rotate"}
Publishing == {"pre", "state", "health"}

Places ==
  \A t \in Tasks :
    /\ pc[t] \in {"stage", "clear", "mark"} => op[t] = "update"
    /\ pc[t] \in Fetching => op[t] \in {"init", "update", "refresh", "recover", "auto"}
    /\ pc[t] \in {"check", "probe"} => op[t] \in {"refresh", "test"}
    /\ pc[t] \in {"reprobe", "probing"} => op[t] = "refresh"
    /\ pc[t] \in {"worker", "settle"} => op[t] = "external"
    /\ pc[t] = "pre" => op[t] \in {"request", "recover", "auto", "remove"}
    /\ op[t] = "none" => pc[t] = "idle"

Goals ==
  \A t \in Tasks :
    /\ op[t] \in {"request", "remove"} /\ pc[t] \in Publishing => goal[t] = "expired"
    /\ goal[t] = "refreshing" =>
         op[t] \in {"init", "refresh", "recover", "external"}
    /\ op[t] = "update" /\ pc[t] \in {"begin", "stage"} => goal[t] = "uninitialized"
    /\ pc[t] = "idle" => goal[t] = "uninitialized"
    /\ pc[t] = "health" => goal[t] # "refreshing"

SentWithPair ==
  \A t \in Tasks : op[t] \in Guarded /\ pc[t] = "fetching" => seen[t] = session

(* An Init without the guard that is still to publish what came of it. *)
InitUnderWay(u) ==
  op[u] = "init" /\ op[u] \notin Guarded /\ pc[u] \in Fetching \cup {"state"}

Published ==
  \A t \in Tasks :
    Holds(t) /\ pc[t] \in {"health", "end"} /\ op[t] # "external"
             /\ goal[t] # "uninitialized" =>
      healthState # "refreshing" \/ \E u \in Tasks : InitUnderWay(u)

Guarding == TypeOK /\ Control /\ SingleFlight /\ Places /\ Goals /\ SentWithPair /\ Published

LEMMA PlacesBegin ==
  ASSUME TypeOK, Control, Places, Goals, NEW t \in Tasks, Begin(t)
  PROVE  Places' /\ Goals'
<1> USE DEF TypeOK, Control, Places, Goals, Start, Goto, Fetching, Publishing, Guarded
<1>1. CASE StartInit(t)
  BY <1>1 DEF StartInit
<1>2. ASSUME NEW o \in {"update", "refresh"}, StartAdmin(t, o) PROVE Places' /\ Goals'
  BY <1>2 DEF StartAdmin
<1>3. CASE StartRequest(t)
  BY <1>3 DEF StartRequest
<1>4. CASE StartExternal(t)
  BY <1>4 DEF StartExternal
<1>5. CASE StartTest(t)
  BY <1>5 DEF StartTest
<1>6. CASE StartAuto(t)
  BY <1>6 DEF StartAuto
<1>7. CASE StartRemove(t)
  BY <1>7 DEF StartRemove
<1> QED
  BY <1>1, <1>2, <1>3, <1>4, <1>5, <1>6, <1>7 DEF Begin

LEMMA PlacesStep ==
  ASSUME TypeOK, Control, Places, Goals, NEW t \in Tasks, Step(t)
  PROVE  Places' /\ Goals'
<1> USE DEF TypeOK, Control, Places, Goals, Guarded, Goto, Publish, Finish, Fail,
            FailureStates, Succeed, AfterRefreshing, Terminal, Fetching, Publishing,
            account, life, locals
<1>1. CASE Acquire(t)
  BY <1>1 DEF Acquire
<1>2. CASE Busy(t)
  BY <1>2 DEF Busy
<1>3. CASE WaitReturns(t)
  BY <1>3 DEF WaitReturns
<1>4. CASE WaitTimeout(t)
  BY <1>4 DEF WaitTimeout
<1>5. CASE End(t)
  BY <1>5 DEF End
<1>6. CASE PreHealth(t)
  BY <1>6 DEF PreHealth
<1>7. CASE SetState(t)
  BY <1>7 DEF SetState
<1>8. CASE SetHealth(t)
  BY <1>8 DEF SetHealth
<1>9. CASE StageRejected(t)
  BY <1>9 DEF StageRejected
<1>10. CASE StagePair(t)
  BY <1>10 DEF StagePair
<1>11. CASE StageClear(t)
  BY <1>11 DEF StageClear
<1>12. CASE StageMark(t)
  BY <1>12 DEF StageMark
<1>13. CASE FetchStart(t)
  BY <1>13 DEF FetchStart
<1>14. CASE FetchOk(t)
  BY <1>14 DEF FetchOk
<1>15. CASE FetchFail(t)
  BY <1>15 DEF FetchFail
<1>16. CASE RotateOk(t)
  BY <1>16 DEF RotateOk
<1>17. CASE RotateFail(t)
  BY <1>17 DEF RotateFail
<1>18. CASE Check(t)
  BY <1>18 DEF Check
<1>19. CASE Reprobe(t)
  BY <1>19 DEF Reprobe
<1>20. CASE ProbeOk(t)
  BY <1>20 DEF ProbeOk
<1>21. CASE FirstProbeFails(t)
  BY <1>21 DEF FirstProbeFails
<1>22. CASE ProbeFails(t)
  BY <1>22 DEF ProbeFails
<1>23. CASE CallReturns(t)
  BY <1>23 DEF CallReturns
<1>24. CASE CallAuthError(t)
  BY <1>24 DEF CallAuthError
<1>25. CASE AsyncDecide(t)
  BY <1>25 DEF AsyncDecide
<1>26. CASE Spawn(t)
  BY <1>26 DEF Spawn
<1>27. CASE SpawnBusy(t)
  BY <1>27 DEF SpawnBusy
<1>28. CASE WorkerExits(t)
  BY <1>28 DEF WorkerExits
<1>29. CASE WorkerFails(t)
  BY <1>29 DEF WorkerFails
<1>30. CASE Settle(t)
  BY <1>30 DEF Settle
<1> QED
  BY <1>1, <1>2, <1>3, <1>4, <1>5, <1>6, <1>7, <1>8, <1>9, <1>10, <1>11, <1>12,
     <1>13, <1>14, <1>15, <1>16, <1>17, <1>18, <1>19, <1>20, <1>21, <1>22, <1>23, <1>24,
     <1>25, <1>26, <1>27, <1>28, <1>29, <1>30 DEF Step, Progress

LEMMA SentBegin ==
  ASSUME TypeOK, SentWithPair, NEW t \in Tasks, Begin(t)
  PROVE  SentWithPair'
<1> USE DEF TypeOK, SentWithPair, Guarded, Start, Goto, account
<1>1. CASE StartInit(t)
  BY <1>1 DEF StartInit
<1>2. ASSUME NEW o \in {"update", "refresh"}, StartAdmin(t, o) PROVE SentWithPair'
  BY <1>2 DEF StartAdmin
<1>3. CASE StartRequest(t)
  BY <1>3 DEF StartRequest
<1>4. CASE StartExternal(t)
  BY <1>4 DEF StartExternal
<1>5. CASE StartTest(t)
  BY <1>5 DEF StartTest
<1>6. CASE StartAuto(t)
  BY <1>6 DEF StartAuto
<1>7. CASE StartRemove(t)
  BY <1>7 DEF StartRemove
<1> QED
  BY <1>1, <1>2, <1>3, <1>4, <1>5, <1>6, <1>7 DEF Begin

LEMMA SentStep ==
  ASSUME TypeOK, Control, SingleFlight, Places, SentWithPair, NEW t \in Tasks, Step(t)
  PROVE  SentWithPair'
<1> USE DEF TypeOK, Control, SingleFlight, Holds, Places, SentWithPair, Guarded, Goto, Publish,
            Finish, Fail, Succeed, AfterRefreshing, Fetching, account, locals
<1>1. CASE Acquire(t)
  BY <1>1 DEF Acquire
<1>2. CASE Busy(t)
  BY <1>2 DEF Busy
<1>3. CASE WaitReturns(t)
  BY <1>3 DEF WaitReturns
<1>4. CASE WaitTimeout(t)
  BY <1>4 DEF WaitTimeout
<1>5. CASE End(t)
  BY <1>5 DEF End
<1>6. CASE PreHealth(t)
  BY <1>6 DEF PreHealth
<1>7. CASE SetState(t)
  BY <1>7 DEF SetState
<1>8. CASE SetHealth(t)
  BY <1>8 DEF SetHealth
<1>9. CASE StageRejected(t)
  BY <1>9 DEF StageRejected
<1>10. CASE StagePair(t)
  BY <1>10 DEF StagePair
<1>11. CASE StageClear(t)
  BY <1>11 DEF StageClear
<1>12. CASE StageMark(t)
  BY <1>12 DEF StageMark
<1>13. CASE FetchStart(t)
  BY <1>13 DEF FetchStart
<1>14. CASE FetchOk(t)
  BY <1>14 DEF FetchOk
<1>15. CASE FetchFail(t)
  BY <1>15 DEF FetchFail
<1>16. CASE RotateOk(t)
  BY <1>16 DEF RotateOk
<1>17. CASE RotateFail(t)
  BY <1>17 DEF RotateFail
<1>18. CASE Check(t)
  BY <1>18 DEF Check
<1>19. CASE Reprobe(t)
  BY <1>19 DEF Reprobe
<1>20. CASE ProbeOk(t)
  BY <1>20 DEF ProbeOk
<1>21. CASE FirstProbeFails(t)
  BY <1>21 DEF FirstProbeFails
<1>22. CASE ProbeFails(t)
  BY <1>22 DEF ProbeFails
<1>23. CASE CallReturns(t)
  BY <1>23 DEF CallReturns
<1>24. CASE CallAuthError(t)
  BY <1>24 DEF CallAuthError
<1>25. CASE AsyncDecide(t)
  BY <1>25 DEF AsyncDecide
<1>26. CASE Spawn(t)
  BY <1>26 DEF Spawn
<1>27. CASE SpawnBusy(t)
  BY <1>27 DEF SpawnBusy
<1>28. CASE WorkerExits(t)
  BY <1>28 DEF WorkerExits
<1>29. CASE WorkerFails(t)
  BY <1>29 DEF WorkerFails
<1>30. CASE Settle(t)
  BY <1>30 DEF Settle
<1> QED
  BY <1>1, <1>2, <1>3, <1>4, <1>5, <1>6, <1>7, <1>8, <1>9, <1>10, <1>11, <1>12,
     <1>13, <1>14, <1>15, <1>16, <1>17, <1>18, <1>19, <1>20, <1>21, <1>22, <1>23, <1>24,
     <1>25, <1>26, <1>27, <1>28, <1>29, <1>30 DEF Step, Progress

LEMMA PublishedBegin ==
  ASSUME TypeOK, Places, Published, NEW t \in Tasks, Begin(t)
  PROVE  Published'
<1> USE DEF TypeOK, Places, Published, Holds, InitUnderWay, Fetching, Guarded, Start, Goto, account
<1>1. CASE StartInit(t)
  BY <1>1 DEF StartInit
<1>2. ASSUME NEW o \in {"update", "refresh"}, StartAdmin(t, o) PROVE Published'
  BY <1>2 DEF StartAdmin
<1>3. CASE StartRequest(t)
  BY <1>3 DEF StartRequest
<1>4. CASE StartExternal(t)
  BY <1>4 DEF StartExternal
<1>5. CASE StartTest(t)
  BY <1>5 DEF StartTest
<1>6. CASE StartAuto(t)
  BY <1>6 DEF StartAuto
<1>7. CASE StartRemove(t)
  BY <1>7 DEF StartRemove
<1> QED
  BY <1>1, <1>2, <1>3, <1>4, <1>5, <1>6, <1>7 DEF Begin

LEMMA PublishedStep ==
  ASSUME TypeOK, Control, SingleFlight, Places, Goals, Published, NEW t \in Tasks, Step(t)
  PROVE  Published'
<1> USE DEF TypeOK, Control, SingleFlight, Holds, Places, Goals, Published, InitUnderWay,
            Fetching, Publishing, Guarded, Goto, Publish, Finish, Fail, FailureStates, Succeed,
            AfterRefreshing, Terminal, account, locals
<1>1. CASE Acquire(t)
  BY <1>1 DEF Acquire
<1>2. CASE Busy(t)
  BY <1>2 DEF Busy
<1>3. CASE WaitReturns(t)
  BY <1>3 DEF WaitReturns
<1>4. CASE WaitTimeout(t)
  BY <1>4 DEF WaitTimeout
<1>5. CASE End(t)
  BY <1>5 DEF End
<1>6. CASE PreHealth(t)
  BY <1>6 DEF PreHealth
<1>7. CASE SetState(t)
  BY <1>7 DEF SetState
<1>8. CASE SetHealth(t)
  BY <1>8 DEF SetHealth
<1>9. CASE StageRejected(t)
  BY <1>9 DEF StageRejected
<1>10. CASE StagePair(t)
  BY <1>10 DEF StagePair
<1>11. CASE StageClear(t)
  BY <1>11 DEF StageClear
<1>12. CASE StageMark(t)
  BY <1>12 DEF StageMark
<1>13. CASE FetchStart(t)
  BY <1>13 DEF FetchStart
<1>14. CASE FetchOk(t)
  BY <1>14 DEF FetchOk
<1>15. CASE FetchFail(t)
  BY <1>15 DEF FetchFail
<1>16. CASE RotateOk(t)
  BY <1>16 DEF RotateOk
<1>17. CASE RotateFail(t)
  BY <1>17 DEF RotateFail
<1>18. CASE Check(t)
  BY <1>18 DEF Check
<1>19. CASE Reprobe(t)
  BY <1>19 DEF Reprobe
<1>20. CASE ProbeOk(t)
  BY <1>20 DEF ProbeOk
<1>21. CASE FirstProbeFails(t)
  BY <1>21 DEF FirstProbeFails
<1>22. CASE ProbeFails(t)
  BY <1>22 DEF ProbeFails
<1>23. CASE CallReturns(t)
  BY <1>23 DEF CallReturns
<1>24. CASE CallAuthError(t)
  BY <1>24 DEF CallAuthError
<1>25. CASE AsyncDecide(t)
  BY <1>25 DEF AsyncDecide
<1>26. CASE Spawn(t)
  BY <1>26 DEF Spawn
<1>27. CASE SpawnBusy(t)
  BY <1>27 DEF SpawnBusy
<1>28. CASE WorkerExits(t)
  BY <1>28 DEF WorkerExits
<1>29. CASE WorkerFails(t)
  BY <1>29 DEF WorkerFails
<1>30. CASE Settle(t)
  BY <1>30 DEF Settle
<1> QED
  BY <1>1, <1>2, <1>3, <1>4, <1>5, <1>6, <1>7, <1>8, <1>9, <1>10, <1>11, <1>12,
     <1>13, <1>14, <1>15, <1>16, <1>17, <1>18, <1>19, <1>20, <1>21, <1>22, <1>23, <1>24,
     <1>25, <1>26, <1>27, <1>28, <1>29, <1>30 DEF Step, Progress

LEMMA GuardingHolds == Spec => []Guarding
<1> DEFINE New == Places /\ Goals /\ SentWithPair /\ Published
<1>1. Init => New
  BY DEF Init, Places, Goals, SentWithPair, Published, Holds, Fetching, Publishing
<1>2. TypeOK /\ Control /\ SingleFlight /\ New /\ [Next]_vars => New'
  <2> SUFFICES ASSUME TypeOK, Control, SingleFlight, New, [Next]_vars PROVE New'
    OBVIOUS
  <2>1. ASSUME NEW t \in Tasks, Begin(t) PROVE New'
    BY <2>1, PlacesBegin, SentBegin, PublishedBegin
  <2>2. ASSUME NEW t \in Tasks, Step(t) PROVE New'
    BY <2>2, PlacesStep, SentStep, PublishedStep
  <2>3. CASE UNCHANGED vars
    BY <2>3 DEF vars, account, life, locals, Places, Goals, SentWithPair, Published, Holds,
                InitUnderWay
  <2> QED
    BY <2>1, <2>2, <2>3 DEF Next
<1> QED
  BY <1>1, <1>2, TypeCorrect, ControlHolds, SingleFlightHolds, PTL DEF Spec, Guarding

(***************************************************************************)
(* A recovery that gives the guard back has published what came of it.     *)
(***************************************************************************)
THEOREM RecoveryPublishesHolds == Spec => []RecoveryPublishes
<1>1. Guarding => RecoveryPublishes
  BY DEF Guarding, Published, RecoveryPublishes, InitUnderWay
<1> QED
  BY <1>1, GuardingHolds, PTL

-----------------------------------------------------------------------------
(***************************************************************************)
(* What the guard buys a staged pair.                                      *)
(***************************************************************************)
StagedStep ==
  \A t \in Tasks :
    Pending(t)' /\ healthy' => (Pending(t) /\ healthy) \/ MoveOf(Unguarded)

LEMMA StagedBegin ==
  ASSUME Guarding, NEW t \in Tasks, Begin(t)
  PROVE  StagedStep
<1> USE DEF Guarding, TypeOK, Places, StagedStep, Pending, Start, Goto, Fetching, account
<1>1. CASE StartInit(t)
  BY <1>1 DEF StartInit
<1>2. ASSUME NEW o \in {"update", "refresh"}, StartAdmin(t, o) PROVE StagedStep
  BY <1>2 DEF StartAdmin
<1>3. CASE StartRequest(t)
  BY <1>3 DEF StartRequest
<1>4. CASE StartExternal(t)
  BY <1>4 DEF StartExternal
<1>5. CASE StartTest(t)
  BY <1>5 DEF StartTest
<1>6. CASE StartAuto(t)
  BY <1>6 DEF StartAuto
<1>7. CASE StartRemove(t)
  BY <1>7 DEF StartRemove
<1> QED
  BY <1>1, <1>2, <1>3, <1>4, <1>5, <1>6, <1>7 DEF Begin

LEMMA StagedStepHolds ==
  ASSUME Guarding, NEW t \in Tasks, Step(t)
  PROVE  StagedStep
<1> USE DEF Guarding, TypeOK, Control, SingleFlight, Holds, Places, Goals, StagedStep, Pending,
            MoveOf, Unguarded, Guarded, Goto, Publish, Finish, Fail, FailureStates, Succeed,
            WriteHealthy, AfterRefreshing, Terminal, Fetching, Publishing, AllOperations,
            account, locals
<1>1. CASE Acquire(t)
  BY <1>1 DEF Acquire
<1>2. CASE Busy(t)
  BY <1>2 DEF Busy
<1>3. CASE WaitReturns(t)
  BY <1>3 DEF WaitReturns
<1>4. CASE WaitTimeout(t)
  BY <1>4 DEF WaitTimeout
<1>5. CASE End(t)
  BY <1>5 DEF End
<1>6. CASE PreHealth(t)
  <2>1. \/ healthy' = FALSE \/ healthy' = healthy
        \/ op[t] \in Unguarded \/ Holds(t)
    BY <1>6 DEF PreHealth
  <2>2. pc'[t] # pc[t]
    BY <1>6 DEF PreHealth
  <2>3. \A u \in Tasks : Pending(u)' => Pending(u)
    BY <1>6 DEF PreHealth
  <2>4. \A u \in Tasks : Pending(u) /\ Holds(t) => u = t
    BY DEF Guarding
  <2>5. Pending(t)' => healthy' = FALSE
    BY <1>6 DEF PreHealth
  <2> QED
    BY <2>1, <2>2, <2>3, <2>4, <2>5
<1>7. CASE SetState(t)
  BY <1>7 DEF SetState
<1>8. CASE SetHealth(t)
  <2>1. \/ healthy' = FALSE \/ healthy' = healthy
        \/ op[t] \in Unguarded \/ Holds(t)
    BY <1>8 DEF SetHealth
  <2>2. pc'[t] # pc[t]
    BY <1>8 DEF SetHealth
  <2>3. \A u \in Tasks : Pending(u)' => Pending(u)
    BY <1>8 DEF SetHealth
  <2>4. \A u \in Tasks : Pending(u) /\ Holds(t) => u = t
    BY DEF Guarding
  <2>5. Pending(t)' => healthy' = FALSE
    BY <1>8 DEF SetHealth
  <2> QED
    BY <2>1, <2>2, <2>3, <2>4, <2>5
<1>9. CASE StageRejected(t)
  BY <1>9 DEF StageRejected
<1>10. CASE StagePair(t)
  BY <1>10 DEF StagePair
<1>11. CASE StageClear(t)
  BY <1>11 DEF StageClear
<1>12. CASE StageMark(t)
  BY <1>12 DEF StageMark
<1>13. CASE FetchStart(t)
  BY <1>13 DEF FetchStart
<1>14. CASE FetchOk(t)
  BY <1>14 DEF FetchOk
<1>15. CASE FetchFail(t)
  BY <1>15 DEF FetchFail
<1>16. CASE RotateOk(t)
  BY <1>16 DEF RotateOk
<1>17. CASE RotateFail(t)
  BY <1>17 DEF RotateFail
<1>18. CASE Check(t)
  BY <1>18 DEF Check
<1>19. CASE Reprobe(t)
  BY <1>19 DEF Reprobe
<1>20. CASE ProbeOk(t)
  BY <1>20 DEF ProbeOk
<1>21. CASE FirstProbeFails(t)
  BY <1>21 DEF FirstProbeFails
<1>22. CASE ProbeFails(t)
  BY <1>22 DEF ProbeFails
<1>23. CASE CallReturns(t)
  BY <1>23 DEF CallReturns
<1>24. CASE CallAuthError(t)
  BY <1>24 DEF CallAuthError
<1>25. CASE AsyncDecide(t)
  BY <1>25 DEF AsyncDecide
<1>26. CASE Spawn(t)
  BY <1>26 DEF Spawn
<1>27. CASE SpawnBusy(t)
  BY <1>27 DEF SpawnBusy
<1>28. CASE WorkerExits(t)
  BY <1>28 DEF WorkerExits
<1>29. CASE WorkerFails(t)
  BY <1>29 DEF WorkerFails
<1>30. CASE Settle(t)
  BY <1>30 DEF Settle
<1> QED
  BY <1>1, <1>2, <1>3, <1>4, <1>5, <1>6, <1>7, <1>8, <1>9, <1>10, <1>11, <1>12,
     <1>13, <1>14, <1>15, <1>16, <1>17, <1>18, <1>19, <1>20, <1>21, <1>22, <1>23, <1>24,
     <1>25, <1>26, <1>27, <1>28, <1>29, <1>30 DEF Step, Progress

(* No operation that takes the guard lets a staged pair appear healthy     *)
(* before its validation is over, in every deployment.                     *)
THEOREM StagedStaysDownHolds == Spec => StagedStaysDown
<1>1. Guarding /\ [Next]_vars => [StagedStep]_vars
  BY StagedBegin, StagedStepHolds DEF Next
<1> QED
  BY <1>1, GuardingHolds, PTL DEF Spec, StagedStaysDown, StagedStep

-----------------------------------------------------------------------------
(***************************************************************************)
(* What the guard buys the token.                                          *)
(***************************************************************************)
TokenStep ==
  TokenApart' => Storing' \/ (TokenApart /\ ~Storing) \/ MoveOf(Unguarded \ {"test"})

LEMMA TokenBegin ==
  ASSUME Guarding, NEW t \in Tasks, Begin(t)
  PROVE  TokenStep
<1> USE DEF Guarding, TypeOK, TokenStep, TokenApart, Storing, Start, Goto, account
<1>1. CASE StartInit(t)
  BY <1>1 DEF StartInit
<1>2. ASSUME NEW o \in {"update", "refresh"}, StartAdmin(t, o) PROVE TokenStep
  BY <1>2 DEF StartAdmin
<1>3. CASE StartRequest(t)
  BY <1>3 DEF StartRequest
<1>4. CASE StartExternal(t)
  BY <1>4 DEF StartExternal
<1>5. CASE StartTest(t)
  BY <1>5 DEF StartTest
<1>6. CASE StartAuto(t)
  BY <1>6 DEF StartAuto
<1>7. CASE StartRemove(t)
  BY <1>7 DEF StartRemove
<1> QED
  BY <1>1, <1>2, <1>3, <1>4, <1>5, <1>6, <1>7 DEF Begin

LEMMA TokenStepHolds ==
  ASSUME Guarding, NEW t \in Tasks, Step(t)
  PROVE  TokenStep
<1> USE DEF Guarding, TypeOK, Control, Places, SentWithPair, TokenStep, TokenApart, Storing,
            MoveOf, Unguarded, Guarded, Goto, Publish, Finish, Fail, Succeed, AfterRefreshing,
            Fetching, account, locals
<1>1. CASE Acquire(t)
  BY <1>1 DEF Acquire
<1>2. CASE Busy(t)
  BY <1>2 DEF Busy
<1>3. CASE WaitReturns(t)
  BY <1>3 DEF WaitReturns
<1>4. CASE WaitTimeout(t)
  BY <1>4 DEF WaitTimeout
<1>5. CASE End(t)
  BY <1>5 DEF End
<1>6. CASE PreHealth(t)
  BY <1>6 DEF PreHealth
<1>7. CASE SetState(t)
  BY <1>7 DEF SetState
<1>8. CASE SetHealth(t)
  BY <1>8 DEF SetHealth
<1>9. CASE StageRejected(t)
  BY <1>9 DEF StageRejected
<1>10. CASE StagePair(t)
  BY <1>10 DEF StagePair
<1>11. CASE StageClear(t)
  BY <1>11 DEF StageClear
<1>12. CASE StageMark(t)
  BY <1>12 DEF StageMark
<1>13. CASE FetchStart(t)
  BY <1>13 DEF FetchStart
<1>14. CASE FetchOk(t)
  BY <1>14 DEF FetchOk
<1>15. CASE FetchFail(t)
  BY <1>15 DEF FetchFail
<1>16. CASE RotateOk(t)
  BY <1>16 DEF RotateOk
<1>17. CASE RotateFail(t)
  BY <1>17 DEF RotateFail
<1>18. CASE Check(t)
  BY <1>18 DEF Check
<1>19. CASE Reprobe(t)
  BY <1>19 DEF Reprobe
<1>20. CASE ProbeOk(t)
  BY <1>20 DEF ProbeOk
<1>21. CASE FirstProbeFails(t)
  BY <1>21 DEF FirstProbeFails
<1>22. CASE ProbeFails(t)
  BY <1>22 DEF ProbeFails
<1>23. CASE CallReturns(t)
  BY <1>23 DEF CallReturns
<1>24. CASE CallAuthError(t)
  BY <1>24 DEF CallAuthError
<1>25. CASE AsyncDecide(t)
  BY <1>25 DEF AsyncDecide
<1>26. CASE Spawn(t)
  BY <1>26 DEF Spawn
<1>27. CASE SpawnBusy(t)
  BY <1>27 DEF SpawnBusy
<1>28. CASE WorkerExits(t)
  BY <1>28 DEF WorkerExits
<1>29. CASE WorkerFails(t)
  BY <1>29 DEF WorkerFails
<1>30. CASE Settle(t)
  BY <1>30 DEF Settle
<1> QED
  BY <1>1, <1>2, <1>3, <1>4, <1>5, <1>6, <1>7, <1>8, <1>9, <1>10, <1>11, <1>12,
     <1>13, <1>14, <1>15, <1>16, <1>17, <1>18, <1>19, <1>20, <1>21, <1>22, <1>23, <1>24,
     <1>25, <1>26, <1>27, <1>28, <1>29, <1>30 DEF Step, Progress

(* No operation that takes the guard publishes a token of another pair     *)
(* than the one in use, in every deployment.                               *)
THEOREM TokenKeepsPairHolds == Spec => TokenKeepsPair
<1>1. Guarding /\ [Next]_vars => [TokenStep]_vars
  BY TokenBegin, TokenStepHolds DEF Next
<1> QED
  BY <1>1, GuardingHolds, PTL DEF Spec, TokenKeepsPair, TokenStep
=============================================================================

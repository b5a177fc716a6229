--------------------------- MODULE RequestLogger ---------------------------
(***************************************************************************)
(* RequestLogger: the request records the console shows, in a ring buffer  *)
(* under one mutex.  Writers add at head; readers walk back from head, by  *)
(* index arithmetic modulo the capacity.  It implements RecentRequests.    *)
(***************************************************************************)
EXTENDS Integers, Sequences, FiniteSets

CONSTANTS
  Records,    \* request records
  Succeeded,  \* those whose Status is "success"
  Failed,     \* and "error"; the others are pending
  Capacity,
  NoRecord    \* RequestRecord{}

ASSUME CapacityAssumption == Capacity \in Nat \ {0}
ASSUME RecordsAssumption ==
  /\ NoRecord \notin Records
  /\ Succeeded \subseteq Records
  /\ Failed \subseteq Records \ Succeeded

VARIABLES records, head, size
vars == <<records, head, size>>

Slots == 0..(Capacity - 1)

Init ==
  /\ records = [i \in Slots |-> NoRecord]
  /\ head = 0
  /\ size = 0

(* Mutant of LogRequest: the head moves before the record is written. *)
LogRequestMovesFirst(r) ==
  /\ records' = [records EXCEPT ![(head + 1) % Capacity] = r]
  /\ head' = (head + 1) % Capacity
  /\ size' = IF size < Capacity THEN size + 1 ELSE size

LogRequest(r) ==
  /\ records' = [records EXCEPT ![head] = r]
  /\ head' = (head + 1) % Capacity
  /\ size' = IF size < Capacity THEN size + 1 ELSE size

Clear ==
  /\ records' = [i \in Slots |-> NoRecord]
  /\ head' = 0
  /\ size' = 0

Next == (\E r \in Records : LogRequest(r)) \/ Clear

Spec == Init /\ [][Next]_vars

-----------------------------------------------------------------------------
(* The readers. *)

(* The slot of the i-th newest record, from 0. *)
Slot(i) == (head - 1 - i + Capacity) % Capacity

GetRecent(n) ==
  LET m == IF n <= 0 \/ n > size THEN size ELSE n
  IN  [i \in 1..m |-> records[Slot(i - 1)]]

GetStats ==
  LET counted(S) == Cardinality({i \in 0..(size - 1) : records[Slot(i)] \in S})
  IN  [total |-> size, success |-> counted(Succeeded), error |-> counted(Failed)]

-----------------------------------------------------------------------------
TypeOK ==
  /\ records \in [Slots -> Records \cup {NoRecord}]
  /\ head \in Slots
  /\ size \in 0..Capacity

(* The ring holds the latest records, the newest first, across every       *)
(* wraparound and after Clear: no record is lost early, shown twice or     *)
(* shown after it was overwritten (LogRequest, Clear, GetAll).             *)
Latest == INSTANCE RecentRequests WITH recent <- GetRecent(size)
Implements == Latest!Spec

(* What the two console endpoints answer fits together: the statistics     *)
(* count exactly the records of the list, and none of them is an empty     *)
(* slot (GetStats, GetRecent).                                             *)
StatsMatchList ==
  LET list == GetRecent(0)
      among(S) == Cardinality({i \in 1..Len(list) : list[i] \in S})
  IN  /\ \A i \in 1..Len(list) : list[i] \in Records
      /\ GetStats = [total |-> Len(list), success |-> among(Succeeded), error |-> among(Failed)]
=============================================================================

--------------------------- MODULE RecentRequests ---------------------------
(***************************************************************************)
(* What the console is promised of the request log: the latest Capacity    *)
(* records since it was last cleared, the newest first.                    *)
(***************************************************************************)
EXTENDS Naturals, Sequences

CONSTANTS Records, Capacity

VARIABLE recent

Shorter(m, n) == IF m <= n THEN m ELSE n

Init == recent = <<>>

Log(r) ==
  LET n == Shorter(Len(recent) + 1, Capacity)
  IN  recent' = [i \in 1..n |-> IF i = 1 THEN r ELSE recent[i - 1]]

Clear == recent' = <<>>

Next == (\E r \in Records : Log(r)) \/ Clear

Spec == Init /\ [][Next]_recent
=============================================================================

--------------------------- MODULE MCAccountRouter ---------------------------
EXTENDS AccountRouter, TLC
CONSTANTS a1, a2, a3
OneDeclared == <<a1>>
TwoDeclared == <<a1, a2>>
ThreeDeclared == <<a1, a2, a3>>
NoneAddable == <<>>
OneAddable == <<a2>>
ThirdAddable == <<a3>>

(* A bound: two conversations or two requests at once, not both.           *)
InUse == {c \in Convs : conversationSeen[c] # "none" \/ (\E r \in Requests : conv[r] = c)
                          \/ \E a \in Accounts : c \in state[a]}
Busy == {r \in Requests : pc[r] # "idle"}
OneAtATime == Cardinality(InUse) <= 1 \/ Cardinality(Busy) <= 1

Symmetry == Permutations(Requests) \cup Permutations(Convs)
=============================================================================

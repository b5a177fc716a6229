SPECIFICATION FairSpec
CONSTANTS
  a1 = a1
  a2 = a2
  a3 = a3
  NoAccount = NoAccount
  NoConv = NoConv
  Declared <- TwoDeclared
  Addable <- ThirdAddable
  Convs = {}
  Requests = {r1}
  Operations = {"stateless", "outage", "add", "restart"}
  StateFileFails = FALSE
INVARIANT FileMatches
PROPERTIES RequestsEnd RoundRobin

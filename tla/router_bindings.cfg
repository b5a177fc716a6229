SPECIFICATION Spec
CONSTANTS
  a1 = a1
  a2 = a2
  a3 = a3
  NoAccount = NoAccount
  NoConv = NoConv
  Declared <- OneDeclared
  Addable <- OneAddable
  Convs = {c1, c2}
  Requests = {r1, r2}
  Operations = {"lookup", "send", "age", "forget", "remove", "add"}
  StateFileFails = FALSE
INVARIANT OneVoice
PROPERTIES DispatchUp OthersKeepBinding
SYMMETRY Symmetry
CONSTRAINT OneAtATime

SPECIFICATION Spec
CONSTANTS
  Records = {ok, bad, pending}
  Succeeded = {ok}
  Failed = {bad}
  Capacity = 4
  NoRecord = NoRecord
PROPERTY Implements

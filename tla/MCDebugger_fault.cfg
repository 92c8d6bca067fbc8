\* A foreign exception while the client is traced.
CONSTANTS
  N = 3
  MAX_BPT = 2
  Text <- SeqText
  Rom = {}
  UserBpts = {2}
  UserTmps = {}
  Entries = {1}
  CmdStrs = {}
  TraceArgs <- StepArgs
  Cuts = {0, 1}
  StepCap = 3
SPECIFICATION Spec
INVARIANT ExceptionRestores

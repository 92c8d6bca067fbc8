\* Breakpoints with command strings are deleted twice.
CONSTANTS
  N = 3
  MAX_BPT = 2
  Text <- SeqText
  Rom = {}
  UserBpts = {0, 2}
  UserTmps = {}
  Entries = {1}
  CmdStrs = {"show"}
  TraceArgs <- StepArgs
  Cuts = {0, 1}
  StepCap = 3
SPECIFICATION Spec
INVARIANT NoFreeBug

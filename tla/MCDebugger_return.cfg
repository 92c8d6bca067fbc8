\* A client that returns to the monitor.
CONSTANTS
  N = 4
  MAX_BPT = 2
  Text <- ExitText
  Rom = {}
  UserBpts = {3}
  UserTmps = {}
  Entries = {1}
  CmdStrs = {}
  TraceArgs = {}
  Cuts = {0, 2}
  StepCap = 3
SPECIFICATION Spec
INVARIANT BreaksNeverSeen

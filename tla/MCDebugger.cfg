\* Two breakpoint slots, a program of sixteen words.
CONSTANTS
  N = 16
  MAX_BPT = 2
  Text <- LoopText
  Rom = {16}
  UserBpts = {13, 14}
  UserTmps = {14}
  Entries = {1}
  CmdStrs = {"c"}
  TraceArgs <- StepArgs
  Cuts = {0, 5}
  StepCap = 3
SPECIFICATION Spec
CONSTRAINT SuspectBound
INVARIANTS
  TypeOK
  TextRecoverable
  PromptClean
  TraceStepsOnce
  TraceCountObeyed
  ResumeProgresses
PROPERTIES
  BreakpointsTaken

CONSTANTS
  timer = timer
  cpu = cpu
  None = None
  Widget <- MCWidget
  Priority <- MCPriority
  Default <- MCDefault
  Signal <- MCSignal
  Event <- MCEvent
  Rule <- MCRule
  Profile <- MCProfile
  Override <- MCOverride
  Steps <- MCSteps
  Width <- MCWidth
  Gap = 8
  Widths <- MCWidths
  Activation = 1
  Deactivation = 3
  TickEvery = 2
  Capacity = 2
  MaxEvents = 2
SPECIFICATION Spec
INVARIANTS CommitsInTime SettledFits ShellAgrees
PROPERTY HeldSteady

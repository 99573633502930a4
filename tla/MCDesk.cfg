CONSTANTS
  cpu = cpu
  a = a
  b = b
  c1 = c1
  c2 = c2
  None = None
  Widget <- MCWidget
  Workspace <- MCWorkspace
  Caller <- MCCaller
  WorkSecs = 2
  BreakSecs = 1
  LongBreakSecs = 2
  UntilLong = 2
  Capacity = 2
  MaxTicks = 5
  MaxInputs = 5
  Profile <- MCProfile
  Dwell = 1
  ExitDwell = 1
  Slots = 2
  MaxTime = 3
  MaxMoves = 4
  NoProfile = "none"
  Proj = {"p", "q"}
  Space = {"v", "w"}
  Sec = 2
  WsSlots = 2
  MaxHalf = 3
  MaxDeeds = 3
  Nobody = None
  Spot = {"v", "w"}
  Away = 2
  Cooldown = 2
  Gap = 2
  DayLength = 3
  Horizon = 5
  Never = None
  Requester <- MCRequester
  Dial = {"density"}
  Theme = {"dark", "light"}
  Pair <- MCPair
  Variant <- MCVariant
  Plain <- MCPlain
  DefaultTheme = "dark"
  Nothing = None
  MaxAsks = 2
SPECIFICATION DeskSpec
INVARIANTS WorkBooked AppearanceKept FocusTimeKept NobodyIsNagged
PROPERTIES TreatedAsPublished AlertJustified FocusFollows
CHECK_DEADLOCK FALSE
